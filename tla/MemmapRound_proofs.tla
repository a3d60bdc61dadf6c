------------------------- MODULE MemmapRound_proofs -------------------------
(***************************************************************************)
(* For any number of events, rounds and failing calls: what the process    *)
(* believes to hold it holds (NeverWild), and unless a release failed it   *)
(* holds nothing else (LeakFree); rings never share memory (NoSharedPages) *)
(* and rows and exit status tell the truth (ExitHonest).                   *)
(***************************************************************************)
EXTENDS MemmapRound, FiniteSetTheorems, TLAPS

\* The labels each profile passes.
Labels ==
    \/ profile = "r0" /\ pc \in {"setup", "nop", "health", "first_unmap", "loop",
                                 "map", "unmap", "map_again", "out"}
    \/ profile = "l0" /\ pc \in {"setup", "nop", "health", "close", "fail_close",
                                 "fail", "loop"}
    \/ profile = "n0" /\ pc \in {"regions", "setup_user", "nop", "health", "close",
                                 "fail_close", "fail", "loop", "out_regions"}
    \/ profile = "a0" /\ pc \in {"loop", "anon"}
    \/ profile = "e0" /\ pc \in {"setup", "bad_map", "regions", "setup_user",
                                 "bad_map_user", "nop", "health", "out_user",
                                 "out_standard", "out_regions"}

Both == {"user_ring", "user_sqes"}

\* What the process believes to hold; after out_regions its pointers dangle.
Believed ==
    (IF ring.fd THEN {"fd"} ELSE {})
    \cup (IF ring.mapped /\ ~ring.user_backed THEN {"shared", "sqes"} ELSE {})
    \cup (IF standard THEN {"standard"} ELSE {})
    \cup (IF pc \in {"start", "begin", "row", "exited"} THEN {} ELSE regions)

ShapeInv ==
    /\ profile \in {"r0", "l0", "n0", "a0", "e0"}
    /\ Labels \/ pc \in {"start", "begin", "row", "exited"}
    /\ ring \in [fd : BOOLEAN, mapped : BOOLEAN, user_backed : BOOLEAN]
    /\ standard \in BOOLEAN
    /\ regions \in SUBSET Both
    /\ stuck \in BOOLEAN

\* Where the ring is open and mapped, and with whose memory.
RingInv ==
    /\ ring.mapped => ring.fd
    /\ ring.user_backed => profile \in {"n0", "e0"}
    /\ ring.mapped /\ profile \in {"n0", "e0"} => ring.user_backed
    /\ pc \in {"nop", "health", "first_unmap", "unmap", "close",
             "bad_map_user"} => ring.mapped
    /\ pc \in {"map", "map_again"} \/ (pc = "loop" /\ profile = "r0")
          => ring.fd /\ ~ring.mapped
    /\ \/ pc \in {"start", "begin", "row", "exited", "setup", "setup_user",
                  "regions", "bad_map", "anon", "fail", "out_standard",
                  "out_regions"}
       \/ pc = "loop" /\ profile # "r0"
       => ~ring.fd

\* Where e0's first ring is open, and where the user memory is there.
MemoryInv ==
    /\ standard =>
          profile = "e0" /\ pc \in {"bad_map", "regions", "setup_user",
                                    "bad_map_user", "nop", "health", "out_user",
                                    "out_standard"}
    /\ regions # {} => profile \in {"n0", "e0"}
    /\ pc \in {"setup", "bad_map", "regions"} => regions = {}
    /\ \/ pc \in {"setup_user", "bad_map_user"}
       \/ profile \in {"n0", "e0"} /\ pc \in {"nop", "health", "close", "loop"}
       => regions = Both

\* What is believed is there, and more is there only after a failed release.
AccountInv == Believed \subseteq open /\ (~stuck => open \subseteq Believed)

\* The inductive invariant.
IInv == ShapeInv /\ RingInv /\ MemoryInv /\ AccountInv /\ ~wild

-----------------------------------------------------------------------------
(* The actions                                                             *)

\* munmap calls that all succeeded leave nothing mapped.
LEMMA UnmapOutcome ==
    ASSUME NEW u \in Unmaps
    PROVE  u.cost \in Nat /\ (u.cost = 0 => u.left = {})
<1> PICK L \in SUBSET {"shared", "sqes"} : u = [left |-> L, cost |-> Cardinality(L)]
  BY DEF Unmaps
<1> IsFiniteSet(L)
  <2>1. IsFiniteSet({} \cup {"shared"})
    BY FS_EmptySet, FS_AddElement, Zenon
  <2>2. IsFiniteSet(({} \cup {"shared"}) \cup {"sqes"})
    BY <2>1, FS_AddElement, Zenon
  <2>3. {"shared", "sqes"} = ({} \cup {"shared"}) \cup {"sqes"}
    OBVIOUS
  <2> QED BY <2>2, <2>3, FS_Subset
<1> QED BY FS_CardinalityType, FS_EmptySet

\* From here on, an action a lemma: it keeps the invariant.
LEMMA StartKeeps == IInv /\ Start => IInv'
  BY DEF IInv, ShapeInv, RingInv, MemoryInv, Start, Same, profile, progVars,
     histVars, AccountInv, Believed

LEMMA BeginKeeps == IInv /\ Begin => IInv'
<1> SUFFICES ASSUME IInv, Begin PROVE IInv'
  OBVIOUS
<1>1. ShapeInv'
  BY DEF IInv, ShapeInv, Labels, Begin, GoOn, Succ, ClosedRing, Same, profile,
     histVars
<1>2. RingInv'
  BY DEF IInv, RingInv, Begin, GoOn, Succ, ClosedRing, Same, profile
<1>3. MemoryInv'
  BY DEF IInv, MemoryInv, Begin, GoOn, Succ, Same, profile
<1>4. AccountInv'
  BY DEF IInv, RingInv, MemoryInv, Begin, GoOn, ClosedRing, histVars, AccountInv,
     Believed
<1>5. ~wild'
  BY DEF IInv, Begin, GoOn, histVars
<1> QED BY <1>1, <1>2, <1>3, <1>4, <1>5 DEF IInv

\* What a failing or succeeding pair of mappings leaves behind.
LEMMA MapOutcome ==
    ASSUME NEW o \in MapOutcomes \cup {Refused}
    PROVE  /\ o.ok \in BOOLEAN
           /\ o.ok => o.maps = {"shared", "sqes"} /\ o.cost = 0
           /\ ~o.ok /\ o.cost # 2 => o.maps = {}
<1> DEFINE out(ok, maps, mmap, munmap, cost) ==
       [ok |-> ok, maps |-> maps, mmap |-> mmap, munmap |-> munmap, cost |-> cost]
<1>1. CASE o = out(TRUE, {"shared", "sqes"}, 2, 0, 0)
  BY <1>1
<1>2. CASE o = out(FALSE, {}, 0, 0, 1)
  BY <1>2
<1>3. CASE o = out(FALSE, {}, 1, 1, 1)
  BY <1>3
<1>4. CASE o = out(FALSE, {"shared"}, 1, 0, 2)
  BY <1>4
<1>5. CASE o = Refused
  BY <1>5 DEF Refused
<1> QED BY <1>1, <1>2, <1>3, <1>4, <1>5 DEF MapOutcomes

LEMMA SetupStandardKeeps == IInv /\ SetupStandard => IInv'
<1> SUFFICES ASSUME IInv, SetupStandard PROVE IInv'
  OBVIOUS
<1>1. /\ pc = "setup" /\ profile \in {"r0", "l0", "e0"}
      /\ ~ring.fd /\ ~ring.mapped /\ regions = {} /\ ~standard
  BY DEF IInv, ShapeInv, Labels, RingInv, MemoryInv, SetupStandard
<1>2. /\ Succ = (IF profile = "e0" THEN "bad_map" ELSE "nop")
      /\ FailTo = CASE profile = "r0" -> "out" [] profile = "e0" -> "out_regions"
                    [] OTHER -> "fail_close"
  BY <1>1 DEF Succ, FailTo
<1>3. profile' = profile /\ regions' = regions /\ wild' = wild
  BY DEF SetupStandard, Same, profile
<1>4. CASE /\ ring' = ClosedRing /\ pc' = FailTo
           /\ UNCHANGED <<open, standard, stuck>>
  BY <1>1, <1>2, <1>3, <1>4
  DEF IInv, ShapeInv, Labels, RingInv, MemoryInv, AccountInv, Believed, ClosedRing
<1>5. CASE /\ profile = "e0" /\ pc' = Succ
           /\ standard' = TRUE /\ open' = open \cup {"standard"}
           /\ UNCHANGED <<ring, stuck>>
  BY <1>1, <1>2, <1>3, <1>5
  DEF IInv, ShapeInv, Labels, RingInv, MemoryInv, AccountInv, Believed
<1>6. ASSUME profile # "e0", UNCHANGED standard,
             NEW o \in MapOutcomes,
             ring' = [fd |-> TRUE, mapped |-> o.ok, user_backed |-> FALSE],
             open' = open \cup {"fd"} \cup o.maps,
             stuck' = (stuck \/ o.cost = 2),
             pc' = IF o.ok THEN Succ ELSE FailTo
      PROVE  IInv'
  <2>1. /\ ring'.fd /\ ring'.mapped = o.ok /\ ~ring'.user_backed
        /\ ring' \in [fd : BOOLEAN, mapped : BOOLEAN, user_backed : BOOLEAN]
    BY <1>6, MapOutcome
  <2>2. pc' \in {"nop", "out", "fail_close"} /\ (pc' = "nop" => o.ok)
        /\ (pc' = "out" => profile = "r0") /\ (pc' = "fail_close" => profile = "l0")
    BY <1>1, <1>2, <1>6
  <2>3. ShapeInv' /\ RingInv' /\ MemoryInv'
    BY <1>1, <1>3, <1>6, <2>1, <2>2 DEF IInv, ShapeInv, Labels, RingInv, MemoryInv
  <2>4. CASE o.ok
    BY <1>1, <1>3, <1>6, <2>1, <2>2, <2>3, <2>4, MapOutcome
    DEF IInv, ShapeInv, AccountInv, Believed
  <2>5. CASE ~o.ok /\ o.cost # 2
    BY <1>1, <1>3, <1>6, <2>1, <2>2, <2>3, <2>5, MapOutcome
    DEF IInv, ShapeInv, AccountInv, Believed
  <2>6. CASE ~o.ok /\ o.cost = 2
    BY <1>1, <1>3, <1>6, <2>1, <2>2, <2>3, <2>6
    DEF IInv, ShapeInv, AccountInv, Believed
  <2> QED BY <2>4, <2>5, <2>6, MapOutcome, <1>6
<1> QED BY <1>4, <1>5, <1>6 DEF SetupStandard, GoOn

LEMMA SetupUserKeeps == IInv /\ SetupUser => IInv'
<1> SUFFICES ASSUME IInv, SetupUser PROVE IInv'
  OBVIOUS
<1>1. /\ pc = "setup_user" /\ profile \in {"n0", "e0"}
      /\ ~ring.fd /\ ~ring.mapped /\ regions = Both
  BY DEF IInv, ShapeInv, Labels, RingInv, MemoryInv, SetupUser
<1>2. /\ Succ = (IF profile = "e0" THEN "bad_map_user" ELSE "nop")
      /\ FailTo = (IF profile = "e0" THEN "out_user" ELSE "fail_close")
  BY <1>1 DEF Succ, FailTo
<1>3. UNCHANGED <<profile, regions, standard, stuck, wild>>
  BY DEF SetupUser, Same, profile, histVars
<1>4. CASE ring' = ClosedRing /\ pc' = FailTo /\ UNCHANGED open
  BY <1>1, <1>2, <1>3, <1>4
  DEF IInv, ShapeInv, Labels, RingInv, MemoryInv, AccountInv, Believed, ClosedRing
<1>5. CASE /\ ring' = [fd |-> TRUE, mapped |-> TRUE, user_backed |-> TRUE]
           /\ open' = open \cup {"fd"}
           /\ pc' \in {Succ, FailTo}
  <2>1. ring'.fd /\ ring'.mapped /\ ring'.user_backed
        /\ ring' \in [fd : BOOLEAN, mapped : BOOLEAN, user_backed : BOOLEAN]
    BY <1>5
  <2>2. ShapeInv' /\ RingInv' /\ MemoryInv'
    BY <1>1, <1>2, <1>3, <1>5, <2>1 DEF IInv, ShapeInv, Labels, RingInv, MemoryInv
  <2>3. Believed' = Believed \cup {"fd"}
    BY <1>1, <1>2, <1>3, <1>5, <2>1 DEF Believed
  <2> QED BY <1>3, <1>5, <2>2, <2>3 DEF IInv, AccountInv
<1> QED BY <1>4, <1>5 DEF SetupUser, GoOn

LEMMA MapRingKeeps == IInv /\ MapRing => IInv'
<1> SUFFICES ASSUME IInv, MapRing PROVE IInv'
  OBVIOUS
<1>1. /\ pc \in {"map", "map_again"} /\ profile = "r0"
      /\ ~ring.mapped /\ ~ring.user_backed /\ ~standard /\ regions = {}
  BY DEF IInv, ShapeInv, Labels, RingInv, MemoryInv, MapRing
<1>2. Succ = (IF pc = "map" THEN "unmap" ELSE "nop") /\ FailTo = "out"
  BY <1>1 DEF Succ, FailTo
<1>3. UNCHANGED <<profile, regions, standard, wild>>
  BY DEF MapRing, Same, profile
<1>4. PICK o \in MapOutcomes :
         /\ ring' = [ring EXCEPT !.mapped = @ \/ o.ok]
         /\ open' = open \cup o.maps
         /\ stuck' = (stuck \/ o.cost = 2)
         /\ pc' = IF o.ok THEN Succ ELSE FailTo
  BY <1>1 DEF MapRing, GoOn
<1>5. UNCHANGED <<ring.fd, ring.user_backed>> /\ ring'.mapped = o.ok
      /\ ring' \in [fd : BOOLEAN, mapped : BOOLEAN, user_backed : BOOLEAN]
  BY <1>1, <1>4, MapOutcome DEF IInv, ShapeInv
<1>6. ShapeInv' /\ MemoryInv'
  BY <1>1, <1>2, <1>3, <1>4, <1>5 DEF IInv, ShapeInv, Labels, MemoryInv
<1>7. RingInv'
  BY <1>1, <1>2, <1>3, <1>4, <1>5 DEF IInv, ShapeInv, RingInv
<1>8. Believed' = Believed \cup (IF o.ok THEN {"shared", "sqes"} ELSE {})
  BY <1>1, <1>2, <1>3, <1>4, <1>5 DEF Believed
<1>9. AccountInv'
  BY <1>4, <1>8, MapOutcome DEF IInv, ShapeInv, AccountInv
<1> QED BY <1>3, <1>6, <1>7, <1>9 DEF IInv

LEMMA UnmapRingKeeps == IInv /\ UnmapRing => IInv'
<1> SUFFICES ASSUME IInv, UnmapRing PROVE IInv'
  OBVIOUS
<1>1. /\ pc \in {"first_unmap", "unmap"} /\ profile = "r0"
      /\ ring.fd /\ ring.mapped /\ ~ring.user_backed /\ ~standard /\ regions = {}
  BY DEF IInv, ShapeInv, Labels, RingInv, MemoryInv, UnmapRing
<1>2. Succ = "loop" /\ FailTo = "out"
  BY <1>1 DEF Succ, FailTo
<1>3. UNCHANGED <<profile, regions, standard>>
  BY DEF UnmapRing, Same, profile
<1>4. PICK u \in Unmaps :
         /\ open' = (open \ {"shared", "sqes"}) \cup (u.left \cap open)
         /\ stuck' = (stuck \/ u.cost > 0)
         /\ pc' = IF u.cost = 0 THEN Succ ELSE FailTo
  BY DEF UnmapRing, GoOn
<1>5. ring'.fd /\ ~ring'.mapped /\ ~ring'.user_backed
      /\ ring' \in [fd : BOOLEAN, mapped : BOOLEAN, user_backed : BOOLEAN]
  BY <1>1 DEF UnmapRing, Unmapped, IInv, ShapeInv
<1>6. ShapeInv' /\ RingInv' /\ MemoryInv'
  BY <1>1, <1>2, <1>3, <1>4, <1>5 DEF IInv, ShapeInv, Labels, RingInv, MemoryInv
<1>7. Believed = {"fd", "shared", "sqes"} /\ Believed' = {"fd"}
  BY <1>1, <1>2, <1>3, <1>4, <1>5 DEF Believed
<1>8. AccountInv'
  <2>1. (stuck' = stuck /\ open' = open \ {"shared", "sqes"}) \/ stuck'
    <3>1. CASE u.cost = 0
      BY <1>4, <3>1, UnmapOutcome DEF IInv, ShapeInv
    <3>2. CASE u.cost > 0
      BY <1>4, <3>2
    <3> QED BY <3>1, <3>2, UnmapOutcome
  <2>2. {"fd"} \subseteq open'
    BY <1>4, <1>7 DEF IInv, AccountInv
  <2> QED BY <1>7, <2>1, <2>2 DEF IInv, AccountInv
<1>9. ~wild'
  BY <1>7 DEF UnmapRing, IInv, AccountInv
<1> QED BY <1>6, <1>8, <1>9 DEF IInv

LEMMA SubmitNopKeeps == IInv /\ SubmitNop => IInv'
<1> SUFFICES ASSUME IInv, SubmitNop PROVE IInv'
  OBVIOUS
<1>1. ShapeInv'
  BY DEF IInv, ShapeInv, Labels, SubmitNop, GoOn, Succ, FailTo, Same, profile
<1>2. RingInv'
  BY DEF IInv, RingInv, SubmitNop, GoOn, Succ, FailTo, Same, profile
<1>3. MemoryInv'
  BY DEF IInv, MemoryInv, SubmitNop, GoOn, Succ, FailTo, Same, profile
<1>4. AccountInv'
  BY DEF IInv, SubmitNop, GoOn, Succ, FailTo, AccountInv, Believed
<1>5. ~wild'
  BY DEF IInv, RingInv, MemoryInv, SubmitNop, GoOn, Memory, Both, AccountInv,
     Believed
<1> QED BY <1>1, <1>2, <1>3, <1>4, <1>5 DEF IInv

LEMMA CheckHealthKeeps == IInv /\ CheckHealth => IInv'
<1> SUFFICES ASSUME IInv, CheckHealth PROVE IInv'
  OBVIOUS
<1>1. ShapeInv'
  BY DEF IInv, ShapeInv, Labels, CheckHealth, GoOn, Succ, FailTo, Same, profile
<1>2. RingInv'
  BY DEF IInv, RingInv, CheckHealth, GoOn, Succ, FailTo, Same, profile
<1>3. MemoryInv'
  BY DEF IInv, MemoryInv, CheckHealth, GoOn, Succ, FailTo, Same, profile
<1>4. AccountInv'
  BY DEF IInv, CheckHealth, GoOn, Succ, FailTo, AccountInv, Believed
<1>5. ~wild'
  BY DEF IInv, RingInv, MemoryInv, CheckHealth, GoOn, Memory, Both, AccountInv,
     Believed
<1> QED BY <1>1, <1>2, <1>3, <1>4, <1>5 DEF IInv

\* close_ring gives up just what the process believes the ring to have.
LEMMA CloseRingAccount ==
    ASSUME IInv, NEW o \in CloseOutcomes, CloseRing(o)
    PROVE  /\ UNCHANGED <<profile, standard, regions>>
           /\ ring' \in [fd : BOOLEAN, mapped : BOOLEAN, user_backed : BOOLEAN]
           /\ ~ring'.fd /\ ~ring'.mapped /\ ring'.user_backed = ring.user_backed
           /\ stuck' \in BOOLEAN /\ ~wild'
           /\ LET kept == Believed \ {"fd", "shared", "sqes"}
              IN  kept \subseteq open' /\ (~stuck' => open' \subseteq kept)
<1>1. /\ ring' \in [fd : BOOLEAN, mapped : BOOLEAN, user_backed : BOOLEAN]
      /\ ~ring'.fd /\ ~ring'.mapped /\ ring'.user_backed = ring.user_backed
      /\ UNCHANGED <<profile, standard, regions>>
  BY DEF CloseRing, Unmapped, Same, IInv, ShapeInv, profile
<1>2. ring.fd => "fd" \in Believed
  BY DEF Believed
<1>3. CASE NeedsUnmap
  <2>1. {"shared", "sqes"} \subseteq Believed
    BY <1>3 DEF NeedsUnmap, Believed
  <2>2. o.unmap.cost \in Nat /\ (o.unmap.cost = 0 => o.unmap.left = {})
    <3>1. o.unmap \in Unmaps
      BY <1>3 DEF CloseOutcomes
    <3> QED BY <3>1, UnmapOutcome
  <2>3. (stuck' = stuck /\ open' = open \ {"fd", "shared", "sqes"}) \/ stuck' = TRUE
    <3>1. CASE o.unmap.cost = 0
      BY <1>3, <2>2, <3>1 DEF CloseRing, IInv, ShapeInv
    <3>2. CASE o.unmap.cost # 0
      <4>1. o.unmap.cost > 0
        BY <2>2, <3>2
      <4> QED BY <4>1 DEF CloseRing
    <3> QED BY <3>1, <3>2
  <2>4. ~wild'
    BY <1>2, <2>1 DEF CloseRing, IInv, AccountInv
  <2>5. Believed \ {"fd", "shared", "sqes"} \subseteq open'
    BY <1>3 DEF CloseRing, IInv, AccountInv
  <2> QED
    BY <1>1, <2>3, <2>4, <2>5 DEF IInv, ShapeInv, AccountInv
<1>4. CASE ~NeedsUnmap
  <2>1. Believed \cap {"shared", "sqes"} = {}
    BY <1>4 DEF NeedsUnmap, Believed, IInv, ShapeInv, Both
  <2>2. o.unmap.cost = 0
    BY <1>4 DEF CloseOutcomes
  <2> QED BY <1>1, <1>2, <1>4, <2>1, <2>2 DEF CloseRing, IInv, ShapeInv, AccountInv
<1> QED BY <1>3, <1>4

\* So a step that closes the ring keeps the invariant if its label allows for it.
LEMMA CloseKeeps ==
    ASSUME IInv, NEW o \in CloseOutcomes, CloseRing(o),
           ShapeInv', RingInv', MemoryInv',
           pc \notin {"start", "begin", "row", "exited"},
           pc' \in {"start", "begin", "row", "exited"} => regions = {}
    PROVE  IInv'
<1>1. /\ UNCHANGED <<standard, regions>> /\ ~ring'.fd /\ ~ring'.mapped
      /\ regions \cap {"fd", "shared", "sqes"} = {}
  BY CloseRingAccount DEF IInv, ShapeInv, Both
<1>2. Believed' = Believed \ {"fd", "shared", "sqes"}
  BY <1>1 DEF Believed
<1> QED BY <1>2, CloseRingAccount DEF IInv, AccountInv

LEMMA CloseEventKeeps == IInv /\ CloseEvent => IInv'
<1> SUFFICES ASSUME IInv, CloseEvent PROVE IInv'
  OBVIOUS
<1>1. pc = "close" /\ profile \in {"l0", "n0"}
  BY DEF IInv, ShapeInv, Labels, CloseEvent
<1>2. Succ = "loop" /\ FailTo = "fail"
  BY <1>1 DEF Succ, FailTo
<1>3. PICK o \in CloseOutcomes : CloseRing(o) /\ pc' \in {Succ, FailTo}
  BY DEF CloseEvent, GoOn
<1>4. ShapeInv' /\ RingInv' /\ MemoryInv'
  BY <1>1, <1>2, <1>3, CloseRingAccount
  DEF IInv, ShapeInv, Labels, RingInv, MemoryInv
<1> QED BY <1>1, <1>2, <1>3, <1>4, CloseKeeps

LEMMA OutR0Keeps == IInv /\ OutR0 => IInv'
<1> SUFFICES ASSUME IInv, OutR0 PROVE IInv'
  OBVIOUS
<1>1. pc = "out" /\ pc' = "row" /\ profile = "r0"
  BY DEF IInv, ShapeInv, Labels, OutR0, CloseOut
<1>2. PICK o \in CloseOutcomes : CloseRing(o)
  BY DEF OutR0, CloseOut
<1>3. ShapeInv' /\ RingInv' /\ MemoryInv'
  BY <1>1, <1>2, CloseRingAccount DEF IInv, ShapeInv, Labels, RingInv, MemoryInv
<1> QED BY <1>1, <1>2, <1>3, CloseKeeps DEF IInv, MemoryInv

LEMMA FailCloseKeeps == IInv /\ FailClose => IInv'
<1> SUFFICES ASSUME IInv, FailClose PROVE IInv'
  OBVIOUS
<1>1. pc = "fail_close" /\ pc' = "fail" /\ profile \in {"l0", "n0"}
  BY DEF IInv, ShapeInv, Labels, FailClose, CloseOut
<1>2. PICK o \in CloseOutcomes : CloseRing(o)
  BY DEF FailClose, CloseOut
<1>3. ShapeInv' /\ RingInv' /\ MemoryInv'
  BY <1>1, <1>2, CloseRingAccount DEF IInv, ShapeInv, Labels, RingInv, MemoryInv
<1> QED BY <1>1, <1>2, <1>3, CloseKeeps DEF IInv, MemoryInv

LEMMA OutUserKeeps == IInv /\ OutUser => IInv'
<1> SUFFICES ASSUME IInv, OutUser PROVE IInv'
  OBVIOUS
<1>1. pc = "out_user" /\ pc' = "out_standard" /\ profile = "e0"
  BY DEF IInv, ShapeInv, Labels, OutUser, CloseOut
<1>2. PICK o \in CloseOutcomes : CloseRing(o)
  BY DEF OutUser, CloseOut
<1>3. ShapeInv' /\ RingInv' /\ MemoryInv'
  BY <1>1, <1>2, CloseRingAccount DEF IInv, ShapeInv, Labels, RingInv, MemoryInv
<1> QED BY <1>1, <1>2, <1>3, CloseKeeps DEF IInv, MemoryInv

LEMMA FailRoundKeeps == IInv /\ FailRound => IInv'
  BY DEF IInv, ShapeInv, Labels, RingInv, MemoryInv, FailRound, Same, profile,
     progVars, histVars, AccountInv, Believed

LEMMA LoopKeeps == IInv /\ Loop => IInv'
  BY DEF IInv, ShapeInv, Labels, RingInv, MemoryInv, Loop, Same, profile, progVars,
     histVars, AccountInv, Believed

LEMMA AnonEventKeeps == IInv /\ AnonEvent => IInv'
<1> SUFFICES ASSUME IInv, AnonEvent PROVE IInv'
  OBVIOUS
<1>1. ShapeInv'
  BY DEF IInv, ShapeInv, Labels, AnonEvent, Same, profile
<1>2. RingInv'
  BY DEF IInv, ShapeInv, Labels, RingInv, AnonEvent, Same, profile
<1>3. MemoryInv'
  BY DEF IInv, ShapeInv, Labels, MemoryInv, AnonEvent, Same, profile
<1>4. AccountInv'
  BY DEF IInv, ShapeInv, Labels, MemoryInv, AnonEvent, AccountInv, Believed
<1>5. ~wild'
  BY DEF IInv, AnonEvent
<1> QED BY <1>1, <1>2, <1>3, <1>4, <1>5 DEF IInv

LEMMA RegionsKeeps == IInv /\ Regions => IInv'
<1> SUFFICES ASSUME IInv, Regions PROVE IInv'
  OBVIOUS
<1>1. ShapeInv'
  BY DEF IInv, ShapeInv, Labels, Regions, GoOn, Succ, FailTo, Same, profile, Both
<1>2. RingInv'
  BY DEF IInv, ShapeInv, Labels, RingInv, Regions, GoOn, Succ, FailTo, Same,
     profile
<1>3. MemoryInv'
  BY DEF IInv, ShapeInv, Labels, MemoryInv, Regions, GoOn, Succ, FailTo, Same,
     profile, Both
<1>4. AccountInv'
  BY DEF IInv, MemoryInv, Regions, GoOn, Succ, FailTo, AccountInv, Believed
<1>5. ~wild'
  BY DEF IInv, Regions, GoOn
<1> QED BY <1>1, <1>2, <1>3, <1>4, <1>5 DEF IInv

LEMMA BadMapKeeps == IInv /\ BadMap => IInv'
<1> SUFFICES ASSUME IInv, BadMap PROVE IInv'
  OBVIOUS
<1>1. pc \in {"bad_map", "bad_map_user"} /\ profile = "e0"
  BY DEF IInv, ShapeInv, Labels, BadMap
<1>2. /\ Succ = (IF pc = "bad_map" THEN "regions" ELSE "nop")
      /\ FailTo = (IF pc = "bad_map" THEN "out_standard" ELSE "out_user")
  BY <1>1 DEF Succ, FailTo
<1>3. pc' \in {Succ, FailTo} /\ UNCHANGED <<profile, ring, standard, regions, wild>>
  BY DEF BadMap, GoOn, Same, profile
<1>4. ShapeInv' /\ RingInv' /\ MemoryInv'
  BY <1>1, <1>2, <1>3 DEF BadMap, IInv, ShapeInv, Labels, RingInv, MemoryInv
<1>5. Believed' = Believed
  BY <1>1, <1>2, <1>3 DEF Believed
<1>6. UNCHANGED <<open, stuck>> \/ (stuck' = TRUE /\ open \subseteq open')
                                \/ (stuck' = stuck /\ open' = open)
  BY DEF BadMap, IInv, ShapeInv
<1> QED BY <1>3, <1>4, <1>5, <1>6 DEF IInv, AccountInv

LEMMA OutStandardKeeps == IInv /\ OutStandard => IInv'
<1> SUFFICES ASSUME IInv, OutStandard PROVE IInv'
  OBVIOUS
<1>1. ShapeInv'
  BY DEF IInv, ShapeInv, Labels, OutStandard, Same, profile, histVars
<1>2. RingInv'
  BY DEF IInv, RingInv, OutStandard, Same, profile
<1>3. MemoryInv'
  BY DEF IInv, MemoryInv, OutStandard, Same, profile
<1>4. AccountInv'
  BY DEF IInv, ShapeInv, OutStandard, histVars, Both, AccountInv, Believed
<1>5. ~wild'
  BY DEF IInv, OutStandard, histVars
<1> QED BY <1>1, <1>2, <1>3, <1>4, <1>5 DEF IInv

LEMMA OutRegionsKeeps == IInv /\ OutRegions => IInv'
<1> SUFFICES ASSUME IInv, OutRegions PROVE IInv'
  OBVIOUS
<1>1. ShapeInv'
  BY DEF IInv, ShapeInv, OutRegions, Same, profile
<1>2. RingInv'
  BY DEF IInv, RingInv, OutRegions, Same, profile
<1>3. MemoryInv'
  BY DEF IInv, MemoryInv, OutRegions, Same, profile
<1>4. AccountInv'
  BY DEF IInv, RingInv, MemoryInv, OutRegions, AccountInv, Believed
<1>5. ~wild'
  BY DEF IInv, OutRegions
<1> QED BY <1>1, <1>2, <1>3, <1>4, <1>5 DEF IInv

LEMMA WriteRowKeeps == IInv /\ WriteRow => IInv'
  BY DEF IInv, ShapeInv, RingInv, MemoryInv, WriteRow, profile, progVars, histVars,
     AccountInv, Believed

LEMMA SignalKeeps == IInv /\ Signal => IInv'
  BY DEF IInv, ShapeInv, Labels, RingInv, MemoryInv, Signal, profile, progVars,
     histVars, AccountInv, Believed

LEMMA KernelReleasesKeeps == IInv /\ KernelReleases => IInv'
  BY DEF IInv, ShapeInv, Labels, RingInv, MemoryInv, KernelReleases, profile,
     progVars, histVars, AccountInv, Believed

-----------------------------------------------------------------------------
(* The theorems                                                            *)

LEMMA Initially == Init => IInv
<1> SUFFICES ASSUME Init PROVE IInv
  OBVIOUS
<1>1. profile \in {"r0", "l0", "n0", "a0", "e0"}
  BY MemmapAssumption DEF Init, AllRuns, profile
<1>2. ShapeInv /\ RingInv /\ MemoryInv /\ Believed = {}
  BY <1>1 DEF Init, ShapeInv, RingInv, MemoryInv, Believed, ClosedRing
<1> QED BY <1>2 DEF Init, IInv, AccountInv

LEMMA Inductive == IInv /\ [Next]_vars => IInv'
<1> SUFFICES ASSUME IInv, [Next]_vars PROVE IInv'
  OBVIOUS
<1>1. CASE Program
  BY <1>1, StartKeeps, BeginKeeps, SetupStandardKeeps, SetupUserKeeps, MapRingKeeps,
     UnmapRingKeeps, SubmitNopKeeps, CheckHealthKeeps, CloseEventKeeps, OutR0Keeps,
     FailCloseKeeps, OutUserKeeps, FailRoundKeeps, LoopKeeps, AnonEventKeeps,
     RegionsKeeps, BadMapKeeps, OutStandardKeeps, OutRegionsKeeps, WriteRowKeeps
  DEF Program
<1>2. CASE Signal
  BY <1>2, SignalKeeps
<1>3. CASE KernelReleases
  BY <1>3, KernelReleasesKeeps
<1>4. CASE UNCHANGED vars
  BY <1>4
  DEF vars, progVars, histVars, IInv, ShapeInv, Labels, RingInv, MemoryInv,
      AccountInv, Believed, profile
<1> QED BY <1>1, <1>2, <1>3, <1>4 DEF Next, Exited

LEMMA Invariant == Spec => []IInv
  BY Initially, Inductive, PTL DEF Spec

\* Whatever fails, and however many events, rounds and failures there are, the
\* clean-up of every profile uses, unmaps and closes only what is there.
THEOREM ReleasesOnce == Spec => []NeverWild
<1>1. IInv => NeverWild
  BY DEF IInv, NeverWild
<1> QED BY <1>1, Invariant, PTL

\* Whichever step of a round fails, its clean-up labels leave nothing behind
\* unless a release itself failed.
THEOREM NothingLeaks == Spec => []LeakFree
<1>1. IInv => LeakFree
  <2> SUFFICES ASSUME IInv, pc \in {"row", "exited"}, ~stuck PROVE open = {}
    BY DEF LeakFree
  <2>1. ~ring.fd /\ ~ring.mapped /\ ~standard
    BY DEF IInv, ShapeInv, RingInv, MemoryInv
  <2>2. Believed = {}
    BY <2>1 DEF Believed
  <2> QED BY <2>2 DEF IInv, AccountInv
<1> QED BY <1>1, Invariant, PTL

-----------------------------------------------------------------------------
(* The memory of user-backed rings                                         *)

\* The labels at which the round has no ring left and makes none any more.
Spent == {"fail", "out_standard", "out_regions", "row", "exited"}

\* The ring that is open is in the memory of its event, and closed rings are in
\* the memory of other events, or of earlier rounds.
PagesInv ==
    /\ round \in Nat /\ i \in Nat
    /\ region = IF ring.fd /\ ring.user_backed THEN <<round, i>> ELSE NoRegion
    /\ \A d \in dying :
          /\ d \in Nat \X Nat
          /\ \/ d[1] < round
             \/ d[1] = round /\ d[2] < i /\ pc \notin {"start", "begin"}
             \/ d[1] = round /\ d[2] = i /\ pc \in Spent

-----------------------------------------------------------------------------
(* Rows and exit status                                                    *)

CountersType ==
    [success : Int, setup : Int, close : Int, mmap : Int, munmap : Int, nop : Int,
     validation : BOOLEAN, cleanup : BOOLEAN, unhealthy : BOOLEAN, addr_ok : BOOLEAN]

\* A failed release shows in the counters, or will before the row is written.
StuckInv ==
    stuck => \/ counters.validation \/ counters.cleanup
             \/ pc = "fail"
             \/ profile = "r0" /\ pc = "out" /\ ~ret
             \/ profile = "e0" /\ ~ret
                /\ pc \in {"out_user", "out_standard", "out_regions"}

\* So does a round that run_profile gives up.
RetInv ==
    /\ profile # "e0" => counters.success = i
    /\ pc = "regions" /\ profile = "n0" => i = 0
    /\ pc \notin {"begin", "row", "exited", "out_regions", "out", "out_user", "out_standard"}
          => ~ret
    /\ ~ret /\ pc \in {"row", "out_regions"} =>
          \/ counters.validation
          \/ profile \in {"l0", "n0", "a0"} /\ i # EVENTS
          \/ profile = "e0" /\ pc = "out_regions"

\* Until the process exits it has written a row for every round behind it, and
\* all of them have passed.
RowsInv ==
    /\ round < Rounds /\ rows \in Seq(BOOLEAN)
    /\ pc # "exited" => ~exitOk /\ Len(rows) = round /\ \A r \in 1..Len(rows) : rows[r]

HonestInv ==
    /\ counters \in CountersType /\ ret \in BOOLEAN /\ exitOk \in BOOLEAN
    /\ StuckInv /\ RetInv /\ RowsInv
    /\ pc \in {"start", "begin"} => ~stuck

\* A step that makes no ring and closes none, within a round.
LEMMA PagesFrame ==
    ASSUME PagesInv, UNCHANGED <<round, dying>>, i' \in Nat, i' >= i,
           pc \notin {"start", "begin"}, pc' \notin {"start", "begin"},
           pc \in Spent => pc' \in Spent /\ i' = i,
           region' = IF ring'.fd /\ ring'.user_backed THEN <<round, i'>> ELSE NoRegion
    PROVE  PagesInv'
<1> SUFFICES ASSUME NEW d \in dying
             PROVE  /\ d \in Nat \X Nat
                    /\ \/ d[1] < round
                       \/ d[1] = round /\ d[2] < i'
                       \/ d[1] = round /\ d[2] = i' /\ pc' \in Spent
  BY DEF PagesInv
<1> QED BY DEF PagesInv

\* A ring is closed: its memory joins what the kernel still uses.
LEMMA PagesClose ==
    ASSUME IInv, PagesInv, NEW o \in CloseOutcomes, CloseRing(o),
           i' \in Nat, pc \notin Spent \cup {"start", "begin"}, pc' \notin {"start", "begin"},
           i' = i + 1 \/ (i' = i /\ pc' \in Spent)
    PROVE  PagesInv'
<1>1. ~ring'.fd /\ region' = NoRegion /\ round' = round
  BY CloseRingAccount DEF CloseRing, Same
<1>2. dying' = dying \/ dying' = dying \cup {<<round, i>>}
  BY DEF CloseRing, PagesInv
<1>3. round \in Nat /\ i \in Nat
  BY DEF PagesInv
<1>4. ASSUME NEW d \in dying'
      PROVE  /\ d \in Nat \X Nat
             /\ \/ d[1] < round
                \/ d[1] = round /\ d[2] < i'
                \/ d[1] = round /\ d[2] = i' /\ pc' \in Spent
  <2>1. CASE d \in dying
    BY <1>3, <2>1 DEF PagesInv
  <2>2. CASE d = <<round, i>>
    BY <1>3, <2>2
  <2> QED BY <1>2, <1>4, <2>1, <2>2
<1> QED BY <1>1, <1>3, <1>4 DEF PagesInv

LEMMA PagesStep == IInv /\ PagesInv /\ [Next]_vars => PagesInv'
<1> SUFFICES ASSUME IInv, PagesInv, [Next]_vars PROVE PagesInv'
  OBVIOUS
<1>t. round \in Nat /\ i \in Nat /\ round + 1 \in Nat /\ i + 1 \in Nat
  BY DEF PagesInv
<1>1. CASE Start
  BY <1>1 DEF Start, Same, PagesInv, Spent
<1>2. CASE Begin
  <2>1. ~ring.fd /\ pc = "begin" /\ ring' = ClosedRing /\ i' = 0
        /\ UNCHANGED <<round, region, dying>>
    BY <1>2 DEF Begin, Same, IInv, RingInv
  <2>2. region = NoRegion /\ ~ring'.fd
    BY <2>1 DEF PagesInv, ClosedRing
  <2>3. \A d \in dying : d \in Nat \X Nat /\ d[1] < round
    BY <2>1 DEF PagesInv, Spent
  <2> QED BY <1>t, <2>1, <2>2, <2>3 DEF PagesInv
<1>3. CASE SetupStandard
  <2>1. /\ pc = "setup" /\ UNCHANGED <<round, i, region, dying>>
        /\ pc' \in {Succ, FailTo}
    BY <1>3 DEF SetupStandard, Same, GoOn
  <2>4. ~ring'.fd \/ ~ring'.user_backed
    <3>1. ~ring.fd
      BY <2>1 DEF IInv, RingInv
    <3>2. \/ ring' = ClosedRing \/ ring' = ring
          \/ \E o \in MapOutcomes : ring' = [fd |-> TRUE, mapped |-> o.ok, user_backed |-> FALSE]
      BY <1>3, Zenon DEF SetupStandard
    <3> QED BY <3>1, <3>2 DEF ClosedRing
  <2>2. Succ \notin {"start", "begin"} /\ FailTo \notin {"start", "begin"}
    BY <1>3 DEF Succ, FailTo, SetupStandard, IInv, ShapeInv
  <2>3. region = NoRegion
    BY <1>3 DEF SetupStandard, IInv, RingInv, PagesInv
  <2> QED BY <1>t, <2>1, <2>2, <2>3, <2>4, PagesFrame DEF Spent
<1>4. CASE SetupUser
  <2>1. /\ pc = "setup_user" /\ ~ring.fd /\ UNCHANGED <<round, i, dying>>
        /\ pc' \in {Succ, FailTo}
    BY <1>4 DEF SetupUser, Same, IInv, RingInv, GoOn
  <2>4. \/ ring' = ClosedRing /\ region' = region
        \/ ring'.fd /\ ring'.user_backed /\ region' = <<round, i>>
    <3>1. \/ ring' = ClosedRing /\ region' = region
          \/ /\ ring' = [fd |-> TRUE, mapped |-> TRUE, user_backed |-> TRUE]
             /\ region' = <<round, i>>
      BY <1>4, Zenon DEF SetupUser, EventRegion
    <3> QED BY <3>1
  <2>2. Succ \notin {"start", "begin"} /\ FailTo \notin {"start", "begin"}
    BY <1>4 DEF Succ, FailTo, SetupUser, IInv, ShapeInv
  <2>3. region = NoRegion
    BY <2>1 DEF PagesInv
  <2> QED BY <1>t, <2>1, <2>2, <2>3, <2>4, PagesFrame DEF Spent, ClosedRing
<1>5. CASE MapRing \/ UnmapRing
  <2>1. /\ pc \in {"map", "map_again", "first_unmap", "unmap"} /\ profile = "r0"
        /\ UNCHANGED <<round, region, dying>> /\ i' \in {i, i + 1}
        /\ pc' \in {Succ, FailTo}
    BY <1>5 DEF MapRing, UnmapRing, Same, IInv, ShapeInv, Labels, GoOn
  <2>2. ring'.fd = ring.fd /\ ring'.user_backed = ring.user_backed /\ ~ring.user_backed
    BY <1>5, <2>1 DEF MapRing, UnmapRing, Unmapped, IInv, ShapeInv, RingInv
  <2>3. Succ \notin {"start", "begin"} /\ FailTo \notin {"start", "begin"}
    BY <2>1 DEF Succ, FailTo
  <2>4. region = NoRegion
    BY <2>2 DEF PagesInv
  <2> QED BY <1>t, <2>1, <2>2, <2>3, <2>4, PagesFrame DEF Spent
<1>6. CASE SubmitNop \/ CheckHealth \/ BadMap \/ Regions
  <2>1. /\ pc \in {"nop", "health", "bad_map", "bad_map_user", "regions"}
        /\ UNCHANGED <<round, i, ring, region, dying>> /\ pc' \in {Succ, FailTo}
    BY <1>6 DEF SubmitNop, CheckHealth, BadMap, Regions, Same, GoOn
  <2>2. Succ \notin {"start", "begin"} /\ FailTo \notin {"start", "begin"}
    BY <2>1 DEF Succ, FailTo, IInv, ShapeInv
  <2> QED BY <1>t, <2>1, <2>2, PagesFrame DEF Spent, PagesInv
<1>7. CASE CloseEvent
  <2>1. pc = "close" /\ Succ = "loop" /\ FailTo = "fail"
    BY <1>7 DEF CloseEvent, Succ, FailTo, IInv, ShapeInv, Labels
  <2>2. PICK o \in CloseOutcomes :
           /\ CloseRing(o) /\ i' = IF Closes(o) THEN i + 1 ELSE i
           /\ pc' = IF Closes(o) THEN Succ ELSE FailTo
    BY <1>7 DEF CloseEvent, GoOn
  <2> QED BY <1>t, <2>1, <2>2, PagesClose DEF Spent
<1>8. CASE OutR0 \/ FailClose \/ OutUser
  <2>1. PICK o \in CloseOutcomes : CloseRing(o)
    BY <1>8 DEF OutR0, FailClose, OutUser, CloseOut
  <2>2. pc \in {"out", "fail_close", "out_user"} /\ pc' \in {"row", "fail", "out_standard"}
        /\ i' = i
    BY <1>8 DEF OutR0, FailClose, OutUser, CloseOut
  <2> QED BY <1>t, <2>1, <2>2, PagesClose DEF Spent
<1>9. CASE FailRound \/ OutStandard \/ OutRegions
  <2>1. /\ pc \in {"fail", "out_standard", "out_regions"} /\ pc' \in {"row", "out_regions"}
        /\ UNCHANGED <<round, i, ring, region, dying>>
    BY <1>9 DEF FailRound, OutStandard, OutRegions, Same
  <2> QED BY <1>t, <2>1, PagesFrame DEF Spent, PagesInv
<1>10. CASE Loop
  <2>1. /\ pc = "loop" /\ pc' \notin {"start", "begin"}
        /\ UNCHANGED <<round, i, ring, region, dying>>
    BY <1>10 DEF Loop, Same, IInv, ShapeInv, Labels
  <2> QED BY <1>t, <2>1, PagesFrame DEF Spent, PagesInv
<1>11. CASE AnonEvent
  <2>1. /\ pc = "anon" /\ pc' \in {"loop", "row"} /\ i' \in {i, i + 1}
        /\ ~ring.fd /\ UNCHANGED <<round, ring, region, dying>>
    BY <1>11 DEF AnonEvent, Same, IInv, RingInv
  <2> QED BY <1>t, <2>1, PagesFrame DEF Spent, PagesInv
<1>12. CASE WriteRow
  <2>1. /\ pc = "row" /\ UNCHANGED <<i, ring, region, dying>> /\ ~ring.fd
        /\ \/ pc' = "begin" /\ round' = round + 1
           \/ pc' = "exited" /\ round' = round
    BY <1>12 DEF WriteRow, IInv, RingInv
  <2>2. \A d \in dying : d \in Nat \X Nat /\ d[1] <= round
    BY <1>t DEF PagesInv
  <2>3. CASE pc' = "begin" /\ round' = round + 1
    BY <1>t, <2>1, <2>2, <2>3 DEF PagesInv
  <2>4. CASE pc' = "exited" /\ round' = round
    BY <1>t, <2>1, <2>4, PagesFrame DEF Spent, PagesInv
  <2> QED BY <2>1, <2>3, <2>4
<1>13. CASE Signal \/ UNCHANGED vars
  BY <1>13 DEF Signal, vars, progVars, PagesInv
<1>14. CASE KernelReleases
  BY <1>14 DEF KernelReleases, progVars, PagesInv
<1> QED
  BY <1>1, <1>2, <1>3, <1>4, <1>5, <1>6, <1>7, <1>8, <1>9, <1>10, <1>11, <1>12, <1>13, <1>14
     DEF Next, Program, Exited

\* However late the kernel is done with closed rings, and whichever calls fail, no
\* ring is put in memory that a closed ring still uses (run_n0's slots).
THEOREM PagesNotShared == Spec => []NoSharedPages
<1>1. Init => PagesInv
  BY DEF Init, PagesInv, ClosedRing
<1>2. IInv /\ PagesInv => NoSharedPages
  <2> SUFFICES ASSUME IInv, PagesInv, region \in dying PROVE FALSE
    BY DEF NoSharedPages
  <2>1. region \in Nat \X Nat /\ round \in Nat /\ i \in Nat
    BY DEF PagesInv
  <2>2. region = <<round, i>> /\ ring.fd
    BY <2>1 DEF PagesInv, NoRegion
  <2>3. pc \notin Spent
    BY <2>2 DEF IInv, RingInv, Spent
  <2> QED BY <2>1, <2>2, <2>3 DEF PagesInv
<1> QED BY <1>1, <1>2, Invariant, PagesStep, PTL DEF Spec

-----------------------------------------------------------------------------
\* What a step within a round has to keep.
LEMMA HonestFrame ==
    ASSUME HonestInv, Same, pc # "exited",
           counters' \in CountersType, ret' \in BOOLEAN, StuckInv', RetInv',
           pc' \in {"start", "begin"} => ~stuck'
    PROVE  HonestInv'
<1>1. UNCHANGED <<rows, round, exitOk, run>> /\ Rounds' = Rounds
  BY DEF Same, Rounds, mode
<1>2. RowsInv'
  BY <1>1 DEF HonestInv, RowsInv
<1> QED BY <1>1, <1>2 DEF HonestInv

\* map_standard_ring counts, and notes when it could not undo its first mapping.
LEMMA MapCounters ==
    ASSUME NEW c \in CountersType, NEW o \in MapOutcomes \cup {Refused}
    PROVE  /\ Map(c, o) \in CountersType /\ Map(c, o).success = c.success
           /\ Map(c, o).validation = c.validation
           /\ Map(c, o).cleanup <=> c.cleanup \/ o.cost = 2
<1> DEFINE m == c.mmap + o.mmap
           n == c.munmap + o.munmap
           b == c.cleanup \/ o.cost = 2
<1>1. m \in Int /\ n \in Int
  <2>1. o.mmap \in Int /\ o.munmap \in Int
    BY DEF MapOutcomes, Refused
  <2> QED BY <2>1 DEF CountersType
<1>2. b \in BOOLEAN
  OBVIOUS
<1>3. Map(c, o) = [c EXCEPT !.mmap = m, !.munmap = n, !.cleanup = b]
  BY DEF Map
<1> HIDE DEF m, n, b
<1>4. /\ Map(c, o) \in CountersType /\ Map(c, o).success = c.success
      /\ Map(c, o).validation = c.validation /\ Map(c, o).cleanup = b
  BY <1>1, <1>2, <1>3 DEF CountersType
<1> QED BY <1>4 DEF b

\* From here on, an action a lemma again.
LEMMA HonestStart == HonestInv /\ (Start \/ Begin) => HonestInv'
<1> SUFFICES ASSUME HonestInv, Start \/ Begin PROVE HonestInv'
  OBVIOUS
<1>1. CASE Start
  <2>1. /\ pc = "start" /\ pc' \in {"begin", "exited"} /\ Same
        /\ UNCHANGED <<i, counters, ret, stuck, profile>>
    BY <1>1 DEF Start, Same, histVars, profile
  <2>2. StuckInv' /\ RetInv'
    BY <2>1 DEF HonestInv, StuckInv, RetInv
  <2> QED BY <2>1, <2>2, HonestFrame DEF HonestInv
<1>2. CASE Begin
  <2>1. /\ pc = "begin" /\ counters' = ZeroCounters /\ ret' = FALSE /\ i' = 0 /\ Same
        /\ pc' = Succ /\ UNCHANGED <<stuck, profile>>
    BY <1>2 DEF Begin, Same, histVars, GoOn, profile
  <2>2. pc' \in {"setup", "regions", "loop"}
    BY <2>1 DEF Succ
  <2>3. counters' \in CountersType /\ counters'.success = 0
    <3> DEFINE b == profile # "n0"
    <3>1. counters' = [success |-> 0, setup |-> 0, close |-> 0, mmap |-> 0, munmap |-> 0,
                       nop |-> 0, validation |-> FALSE, cleanup |-> FALSE,
                       unhealthy |-> FALSE, addr_ok |-> b]
      BY <2>1 DEF ZeroCounters
    <3>2. b \in BOOLEAN
      OBVIOUS
    <3> HIDE DEF b
    <3> QED BY <3>1, <3>2 DEF CountersType
  <2>4. StuckInv' /\ RetInv'
    BY <2>1, <2>2, <2>3 DEF HonestInv, StuckInv, RetInv
  <2> QED BY <2>1, <2>2, <2>3, <2>4, HonestFrame DEF HonestInv
<1> QED BY <1>1, <1>2

LEMMA HonestSetupStandard == IInv /\ HonestInv /\ SetupStandard => HonestInv'
<1> SUFFICES ASSUME IInv, HonestInv, SetupStandard PROVE HonestInv'
  OBVIOUS
<1>1. /\ pc = "setup" /\ profile \in {"r0", "l0", "e0"} /\ Same
      /\ UNCHANGED <<i, ret, profile>> /\ pc' \in {Succ, FailTo}
  BY DEF IInv, ShapeInv, Labels, SetupStandard, Same, GoOn, profile
<1>2. pc' \in {"bad_map", "nop", "out", "out_regions", "fail_close"}
      /\ (pc' = "out_regions" => profile = "e0")
  BY <1>1 DEF Succ, FailTo
<1>3. ~ret /\ ret \in BOOLEAN /\ counters \in CountersType
      /\ (stuck => counters.validation \/ counters.cleanup)
  BY <1>1 DEF HonestInv, StuckInv, RetInv
<1>4. /\ counters' \in CountersType /\ counters'.success = counters.success
      /\ stuck' => counters'.validation \/ counters'.cleanup
  <2>1. CASE UNCHANGED <<counters, stuck>>
    BY <1>3, <2>1
  <2>2. CASE counters' = [counters EXCEPT !.setup = @ + 1] /\ UNCHANGED stuck
    BY <1>3, <2>2 DEF CountersType
  <2>3. ASSUME NEW o \in MapOutcomes,
               counters' = Map([counters EXCEPT !.setup = @ + 1], o),
               stuck' = (stuck \/ o.cost = 2)
        PROVE  /\ counters' \in CountersType /\ counters'.success = counters.success
               /\ stuck' => counters'.validation \/ counters'.cleanup
    <3> DEFINE c == [counters EXCEPT !.setup = @ + 1]
    <3>1. c \in CountersType /\ c.success = counters.success
          /\ c.validation = counters.validation /\ c.cleanup = counters.cleanup
      BY <1>3 DEF CountersType
    <3> HIDE DEF c
    <3> QED BY <1>3, <2>3, <3>1, MapCounters DEF c
  <2> QED BY <2>1, <2>2, <2>3 DEF SetupStandard
<1>5. StuckInv'
  BY <1>4 DEF StuckInv
<1>6. RetInv'
  BY <1>1, <1>2, <1>3, <1>4 DEF HonestInv, RetInv
<1> QED BY <1>1, <1>2, <1>3, <1>4, <1>5, <1>6, HonestFrame

LEMMA HonestMapRing == IInv /\ HonestInv /\ MapRing => HonestInv'
<1> SUFFICES ASSUME IInv, HonestInv, MapRing PROVE HonestInv'
  OBVIOUS
<1>1. /\ pc \in {"map", "map_again"} /\ profile = "r0" /\ Same
      /\ UNCHANGED <<i, ret, profile>> /\ pc' \in {Succ, FailTo}
  BY DEF IInv, ShapeInv, Labels, MapRing, Same, GoOn, profile
<1>2. pc' \in {"unmap", "nop", "out"}
  BY <1>1 DEF Succ, FailTo
<1>3. ~ret /\ ret \in BOOLEAN /\ counters \in CountersType
      /\ (stuck => counters.validation \/ counters.cleanup)
  BY <1>1 DEF HonestInv, StuckInv, RetInv
<1>4. /\ counters' \in CountersType /\ counters'.success = counters.success
      /\ stuck' => counters'.validation \/ counters'.cleanup
  <2>1. PICK o \in MapOutcomes \cup {Refused} :
           counters' = Map(counters, o) /\ stuck' = (stuck \/ o.cost = 2)
    BY DEF MapRing
  <2> QED BY <1>3, <2>1, MapCounters
<1>5. StuckInv'
  BY <1>4 DEF StuckInv
<1>6. RetInv'
  BY <1>1, <1>2, <1>3, <1>4 DEF HonestInv, RetInv
<1> QED BY <1>1, <1>2, <1>3, <1>4, <1>5, <1>6, HonestFrame

LEMMA HonestUnmapRing == IInv /\ HonestInv /\ UnmapRing => HonestInv'
<1> SUFFICES ASSUME IInv, HonestInv, UnmapRing PROVE HonestInv'
  OBVIOUS
<1>1. /\ pc \in {"first_unmap", "unmap"} /\ profile = "r0" /\ Same
      /\ UNCHANGED <<ret, profile>>
  BY DEF IInv, ShapeInv, Labels, UnmapRing, Same, profile
<1>2. Succ = "loop" /\ FailTo = "out"
  BY <1>1 DEF Succ, FailTo
<1>3. ~ret /\ ret \in BOOLEAN /\ counters \in CountersType /\ counters.success = i
      /\ (stuck => counters.validation \/ counters.cleanup)
  BY <1>1 DEF HonestInv, StuckInv, RetInv
<1>4. PICK u \in Unmaps :
         /\ counters' = [counters EXCEPT
               !.munmap = @ + 2 - u.cost,
               !.success = IF pc = "unmap" /\ u.cost = 0 THEN @ + 1 ELSE @]
         /\ i' = IF pc = "unmap" /\ u.cost = 0 THEN i + 1 ELSE i
         /\ stuck' = (stuck \/ u.cost > 0)
         /\ pc' = IF u.cost = 0 THEN "loop" ELSE "out"
  BY <1>2 DEF UnmapRing, GoOn
<1>5. u.cost \in Nat
  BY UnmapOutcome
<1> DEFINE m == counters.munmap + 2 - u.cost
           n == IF pc = "unmap" /\ u.cost = 0 THEN counters.success + 1 ELSE counters.success
<1>6. m \in Int /\ n \in Int /\ n = i'
      /\ counters' = [counters EXCEPT !.munmap = m, !.success = n]
  BY <1>3, <1>4, <1>5 DEF CountersType
<1> HIDE DEF m, n
<1>7. /\ counters' \in CountersType /\ counters'.success = i'
      /\ counters'.validation = counters.validation /\ counters'.cleanup = counters.cleanup
  BY <1>3, <1>6 DEF CountersType
<1>8. StuckInv'
  <2>1. CASE u.cost = 0
    <3>1. ~(u.cost > 0)
      BY <2>1
    <3>2. stuck' => stuck
      BY <1>4, <3>1, Zenon
    <3> QED BY <1>1, <1>3, <1>7, <3>2 DEF StuckInv
  <2>2. CASE u.cost # 0
    <3>1. pc' = "out"
      BY <1>4, <2>2
    <3> QED BY <1>1, <1>3, <3>1 DEF StuckInv
  <2> QED BY <2>1, <2>2
<1>9. RetInv'
  BY <1>1, <1>3, <1>4, <1>7 DEF RetInv
<1> QED BY <1>1, <1>3, <1>4, <1>7, <1>8, <1>9, HonestFrame

\* A step on the way that changes neither events nor what was released.
LEMMA HonestOnTheWay ==
    IInv /\ HonestInv /\ (SetupUser \/ SubmitNop \/ CheckHealth) => HonestInv'
<1> SUFFICES ASSUME IInv, HonestInv, SetupUser \/ SubmitNop \/ CheckHealth PROVE HonestInv'
  OBVIOUS
<1>1. /\ pc \in {"setup_user", "nop", "health"} /\ profile \in {"r0", "l0", "n0", "e0"} /\ Same
      /\ UNCHANGED <<i, stuck, profile>> /\ pc' \in {Succ, FailTo}
  BY DEF IInv, ShapeInv, Labels, SetupUser, SubmitNop, CheckHealth, Same, GoOn, histVars, profile
<1>2. pc' \in {"bad_map_user", "nop", "health", "first_unmap", "out", "out_user", "close",
               "fail_close"}
  BY <1>1 DEF Succ, FailTo, IInv, ShapeInv, Labels
<1>3. ~ret /\ ret \in BOOLEAN /\ counters \in CountersType
      /\ (stuck => counters.validation \/ counters.cleanup)
  BY <1>1 DEF HonestInv, StuckInv, RetInv
<1>4. /\ counters' \in CountersType
      /\ profile # "e0" => counters'.success = counters.success
      /\ counters'.validation = counters.validation /\ counters'.cleanup = counters.cleanup
      /\ ret' \in BOOLEAN /\ (ret' => pc' \in {"out", "out_user"})
  <2>1. CASE SetupUser
    <3>1. \/ counters' = counters
          \/ \E b \in BOOLEAN : counters' = [counters EXCEPT !.setup = @ + 1, !.addr_ok = b]
      BY <2>1 DEF SetupUser
    <3>2. ret' = ret
      BY <2>1 DEF SetupUser
    <3>3. CASE counters' = counters
      BY <1>3, <3>2, <3>3
    <3>4. ASSUME NEW b \in BOOLEAN, counters' = [counters EXCEPT !.setup = @ + 1, !.addr_ok = b]
          PROVE  /\ counters' \in CountersType /\ counters'.success = counters.success
                 /\ counters'.validation = counters.validation
                 /\ counters'.cleanup = counters.cleanup
      <4> DEFINE m == counters.setup + 1
      <4>1. m \in Int /\ counters' = [counters EXCEPT !.setup = m, !.addr_ok = b]
        BY <1>3, <3>4 DEF CountersType
      <4> HIDE DEF m
      <4> QED BY <1>3, <4>1 DEF CountersType
    <3> QED BY <1>3, <3>1, <3>2, <3>3, <3>4
  <2>2. CASE SubmitNop
    <3>1. counters' = counters \/ counters' = [counters EXCEPT !.nop = @ + 1]
      BY <2>2 DEF SubmitNop
    <3>2. ret' = ret
      BY <2>2 DEF SubmitNop
    <3>3. CASE counters' = counters
      BY <1>3, <3>2, <3>3
    <3>4. CASE counters' = [counters EXCEPT !.nop = @ + 1]
      BY <1>3, <3>2, <3>4 DEF CountersType
    <3> QED BY <3>1, <3>3, <3>4
  <2>3. CASE CheckHealth
    <3>1. PICK healthy \in BOOLEAN :
             /\ counters' = [counters EXCEPT
                   !.unhealthy = @ \/ ~healthy,
                   !.success = IF healthy /\ profile = "e0" THEN 2 ELSE @]
             /\ ret' = (healthy /\ (profile = "e0" \/ (profile = "r0" /\ i > 0)))
             /\ GoOn(healthy)
      BY <2>3 DEF CheckHealth
    <3>2. pc = "health"
      BY <2>3 DEF CheckHealth
    <3> DEFINE h == counters.unhealthy \/ ~healthy
               n == IF healthy /\ profile = "e0" THEN 2 ELSE counters.success
    <3>3. /\ h \in BOOLEAN /\ n \in Int /\ (profile # "e0" => n = counters.success)
          /\ counters' = [counters EXCEPT !.unhealthy = h, !.success = n]
      BY <1>3, <3>1 DEF CountersType
    <3>4. /\ ret' \in BOOLEAN
          /\ ret' => /\ healthy
                     /\ profile = "e0" \/ (profile = "r0" /\ i > 0)
      BY <3>1, Zenon
    <3>5. ret' => pc' \in {"out", "out_user"}
      <4>1. CASE profile = "e0"
        BY <3>1, <3>2, <3>4, <4>1 DEF GoOn, Succ
      <4>2. CASE profile = "r0" /\ i > 0
        <5>1. i # 0
          BY <4>2
        <5> QED BY <3>1, <3>2, <3>4, <4>2, <5>1 DEF GoOn, Succ
      <4> QED BY <3>4, <4>1, <4>2
    <3> HIDE DEF h, n
    <3>6. /\ counters' \in CountersType /\ counters'.success = n
          /\ counters'.validation = counters.validation /\ counters'.cleanup = counters.cleanup
      BY <1>3, <3>3 DEF CountersType
    <3> QED BY <3>3, <3>4, <3>5, <3>6
  <2> QED BY <2>1, <2>2, <2>3
<1>5. StuckInv'
  BY <1>1, <1>3, <1>4 DEF StuckInv
<1>6. RetInv'
  BY <1>1, <1>2, <1>4 DEF HonestInv, RetInv
<1> QED BY <1>1, <1>2, <1>3, <1>4, <1>5, <1>6, HonestFrame

\* close_ring counts what succeeded; a release that fails is no success.
LEMMA CloseCounters ==
    ASSUME counters \in CountersType, NEW o \in CloseOutcomes
    PROVE  /\ Closed(o) \in CountersType
           /\ Closed(o).success = counters.success
           /\ Closed(o).validation = counters.validation
           /\ Closed(o).cleanup = counters.cleanup
           /\ Closes(o) => ~(o.unmap.cost > 0)
<1>1. o.unmap.cost \in Nat
  <2>1. CASE NeedsUnmap
    <3>1. o.unmap \in Unmaps
      BY <2>1 DEF CloseOutcomes
    <3> QED BY <3>1, UnmapOutcome
  <2>2. CASE ~NeedsUnmap
    BY <2>2 DEF CloseOutcomes
  <2> QED BY <2>1, <2>2
<1> DEFINE m == IF NeedsUnmap THEN counters.munmap + 2 - o.unmap.cost ELSE counters.munmap
           n == IF ring.fd /\ ~o.closeFails THEN counters.close + 1 ELSE counters.close
<1>2. m \in Int /\ n \in Int
  BY <1>1 DEF CountersType
<1>3. Closed(o) = [counters EXCEPT !.munmap = m, !.close = n]
  BY DEF Closed
<1>4. Closes(o) => ~(o.unmap.cost > 0)
  BY DEF Closes
<1> HIDE DEF m, n
<1> QED BY <1>2, <1>3, <1>4 DEF CountersType

LEMMA HonestCloseEvent == IInv /\ HonestInv /\ CloseEvent => HonestInv'
<1> SUFFICES ASSUME IInv, HonestInv, CloseEvent PROVE HonestInv'
  OBVIOUS
<1>1. pc = "close" /\ profile \in {"l0", "n0"} /\ Succ = "loop" /\ FailTo = "fail"
  BY DEF IInv, ShapeInv, Labels, CloseEvent, Succ, FailTo
<1>2. PICK o \in CloseOutcomes :
         /\ Same /\ UNCHANGED <<ret, profile>>
         /\ stuck' = (stuck \/ o.unmap.cost > 0)
         /\ counters' = [Closed(o) EXCEPT !.success = IF Closes(o) THEN @ + 1 ELSE @]
         /\ i' = IF Closes(o) THEN i + 1 ELSE i
         /\ pc' = IF Closes(o) THEN "loop" ELSE "fail"
  BY <1>1 DEF CloseEvent, CloseRing, GoOn, Same, profile
<1>3. ~ret /\ ret \in BOOLEAN /\ counters \in CountersType /\ counters.success = i
      /\ (stuck => counters.validation \/ counters.cleanup)
  BY <1>1 DEF HonestInv, StuckInv, RetInv
<1> DEFINE c == Closed(o)
           n == IF Closes(o) THEN c.success + 1 ELSE c.success
<1>4. /\ c \in CountersType /\ c.success = i
      /\ c.validation = counters.validation /\ c.cleanup = counters.cleanup
  BY <1>3, CloseCounters
<1>5. counters' = [c EXCEPT !.success = n]
  BY <1>2
<1>6. n = i' /\ n \in Int
  BY <1>2, <1>4 DEF CountersType
<1> HIDE DEF c, n
<1>7. /\ counters' \in CountersType /\ counters'.success = i'
      /\ counters'.validation = counters.validation /\ counters'.cleanup = counters.cleanup
  BY <1>4, <1>5, <1>6 DEF CountersType
<1>8. StuckInv'
  <2>1. CASE Closes(o)
    <3>1. ~(o.unmap.cost > 0)
      BY <1>3, <2>1, CloseCounters
    <3>2. stuck' => stuck
      BY <1>2, <3>1, Zenon
    <3> QED BY <1>3, <1>7, <3>2 DEF StuckInv
  <2>2. CASE ~Closes(o)
    BY <1>2, <2>2 DEF StuckInv
  <2> QED BY <2>1, <2>2
<1>9. RetInv'
  BY <1>1, <1>2, <1>3, <1>7 DEF RetInv
<1> QED BY <1>1, <1>2, <1>3, <1>7, <1>8, <1>9, HonestFrame

\* Closing on the way out: what could not be released is a cleanup failure.
LEMMA HonestCloseOut ==
    ASSUME NEW next, HonestInv, CloseOut(next)
    PROVE  /\ Same /\ pc' = next /\ UNCHANGED <<i, ret, profile>>
           /\ counters' \in CountersType /\ counters'.success = counters.success
           /\ counters.validation \/ (pc = "out" /\ ~ret) => counters'.validation
           /\ counters.cleanup => counters'.cleanup
           /\ stuck' => stuck \/ counters'.cleanup
<1>1. PICK o \in CloseOutcomes :
         /\ Same /\ UNCHANGED <<ret, profile>>
         /\ stuck' = (stuck \/ o.unmap.cost > 0)
         /\ counters' = [Closed(o) EXCEPT
               !.cleanup = @ \/ ~Closes(o),
               !.validation = @ \/ (pc = "out" /\ ~ret)]
  BY DEF CloseOut, CloseRing, Same, profile
<1>2. pc' = next /\ UNCHANGED i /\ counters \in CountersType
  BY DEF CloseOut, HonestInv
<1> DEFINE c == Closed(o)
           b == c.cleanup \/ ~Closes(o)
           v == c.validation \/ (pc = "out" /\ ~ret)
<1>3. /\ c \in CountersType /\ c.success = counters.success
      /\ c.validation = counters.validation /\ c.cleanup = counters.cleanup
  BY <1>2, CloseCounters
<1>4. counters' = [c EXCEPT !.cleanup = b, !.validation = v]
  BY <1>1
<1>5. b \in BOOLEAN /\ v \in BOOLEAN
  OBVIOUS
<1>6. /\ counters.cleanup => b
      /\ counters.validation \/ (pc = "out" /\ ~ret) => v
  BY <1>3
<1>7. stuck' => stuck \/ b
  <2>1. CASE Closes(o)
    <3>1. ~(o.unmap.cost > 0)
      BY <1>2, <2>1, CloseCounters
    <3> QED BY <1>1, <3>1, Zenon
  <2>2. CASE ~Closes(o)
    BY <2>2
  <2> QED BY <2>1, <2>2
<1> HIDE DEF c, b, v
<1>8. /\ counters' \in CountersType /\ counters'.success = counters.success
      /\ counters'.cleanup = b /\ counters'.validation = v
  BY <1>3, <1>4, <1>5 DEF CountersType
<1> QED BY <1>1, <1>2, <1>6, <1>7, <1>8

LEMMA HonestWayOut ==
    IInv /\ HonestInv /\ (OutR0 \/ FailClose \/ OutUser) => HonestInv'
<1> SUFFICES ASSUME IInv, HonestInv, OutR0 \/ FailClose \/ OutUser PROVE HonestInv'
  OBVIOUS
<1>1. ret \in BOOLEAN /\ counters \in CountersType
  BY DEF HonestInv
<1>2. CASE OutR0
  <2>1. pc = "out" /\ profile = "r0" /\ CloseOut("row")
    BY <1>2 DEF IInv, ShapeInv, Labels, OutR0
  <2>2. /\ Same /\ pc' = "row" /\ UNCHANGED <<i, ret, profile>>
        /\ counters' \in CountersType /\ counters'.success = counters.success
        /\ counters.validation \/ ~ret => counters'.validation
        /\ counters.cleanup => counters'.cleanup
        /\ stuck' => stuck \/ counters'.cleanup
    BY <2>1, HonestCloseOut
  <2>3. StuckInv' /\ RetInv'
    BY <2>1, <2>2 DEF HonestInv, StuckInv, RetInv
  <2> QED BY <1>1, <2>1, <2>2, <2>3, HonestFrame
<1>3. CASE FailClose
  <2>1. pc = "fail_close" /\ profile \in {"l0", "n0"} /\ CloseOut("fail")
    BY <1>3 DEF IInv, ShapeInv, Labels, FailClose
  <2>2. /\ Same /\ pc' = "fail" /\ UNCHANGED <<i, ret, profile>>
        /\ counters' \in CountersType /\ counters'.success = counters.success
    BY <2>1, HonestCloseOut
  <2>3. StuckInv' /\ RetInv'
    BY <2>1, <2>2 DEF HonestInv, StuckInv, RetInv
  <2> QED BY <1>1, <2>1, <2>2, <2>3, HonestFrame
<1>4. CASE OutUser
  <2>1. pc = "out_user" /\ profile = "e0" /\ CloseOut("out_standard")
    BY <1>4 DEF IInv, ShapeInv, Labels, OutUser
  <2>2. /\ Same /\ pc' = "out_standard" /\ UNCHANGED <<i, ret, profile>>
        /\ counters' \in CountersType
        /\ counters.validation => counters'.validation
        /\ counters.cleanup => counters'.cleanup
        /\ stuck' => stuck \/ counters'.cleanup
    BY <2>1, HonestCloseOut
  <2>3. StuckInv' /\ RetInv'
    BY <2>1, <2>2 DEF HonestInv, StuckInv, RetInv
  <2> QED BY <1>1, <2>1, <2>2, <2>3, HonestFrame
<1> QED BY <1>2, <1>3, <1>4

LEMMA HonestFailRound == IInv /\ HonestInv /\ FailRound => HonestInv'
<1> SUFFICES ASSUME IInv, HonestInv, FailRound PROVE HonestInv'
  OBVIOUS
<1>1. /\ pc = "fail" /\ profile \in {"l0", "n0"} /\ pc' \in {"out_regions", "row"} /\ Same
      /\ UNCHANGED <<i, ret, profile>> /\ counters' = [counters EXCEPT !.validation = TRUE]
  BY DEF IInv, ShapeInv, Labels, FailRound, Same, profile
<1>2. counters \in CountersType /\ ret \in BOOLEAN /\ counters.success = i
  BY <1>1 DEF HonestInv, RetInv
<1>3. counters' \in CountersType /\ counters'.success = i /\ counters'.validation
  BY <1>1, <1>2 DEF CountersType
<1>4. StuckInv' /\ RetInv'
  BY <1>1, <1>2, <1>3 DEF StuckInv, RetInv
<1> QED BY <1>1, <1>2, <1>3, <1>4, HonestFrame

LEMMA HonestLoop == IInv /\ HonestInv /\ Loop => HonestInv'
<1> SUFFICES ASSUME IInv, HonestInv, Loop PROVE HonestInv'
  OBVIOUS
<1>1. /\ pc = "loop" /\ profile \in {"r0", "l0", "n0", "a0"} /\ Same
      /\ UNCHANGED <<i, counters, stuck, profile>>
  BY DEF IInv, ShapeInv, Labels, Loop, Same, histVars, profile
<1>2. \/ pc' \in {"map", "setup", "setup_user", "anon"} /\ ret' = ret
      \/ /\ ret' = (i = EVENTS /\ profile # "r0")
         /\ pc' = CASE profile = "r0" -> IF i = EVENTS THEN "map_again" ELSE "out"
                    [] profile = "l0" -> IF i = EVENTS THEN "row" ELSE "fail"
                    [] profile = "n0" -> "out_regions"
                    [] profile = "a0" -> "row"
  BY <1>1 DEF Loop
<1>3. ~ret /\ ret \in BOOLEAN /\ counters \in CountersType /\ counters.success = i
      /\ (stuck => counters.validation \/ counters.cleanup)
  BY <1>1 DEF HonestInv, StuckInv, RetInv
<1>4. /\ ret' \in BOOLEAN
      /\ ret' => pc' \in {"row", "out_regions"}
      /\ pc' \in {"row", "out_regions"} =>
            ret' \/ (profile \in {"l0", "n0", "a0"} /\ i # EVENTS)
      /\ pc' \in {"map", "setup", "setup_user", "anon", "map_again", "out", "row", "fail",
                  "out_regions"}
  <2>1. CASE pc' \in {"map", "setup", "setup_user", "anon"} /\ ret' = ret
    BY <1>3, <2>1
  <2> DEFINE all == i = EVENTS
             next == CASE profile = "r0" -> IF all THEN "map_again" ELSE "out"
                       [] profile = "l0" -> IF all THEN "row" ELSE "fail"
                       [] profile = "n0" -> "out_regions"
                       [] profile = "a0" -> "row"
  <2>2. CASE ret' = (all /\ profile # "r0") /\ pc' = next
    <3> HIDE DEF all
    <3>1. CASE profile = "r0"
      BY <2>2, <3>1
    <3>2. CASE profile = "l0"
      BY <2>2, <3>2 DEF all
    <3>3. CASE profile = "n0"
      BY <2>2, <3>3 DEF all
    <3>4. CASE profile = "a0"
      BY <2>2, <3>4 DEF all
    <3> QED BY <1>1, <3>1, <3>2, <3>3, <3>4
  <2> QED BY <1>2, <2>1, <2>2
<1>5. StuckInv' /\ RetInv'
  BY <1>1, <1>3, <1>4 DEF StuckInv, RetInv
<1> QED BY <1>1, <1>3, <1>4, <1>5, HonestFrame

LEMMA HonestAnonEvent == IInv /\ HonestInv /\ AnonEvent => HonestInv'
<1> SUFFICES ASSUME IInv, HonestInv, AnonEvent PROVE HonestInv'
  OBVIOUS
<1>1. pc = "anon" /\ profile = "a0" /\ Same /\ UNCHANGED <<ret, profile>>
  BY DEF IInv, ShapeInv, Labels, AnonEvent, Same, profile
<1>2. PICK o \in AnonOutcomes :
         /\ counters' = [counters EXCEPT
               !.mmap = @ + o.mmap,
               !.munmap = IF o.failed = 0 THEN @ + 2 ELSE @,
               !.success = IF o.failed = 0 THEN @ + 1 ELSE @,
               !.validation = @ \/ o.failed # 0]
         /\ i' = IF o.failed = 0 THEN i + 1 ELSE i
         /\ pc' = IF o.failed = 0 THEN "loop" ELSE "row"
         /\ stuck' = (stuck \/ o.left # {})
  BY DEF AnonEvent
<1>3. o.mmap \in Int /\ (o.failed = 0 => o.left = {})
  BY DEF AnonOutcomes
<1>4. ~ret /\ ret \in BOOLEAN /\ counters \in CountersType /\ counters.success = i
      /\ (stuck => counters.validation \/ counters.cleanup)
  BY <1>1 DEF HonestInv, StuckInv, RetInv
<1> DEFINE m == counters.mmap + o.mmap
           u == IF o.failed = 0 THEN counters.munmap + 2 ELSE counters.munmap
           n == IF o.failed = 0 THEN counters.success + 1 ELSE counters.success
           v == counters.validation \/ o.failed # 0
<1>5. m \in Int /\ u \in Int /\ n \in Int /\ v \in BOOLEAN /\ n = i'
  BY <1>2, <1>3, <1>4 DEF CountersType
<1>6. (counters.validation => v) /\ (o.failed # 0 => v)
  OBVIOUS
<1>7. counters' = [counters EXCEPT !.mmap = m, !.munmap = u, !.success = n, !.validation = v]
  BY <1>2
<1> HIDE DEF m, u, n, v
<1>8. /\ counters' \in CountersType /\ counters'.success = i'
      /\ counters'.validation = v /\ counters'.cleanup = counters.cleanup
  BY <1>4, <1>5, <1>7 DEF CountersType
<1>9. stuck' => stuck \/ v
  BY <1>2, <1>3, <1>6, Zenon
<1>10. StuckInv'
  BY <1>4, <1>6, <1>8, <1>9 DEF StuckInv
<1>11. RetInv'
  BY <1>1, <1>2, <1>4, <1>6, <1>8 DEF RetInv
<1> QED BY <1>1, <1>2, <1>4, <1>8, <1>10, <1>11, HonestFrame

LEMMA HonestMemory == IInv /\ HonestInv /\ (Regions \/ BadMap) => HonestInv'
<1> SUFFICES ASSUME IInv, HonestInv, Regions \/ BadMap PROVE HonestInv'
  OBVIOUS
<1>1. /\ pc \in {"regions", "bad_map", "bad_map_user"} /\ profile \in {"n0", "e0"} /\ Same
      /\ profile = "n0" => pc = "regions"
      /\ UNCHANGED <<i, ret, counters, profile>>
  BY DEF IInv, ShapeInv, Labels, Regions, BadMap, Same, profile
<1>2. ~ret /\ ret \in BOOLEAN /\ counters \in CountersType
      /\ (stuck => counters.validation \/ counters.cleanup)
      /\ (profile = "n0" => counters.success = i /\ i # EVENTS)
  BY <1>1, MemmapAssumption DEF HonestInv, StuckInv, RetInv
<1>3. /\ Succ \in {"regions", "setup_user", "nop", "loop"}
      /\ Succ = "regions" => profile = "e0"
      /\ profile = "n0" => FailTo = "out_regions"
      /\ profile = "e0" => FailTo \in {"out_user", "out_standard"}
  BY <1>1 DEF Succ, FailTo
<1>4. \/ pc' = Succ /\ stuck' = stuck
      \/ pc' = FailTo /\ (stuck' => stuck \/ profile = "e0")
  <2>1. CASE Regions
    BY <2>1 DEF Regions, GoOn
  <2>2. CASE BadMap
    <3>1. profile = "e0" /\ pc' \in {Succ, FailTo}
      BY <2>2 DEF BadMap, GoOn, IInv, ShapeInv, Labels
    <3>2. pc' = FailTo \/ stuck' = stuck
      BY <2>2 DEF BadMap, GoOn
    <3> QED BY <3>1, <3>2
  <2> QED BY <2>1, <2>2
<1>5. StuckInv' /\ RetInv'
  BY <1>1, <1>2, <1>3, <1>4 DEF StuckInv, RetInv
<1> QED BY <1>1, <1>2, <1>3, <1>4, <1>5, HonestFrame

LEMMA HonestOutStandard == IInv /\ HonestInv /\ OutStandard => HonestInv'
<1> SUFFICES ASSUME IInv, HonestInv, OutStandard PROVE HonestInv'
  OBVIOUS
<1>1. /\ pc = "out_standard" /\ pc' = "out_regions" /\ profile = "e0" /\ Same
      /\ UNCHANGED <<i, ret, stuck, profile>>
  BY DEF IInv, ShapeInv, Labels, OutStandard, Same, histVars, profile
<1>2. PICK fails \in BOOLEAN :
         counters' = [counters EXCEPT !.close = IF fails THEN @ ELSE @ + 1,
                                      !.cleanup = @ \/ fails]
  BY DEF OutStandard
<1>3. counters \in CountersType /\ ret \in BOOLEAN
  BY DEF HonestInv
<1> DEFINE m == IF fails THEN counters.close ELSE counters.close + 1
           b == counters.cleanup \/ fails
<1>4. m \in Int /\ b \in BOOLEAN /\ (counters.cleanup => b)
      /\ counters' = [counters EXCEPT !.close = m, !.cleanup = b]
  BY <1>2, <1>3 DEF CountersType
<1> HIDE DEF m, b
<1>5. counters' \in CountersType /\ counters'.validation = counters.validation
      /\ (counters.cleanup => counters'.cleanup)
  BY <1>3, <1>4 DEF CountersType
<1>6. StuckInv' /\ RetInv'
  BY <1>1, <1>5 DEF HonestInv, StuckInv, RetInv
<1> QED BY <1>1, <1>3, <1>5, <1>6, HonestFrame

LEMMA HonestOutRegions == IInv /\ HonestInv /\ OutRegions => HonestInv'
<1> SUFFICES ASSUME IInv, HonestInv, OutRegions PROVE HonestInv'
  OBVIOUS
<1>1. /\ pc = "out_regions" /\ pc' = "row" /\ profile \in {"n0", "e0"} /\ Same
      /\ UNCHANGED <<i, ret, profile>>
  BY DEF IInv, ShapeInv, Labels, OutRegions, Same, profile
<1>2. PICK left \in SUBSET regions :
         /\ counters' = [counters EXCEPT
               !.cleanup = @ \/ left # {},
               !.validation = @ \/ (profile = "e0" /\ ~ret)]
         /\ stuck' = (stuck \/ left # {})
  BY DEF OutRegions
<1>3. counters \in CountersType /\ ret \in BOOLEAN
  BY DEF HonestInv
<1> DEFINE b == counters.cleanup \/ left # {}
           v == counters.validation \/ (profile = "e0" /\ ~ret)
<1>4. b \in BOOLEAN /\ v \in BOOLEAN
      /\ counters' = [counters EXCEPT !.cleanup = b, !.validation = v]
  BY <1>2
<1>5. /\ counters.cleanup => b
      /\ counters.validation \/ (profile = "e0" /\ ~ret) => v
      /\ stuck' => stuck \/ b
  BY <1>2, Zenon
<1> HIDE DEF b, v
<1>6. /\ counters' \in CountersType /\ counters'.success = counters.success
      /\ counters'.cleanup = b /\ counters'.validation = v
  BY <1>3, <1>4 DEF CountersType
<1>7. StuckInv' /\ RetInv'
  BY <1>1, <1>5, <1>6 DEF HonestInv, StuckInv, RetInv
<1> QED BY <1>1, <1>3, <1>6, <1>7, HonestFrame

\* The counters of a row that passes tell that the round released everything and
\* that run_profile returned 0.
LEMMA PassTells ==
    ASSUME IInv, HonestInv, pc = "row", CountersPass
    PROVE  ~stuck /\ open = {} /\ ret
<1>1. counters.success = Events /\ ~counters.validation /\ ~counters.cleanup
  BY DEF CountersPass, HealthyCounters
<1>2. ~stuck
  BY <1>1 DEF HonestInv, StuckInv
<1>3. open = {}
  <2>1. ~ring.fd /\ ~ring.mapped /\ ~standard
    BY DEF IInv, ShapeInv, RingInv, MemoryInv
  <2>2. Believed = {}
    BY <2>1 DEF Believed
  <2> QED BY <1>2, <2>2 DEF IInv, AccountInv
<1>4. ret
  BY <1>1 DEF HonestInv, RetInv, Events
<1> QED BY <1>2, <1>3, <1>4

\* WriteRow, told by what it decides.
LEMMA RowOutcome ==
    ASSUME WriteRow
    PROVE  \E pass \in BOOLEAN, written \in BOOLEAN, ok \in BOOLEAN :
              /\ pass <=> CountersPass
              /\ ok <=> ret /\ pass /\ written
              /\ rows' = IF written THEN Append(rows, pass) ELSE rows
              /\ \/ /\ ok /\ round + 1 < Rounds
                    /\ pc' = "begin" /\ round' = round + 1 /\ exitOk' = exitOk
                 \/ /\ ~(ok /\ round + 1 < Rounds /\ ~stop_requested)
                    /\ pc' = "exited" /\ round' = round
                    /\ exitOk' \in BOOLEAN /\ (exitOk' => ok /\ ~stop_requested)
<1> DEFINE pass == CountersPass
<1>1. pass \in BOOLEAN
  BY DEF CountersPass
<1>2. pass <=> CountersPass
  OBVIOUS
<1>3. PICK written \in BOOLEAN :
         /\ rows' = IF written THEN Append(rows, CountersPass) ELSE rows
         /\ IF NextRound(ret /\ CountersPass /\ written)
              THEN pc' = "begin" /\ round' = round + 1 /\ UNCHANGED exitOk
              ELSE /\ pc' = "exited" /\ exitOk' = ExitStatus(ret /\ CountersPass /\ written)
                   /\ UNCHANGED round
  BY DEF WriteRow
<1> DEFINE ok == ret /\ pass /\ written
<1>4. ok \in BOOLEAN /\ (ok <=> ret /\ pass /\ written)
  OBVIOUS
<1>5. /\ rows' = IF written THEN Append(rows, pass) ELSE rows
      /\ IF NextRound(ok)
           THEN pc' = "begin" /\ round' = round + 1 /\ UNCHANGED exitOk
           ELSE pc' = "exited" /\ exitOk' = ExitStatus(ok) /\ UNCHANGED round
  BY <1>3
<1> HIDE DEF pass, ok
<1>6. CASE NextRound(ok)
  <2>1. ok /\ round + 1 < Rounds
    BY <1>6 DEF NextRound
  <2>2. pc' = "begin" /\ round' = round + 1 /\ exitOk' = exitOk
    BY <1>5, <1>6
  <2> QED BY <1>1, <1>2, <1>4, <1>5, <2>1, <2>2
<1>7. CASE ~NextRound(ok)
  <2>1. ~(ok /\ round + 1 < Rounds /\ ~stop_requested)
    BY <1>7 DEF NextRound
  <2>2. pc' = "exited" /\ exitOk' = ExitStatus(ok) /\ round' = round
    BY <1>5, <1>7
  <2>3. exitOk' \in BOOLEAN /\ (exitOk' => ok /\ ~stop_requested)
    BY <2>2, Zenon DEF ExitStatus
  <2> QED BY <1>1, <1>2, <1>4, <1>5, <2>1, <2>2, <2>3
<1> QED BY <1>6, <1>7

LEMMA HonestWriteRow == IInv /\ PagesInv /\ HonestInv /\ WriteRow => HonestInv'
<1> SUFFICES ASSUME IInv, PagesInv, HonestInv, WriteRow PROVE HonestInv'
  OBVIOUS
<1>1. pc = "row" /\ UNCHANGED <<i, counters, ret, stuck, profile, run>> /\ Rounds' = Rounds
  BY DEF WriteRow, histVars, profile, Rounds, mode
<1>2. PICK pass \in BOOLEAN, written \in BOOLEAN, ok \in BOOLEAN :
         /\ pass <=> CountersPass
         /\ ok <=> ret /\ pass /\ written
         /\ rows' = IF written THEN Append(rows, pass) ELSE rows
         /\ \/ /\ ok /\ round + 1 < Rounds
               /\ pc' = "begin" /\ round' = round + 1 /\ exitOk' = exitOk
            \/ /\ ~(ok /\ round + 1 < Rounds /\ ~stop_requested)
               /\ pc' = "exited" /\ round' = round
               /\ exitOk' \in BOOLEAN /\ (exitOk' => ok /\ ~stop_requested)
  BY RowOutcome
<1>3. /\ counters \in CountersType /\ ret \in BOOLEAN /\ exitOk = FALSE
      /\ StuckInv /\ RetInv
      /\ round < Rounds /\ rows \in Seq(BOOLEAN)
      /\ Len(rows) = round /\ \A r \in 1..Len(rows) : rows[r]
  BY <1>1 DEF HonestInv, RowsInv
<1>4. rows' \in Seq(BOOLEAN)
  <2>1. Append(rows, pass) \in Seq(BOOLEAN)
    BY <1>3
  <2> QED BY <1>2, <1>3, <2>1
<1>5. CASE ok /\ round + 1 < Rounds
           /\ pc' = "begin" /\ round' = round + 1 /\ exitOk' = exitOk
  <2>1. ~stuck
    BY <1>1, <1>2, <1>5, PassTells
  <2>2. rows' = Append(rows, TRUE)
    BY <1>2, <1>5
  <2>3. Len(rows') = round' /\ \A r \in 1..Len(rows') : rows'[r]
    BY <1>3, <1>5, <2>2
  <2>4. RowsInv'
    BY <1>1, <1>3, <1>4, <1>5, <2>3 DEF RowsInv
  <2>5. StuckInv' /\ RetInv'
    BY <1>1, <1>3, <1>5, <2>1 DEF StuckInv, RetInv
  <2> QED BY <1>1, <1>3, <1>5, <2>1, <2>4, <2>5 DEF HonestInv
<1>6. CASE /\ pc' = "exited" /\ round' = round /\ exitOk' \in BOOLEAN
  <2>1. RowsInv'
    BY <1>1, <1>3, <1>4, <1>6 DEF RowsInv
  <2>2. StuckInv' /\ RetInv'
    BY <1>1, <1>3, <1>6 DEF StuckInv, RetInv
  <2> QED BY <1>1, <1>3, <1>6, <2>1, <2>2 DEF HonestInv
<1> QED BY <1>2, <1>5, <1>6

LEMMA HonestInit == Init => HonestInv
<1> SUFFICES ASSUME Init PROVE HonestInv
  OBVIOUS
<1>1. Rounds \in Nat \ {0}
  BY MemmapAssumption DEF Rounds
<1>2. RowsInv
  BY <1>1 DEF Init, RowsInv
<1>3. counters \in CountersType /\ counters.success = 0
  <2> DEFINE b == profile # "n0"
  <2>1. counters = [success |-> 0, setup |-> 0, close |-> 0, mmap |-> 0, munmap |-> 0,
                    nop |-> 0, validation |-> FALSE, cleanup |-> FALSE,
                    unhealthy |-> FALSE, addr_ok |-> b]
    BY DEF Init, ZeroCounters
  <2>2. b \in BOOLEAN
    OBVIOUS
  <2> HIDE DEF b
  <2> QED BY <2>1, <2>2 DEF CountersType
<1> QED BY <1>2, <1>3 DEF Init, HonestInv, StuckInv, RetInv

LEMMA HonestStep == IInv /\ PagesInv /\ HonestInv /\ [Next]_vars => HonestInv'
<1> SUFFICES ASSUME IInv, PagesInv, HonestInv, [Next]_vars PROVE HonestInv'
  OBVIOUS
<1>1. CASE Start \/ Begin
  BY <1>1, HonestStart
<1>2. CASE SetupStandard
  BY <1>2, HonestSetupStandard
<1>3. CASE SetupUser \/ SubmitNop \/ CheckHealth
  BY <1>3, HonestOnTheWay
<1>4. CASE MapRing
  BY <1>4, HonestMapRing
<1>5. CASE UnmapRing
  BY <1>5, HonestUnmapRing
<1>6. CASE CloseEvent
  BY <1>6, HonestCloseEvent
<1>7. CASE OutR0 \/ FailClose \/ OutUser
  BY <1>7, HonestWayOut
<1>8. CASE FailRound
  BY <1>8, HonestFailRound
<1>9. CASE Loop
  BY <1>9, HonestLoop
<1>10. CASE AnonEvent
  BY <1>10, HonestAnonEvent
<1>11. CASE Regions \/ BadMap
  BY <1>11, HonestMemory
<1>12. CASE OutStandard
  BY <1>12, HonestOutStandard
<1>13. CASE OutRegions
  BY <1>13, HonestOutRegions
<1>14. CASE WriteRow
  BY <1>14, HonestWriteRow
<1>15. CASE Signal \/ KernelReleases \/ UNCHANGED vars
  <2>1. UNCHANGED <<run, pc, round, i, counters, ret, rows, exitOk, stuck>>
    BY <1>15 DEF Signal, KernelReleases, vars, progVars, histVars
  <2>2. UNCHANGED <<profile, Rounds>>
    BY <2>1 DEF profile, Rounds, mode
  <2> QED BY <2>1, <2>2 DEF HonestInv, StuckInv, RetInv, RowsInv
<1> QED
  BY <1>1, <1>2, <1>3, <1>4, <1>5, <1>6, <1>7, <1>8, <1>9, <1>10, <1>11, <1>12, <1>13,
     <1>14, <1>15 DEF Next, Program, Exited

\* No step but WriteRow writes a row or decides on the exit status.
LEMMA OnlyWriteRow == [Next]_vars => WriteRow \/ UNCHANGED <<rows, exitOk>>
<1> SUFFICES ASSUME [Next]_vars PROVE WriteRow \/ UNCHANGED <<rows, exitOk>>
  OBVIOUS
<1>1. CASE Program
  BY <1>1 DEF Program, Start, Begin, SetupStandard, SetupUser, MapRing, UnmapRing, SubmitNop,
     CheckHealth, CloseEvent, OutR0, FailClose, OutUser, CloseOut, CloseRing, FailRound, Loop,
     AnonEvent, Regions, BadMap, OutStandard, OutRegions, Same
<1>2. CASE Signal \/ KernelReleases \/ UNCHANGED vars
  BY <1>2 DEF Signal, KernelReleases, vars, progVars
<1> QED BY <1>1, <1>2 DEF Next, Exited

\* The step property of ExitHonest.
HonestRow ==
    /\ Len(rows') > Len(rows) =>
          /\ \A r \in 1..Len(rows) : rows[r]
          /\ rows'[Len(rows')] => open = {} /\ ret
    /\ exitOk' # exitOk =>
          Len(rows') = Rounds /\ \A r \in 1..Len(rows') : rows'[r]

LEMMA RowHonest == IInv /\ PagesInv /\ HonestInv /\ [Next]_vars => HonestRow
<1> SUFFICES ASSUME IInv, PagesInv, HonestInv, [Next]_vars PROVE HonestRow
  OBVIOUS
<1>1. CASE UNCHANGED <<rows, exitOk>>
  <2>1. Len(rows) \in Nat
    BY DEF HonestInv, RowsInv
  <2>2. ~(Len(rows') > Len(rows))
    BY <1>1, <2>1
  <2> QED BY <1>1, <2>2 DEF HonestRow
<1>2. CASE WriteRow
  <2>1. PICK pass \in BOOLEAN, written \in BOOLEAN, ok \in BOOLEAN :
           /\ pass <=> CountersPass
           /\ ok <=> ret /\ pass /\ written
           /\ rows' = IF written THEN Append(rows, pass) ELSE rows
           /\ \/ /\ ok /\ round + 1 < Rounds
                 /\ pc' = "begin" /\ round' = round + 1 /\ exitOk' = exitOk
              \/ /\ ~(ok /\ round + 1 < Rounds /\ ~stop_requested)
                 /\ pc' = "exited" /\ round' = round
                 /\ exitOk' \in BOOLEAN /\ (exitOk' => ok /\ ~stop_requested)
    BY <1>2, RowOutcome
  <2>2. /\ pc = "row" /\ exitOk = FALSE /\ round \in Nat
        /\ round < Rounds /\ rows \in Seq(BOOLEAN)
        /\ Len(rows) = round /\ \A r \in 1..Len(rows) : rows[r]
    BY <1>2 DEF WriteRow, HonestInv, RowsInv, PagesInv
  <2>3. ASSUME Len(rows') > Len(rows), rows'[Len(rows')] PROVE open = {} /\ ret
    <3>1. rows' = Append(rows, pass)
      BY <2>1, <2>2, <2>3
    <3>2. pass
      BY <2>2, <2>3, <3>1
    <3> QED BY <2>1, <2>2, <3>2, PassTells
  <2>4. ASSUME exitOk' # exitOk
        PROVE  Len(rows') = Rounds /\ \A r \in 1..Len(rows') : rows'[r]
    <3>1. ok /\ ~(round + 1 < Rounds)
      BY <2>1, <2>2, <2>4
    <3>2. Rounds \in Nat
      BY MemmapAssumption DEF Rounds
    <3>3. round + 1 = Rounds
      BY <2>2, <3>1, <3>2
    <3>4. rows' = Append(rows, TRUE)
      BY <2>1, <3>1
    <3> QED BY <2>2, <3>3, <3>4
  <2> QED BY <2>2, <2>3, <2>4 DEF HonestRow
<1> QED BY <1>1, <1>2, OnlyWriteRow

\* Whatever fails and whenever a signal arrives: no row follows a failed one, a
\* row passes only if its round left nothing open and run_profile returned 0, and
\* main exits with success only if every round has a row that passed.
THEOREM ExitsHonestly == Spec => ExitHonest
<1>1. Init => PagesInv
  BY DEF Init, PagesInv, ClosedRing
<1>2. IInv /\ PagesInv /\ HonestInv /\ [Next]_vars => [HonestRow]_vars
  BY RowHonest
<1>3. ExitHonest <=> [][HonestRow]_vars
  BY DEF ExitHonest, HonestRow
<1> QED BY <1>1, <1>2, <1>3, HonestInit, HonestStep, PagesStep, Invariant, PTL DEF Spec

=============================================================================
