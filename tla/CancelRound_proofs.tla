------------------------- MODULE CancelRound_proofs -------------------------
(***************************************************************************)
(* For any number of polls, batches, rounds and kernel faults: no batch    *)
(* begins with a request of another one armed (StartsClean), and what a    *)
(* row says was reaped was (RowSound), for every profile but a0_miss also  *)
(* that the polls were pending.                                            *)
(***************************************************************************)
EXTENDS CancelRound, FiniteSetTheorems, TLAPS

Waiting == {"sleep", "sample", "resleep", "resample"}
Awaited == Waiting \cup {"validate"}
Live == {"round", "prove", "cancel", "cleanup", "judge", "write", "next"} \cup Awaited

TypesInv ==
    /\ profile \in AllProfiles /\ stage \in {"timed", "cleanup"}
    /\ pc \in Live \cup {"failed", "destroy", "exited"}
    /\ stop_requested \in BOOLEAN /\ trulyPending \in BOOLEAN
    /\ "errors" \in DOMAIN result /\ (profile # "p0_prep" => result.errors \in Nat)

\* How far the round is, and what each profile comes past.
PlaceInv ==
    /\ round \in Nat /\ round < WARMUP_ROUNDS + MEASURED_ROUNDS
    /\ pc = "next" => round + 1 < WARMUP_ROUNDS + MEASURED_ROUNDS
    /\ batch \in 0..BATCHES /\ (profile = "p0_prep" => batch = 0)
    /\ pc \in Awaited \cup {"prove", "cancel", "cleanup"} => batch < BATCHES
    /\ pc = "judge" /\ profile # "p0_prep" => batch = BATCHES \/ stop_requested
    /\ pc = "write" /\ profile # "p0_prep" => batch = BATCHES /\ result.errors = 0
    /\ pc \in {"prove", "cancel"} => profile # "p0_prep" /\ stage = "timed"
    /\ pc = "cleanup" => profile \in {"a0_miss", "f0_fd_all"}
    /\ stage = "cleanup" => profile \in {"a0_miss", "f0_fd_all"}

\* The polls of a batch that are armed once its timed region is over.
Spared ==
    CASE profile = "a0_miss" -> Polls
      [] profile = "f0_fd_all" -> Decoys
      [] OTHER -> {}

ArmedInv ==
    /\ pc \in {"prove", "cancel"} => armed \subseteq Polls \cup Decoys
    /\ pc = "cleanup" \/ (pc \in Awaited /\ stage = "timed") => armed \subseteq Spared
    /\ pc \in Awaited /\ stage = "cleanup" => armed = {}
    /\ pc \in {"round", "judge", "write", "next"} => armed = {}

\* The completions of this round that have been validated.
TimedDone == pc = "cleanup" \/ (pc \in Awaited /\ stage = "cleanup")
TimedKind(c) == c[1][1] \notin {"decoy", "cleanup"}
Upto(b, half) ==
    {c \in WantedOfRound : c[1][3] < b \/ (half /\ c[1][3] = b /\ TimedKind(c))}
Done == Upto(batch, TimedDone)

Relevant(S) == {c \in S : ~OfCleanupTarget(c[1])}

ReapInv ==
    profile # "p0_prep" /\ result.errors = 0 =>
        /\ pc \in Live \ {"validate", "next"} =>
              /\ Relevant(reaped) = Done
              /\ \A t \in again : OfCleanupTarget(t)
        /\ pc = "validate" =>
              /\ Relevant(reaped) = Done \cup Relevant(DOMAIN copy)
              /\ \A t \in again :
                    \/ OfCleanupTarget(t)
                    \/ /\ \E d \in DOMAIN copy : d[1] = t
                       /\ \/ HowMany(copy, With(copy, {t})) > 1
                          \/ \E e \in Done : e[1] = t

PairInv == \A c \in posting \cup DOMAIN cq \cup DOMAIN copy : c = <<c[1], c[2]>>

\* The kinds of request the batch has submitted.
Issued ==
    CASE pc \in {"prove", "cancel"} -> {"poll", "decoy"}
      [] pc = "cleanup" \/ (pc \in Awaited /\ stage = "timed") ->
            {"poll", "decoy", "cancel", "bulk"}
      [] pc \in Awaited /\ stage = "cleanup" ->
            {"poll", "decoy", "cancel", "bulk", "cleanup"}
      [] OTHER -> {}

\* No completion is under way for a request that is still to come.
Past(t) ==
    /\ t[2] \in Nat /\ t[3] \in Nat
    /\ \/ t[2] < round
       \/ t[2] = round /\ t[3] < batch
       \/ t[2] = round /\ t[3] = batch /\ t[1] \in Issued
PastInv ==
    pc \in Live /\ profile # "p0_prep" => \A c \in posting \cup DOMAIN cq : Past(c[1])

\* The completion of t that the validation waits for will not come.
Missing(t, res) ==
    <<t, res>> \notin posting \cup DOMAIN cq \cup (IF pc = "validate" THEN DOMAIN copy ELSE {})

\* A batch whose polls were not all pending will not be validated.
PendingInv ==
    profile \notin {"a0_miss", "p0_prep"} /\ ~trulyPending =>
        /\ pc \notin {"round", "prove", "cancel", "judge", "write"}
        /\ pc \in Awaited => profile # "s0_sync"
        /\ pc \in Awaited /\ profile = "a0_hit" =>
              \E t \in Tags("cancel", PENDING) : Missing(t, "0")
        /\ pc \in Awaited /\ stage = "timed" /\ profile = "f0_fd_all" =>
              Missing(make_tag("bulk", round, batch, 0), "all") \/ ~(Decoys \subseteq armed)
        /\ pc = "cleanup" => ~(Decoys \subseteq armed)
        /\ pc \in Awaited /\ stage = "cleanup" =>
              \E t \in Tags("cleanup", DECOYS) : Missing(t, "0")

\* The inductive invariant.
IInv == TypesInv /\ PlaceInv /\ ArmedInv /\ ReapInv /\ PairInv /\ PastInv /\ PendingInv

-----------------------------------------------------------------------------
(* What is wanted                                                          *)

\* The completions of the n requests of a kind in batch b of this round.
Want(kind, n, b, res) == {<< <<kind, round, b, i>>, res >> : i \in 0..n-1}

LEMMA PlainTag ==
    ASSUME PlaceInv, NEW kind, NEW b \in 0..BATCHES-1, NEW i
    PROVE  make_tag(kind, round, b, i) = <<kind, round, b, i>>
<1>1. round % ROUND_TAGS = round
  BY CancelAssumption DEF PlaceInv
<1>2. b % BATCH_TAGS = b
  BY CancelAssumption
<1> QED BY <1>1, <1>2 DEF make_tag

LEMMA WantOfBatch ==
    ASSUME PlaceInv, batch < BATCHES, NEW kind, NEW n, NEW res
    PROVE  As(Tags(kind, n), res) = Want(kind, n, batch, res)
<1>1. batch \in 0..BATCHES-1
  BY CancelAssumption DEF PlaceInv
<1>2. \A i : make_tag(kind, round, batch, i) = <<kind, round, batch, i>>
  BY <1>1, PlainTag
<1>3. Tags(kind, n) = {<<kind, round, batch, i>> : i \in 0..n-1}
  BY <1>2 DEF Tags
<1> QED BY <1>3 DEF As, Want

LEMMA WantOfRound ==
    ASSUME PlaceInv, NEW kind, NEW n, NEW res
    PROVE  As(RoundTags(kind, n), res) = UNION {Want(kind, n, b, res) : b \in 0..BATCHES-1}
<1>1. \A b \in 0..BATCHES-1 : \A i : make_tag(kind, round, b, i) = <<kind, round, b, i>>
  BY PlainTag
<1>2. RoundTags(kind, n) = {<<kind, round, b, i>> : b \in 0..BATCHES-1, i \in 0..n-1}
  BY <1>1 DEF RoundTags
<1> QED BY <1>2 DEF As, Want

\* What a batch has to reap in its timed region, and in cleanup_decoys.
TimedPart(b) ==
    CASE profile = "a0_hit"  -> Want("poll", PENDING, b, "ECANCELED")
                                \cup Want("cancel", PENDING, b, "0")
      [] profile = "a0_miss" -> Want("cancel", PENDING, b, "ENOENT")
      [] profile = "f0_fd_all" -> Want("poll", PENDING, b, "ECANCELED")
                                  \cup Want("bulk", 1, b, "all")
      [] profile = "s0_sync" -> Want("poll", 1, b, "ECANCELED")
      [] OTHER -> {}
DecoyPart(b) ==
    IF profile = "f0_fd_all"
      THEN Want("decoy", DECOYS, b, "ECANCELED") \cup Want("cleanup", DECOYS, b, "0")
      ELSE {}

LEMMA RoundParts ==
    ASSUME PlaceInv
    PROVE  WantedOfRound = UNION {TimedPart(b) \cup DecoyPart(b) : b \in 0..BATCHES-1}
<1>1. CASE profile = "a0_hit"
  BY <1>1, WantOfRound DEF WantedOfRound, TimedPart, DecoyPart
<1>2. CASE profile = "a0_miss"
  BY <1>2, WantOfRound DEF WantedOfRound, TimedPart, DecoyPart
<1>3. CASE profile = "f0_fd_all"
  BY <1>3, WantOfRound DEF WantedOfRound, TimedPart, DecoyPart
<1>4. CASE profile = "s0_sync"
  BY <1>4, WantOfRound DEF WantedOfRound, TimedPart, DecoyPart
<1>5. CASE profile \notin {"a0_hit", "a0_miss", "f0_fd_all", "s0_sync"}
  BY <1>5 DEF WantedOfRound, TimedPart, DecoyPart
<1> QED BY <1>1, <1>2, <1>3, <1>4, <1>5

LEMMA PartShape ==
    ASSUME NEW b
    PROVE  /\ \A c \in TimedPart(b) : c[1][3] = b /\ TimedKind(c) /\ ~OfCleanupTarget(c[1])
           /\ \A c \in DecoyPart(b) : c[1][3] = b /\ ~TimedKind(c) /\ ~OfCleanupTarget(c[1])
  BY DEF TimedPart, DecoyPart, Want, TimedKind, OfCleanupTarget

\* How the validated part of the round grows.
LEMMA UptoGrows ==
    ASSUME PlaceInv
    PROVE  /\ Upto(0, FALSE) = {}
           /\ Upto(BATCHES, FALSE) = WantedOfRound
           /\ \A b \in 0..BATCHES-1 :
                 /\ Upto(b, TRUE) = Upto(b, FALSE) \cup TimedPart(b)
                 /\ Upto(b + 1, FALSE) = Upto(b, TRUE) \cup DecoyPart(b)
                 /\ \A c \in Upto(b, FALSE) : c[1][3] < b
<1>1. \A c \in WantedOfRound : c[1][3] \in 0..BATCHES-1
  BY RoundParts, PartShape
<1>2. Upto(0, FALSE) = {}
  BY <1>1 DEF Upto
<1>3. Upto(BATCHES, FALSE) = WantedOfRound
  BY <1>1, CancelAssumption DEF Upto
<1>4. ASSUME NEW b \in 0..BATCHES-1
      PROVE  /\ Upto(b, TRUE) = Upto(b, FALSE) \cup TimedPart(b)
             /\ Upto(b + 1, FALSE) = Upto(b, TRUE) \cup DecoyPart(b)
             /\ \A c \in Upto(b, FALSE) : c[1][3] < b
  <2>1. {c \in WantedOfRound : c[1][3] = b} = TimedPart(b) \cup DecoyPart(b)
    BY RoundParts, PartShape
  <2>2. {c \in WantedOfRound : c[1][3] = b /\ TimedKind(c)} = TimedPart(b)
    BY <2>1, PartShape
  <2>3. \A c \in WantedOfRound : c[1][3] < b + 1 <=> c[1][3] < b \/ c[1][3] = b
    BY <1>1
  <2>4. Upto(b, TRUE) = Upto(b, FALSE) \cup TimedPart(b)
    BY <2>2 DEF Upto
  <2>5. Upto(b + 1, FALSE) = Upto(b, TRUE) \cup DecoyPart(b)
    <3>1. Upto(b + 1, FALSE) = {c \in WantedOfRound : c[1][3] < b \/ c[1][3] = b}
      BY <2>3 DEF Upto
    <3> QED BY <2>1, <2>4, <3>1 DEF Upto
  <2> QED BY <2>4, <2>5 DEF Upto
<1> QED BY <1>2, <1>3, <1>4

-----------------------------------------------------------------------------
(* Validation                                                              *)

\* What the copy is if it is what was wanted.
Image(want) == {<<t, want[t]>> : t \in DOMAIN want}

LEMMA ExactlyImage ==
    ASSUME PairInv, NEW want, Exactly(want)
    PROVE  /\ DOMAIN copy = Image(want)
           /\ \A t \in DOMAIN want : ~(HowMany(copy, With(copy, {t})) > 1)
<1>1. ASSUME NEW c \in DOMAIN copy PROVE c \in Image(want)
  <2>1. c[1] \in DOMAIN want /\ c[2] = want[c[1]]
    BY DEF Exactly, Unexpected, BadResults
  <2>2. c = <<c[1], c[2]>>
    BY DEF PairInv
  <2> QED BY <2>1, <2>2 DEF Image
<1>2. ASSUME NEW t \in DOMAIN want PROVE <<t, want[t]>> \in DOMAIN copy
  <2>1. PICK c \in DOMAIN copy : c[1] = t
    BY DEF Exactly, NotSeen, With
  <2>2. c[2] = want[t] /\ c = <<c[1], c[2]>>
    BY <2>1 DEF Exactly, Unexpected, BadResults, PairInv
  <2> QED BY <2>1, <2>2
<1>3. \A t \in DOMAIN want : ~(HowMany(copy, With(copy, {t})) > 1)
  BY DEF Exactly, Duplicates
<1> QED BY <1>1, <1>2, <1>3 DEF Image

LEMMA BothImage ==
    ASSUME NEW S, NEW T, NEW x, NEW y, S \cap T = {}
    PROVE  Image(Both(Wants(S, x), Wants(T, y))) = As(S, x) \cup As(T, y)
  BY DEF Image, Both, Wants, As

LEMMA WantsImage == \A S, x : Image(Wants(S, x)) = As(S, x)
  BY DEF Image, Wants, As

LEMMA KindsApart ==
    ASSUME NEW k, NEW l, k # l, NEW m, NEW n
    PROVE  Tags(k, m) \cap Tags(l, n) = {}
  BY DEF Tags, make_tag

\* Each validation wants the part of the batch it is there for.
LEMMA ValidationWants ==
    ASSUME PlaceInv, batch < BATCHES
    PROVE  /\ profile \in {"a0_hit", "a0_miss"} => Image(KeyedWant) = TimedPart(batch)
           /\ profile = "f0_fd_all" => /\ Image(BulkWant) = TimedPart(batch)
                                       /\ Image(DecoyWant) = DecoyPart(batch)
           /\ profile = "s0_sync" => Image(Wants(Polls, "ECANCELED")) = TimedPart(batch)
<1>1. CASE profile = "a0_hit"
  <2>1. Polls = Tags("poll", PENDING)
    BY <1>1 DEF Polls
  <2>2. Image(KeyedWant) = As(Polls, "ECANCELED") \cup As(Tags("cancel", PENDING), "0")
    BY <1>1, <2>1, KindsApart, BothImage DEF KeyedWant
  <2> QED BY <1>1, <2>1, <2>2, WantOfBatch DEF TimedPart
<1>2. CASE profile = "a0_miss"
  BY <1>2, WantsImage, WantOfBatch DEF KeyedWant, TimedPart
<1>3. CASE profile = "f0_fd_all"
  <2>1. Polls = Tags("poll", PENDING) /\ Decoys = Tags("decoy", DECOYS)
    BY <1>3 DEF Polls, Decoys
  <2>2. {make_tag("bulk", round, batch, 0)} = Tags("bulk", 1)
    BY DEF Tags
  <2>3. Image(BulkWant) = As(Polls, "ECANCELED") \cup As(Tags("bulk", 1), "all")
    BY <1>3, <2>1, <2>2, KindsApart, BothImage DEF BulkWant
  <2>4. Image(DecoyWant) = As(Decoys, "ECANCELED") \cup As(Tags("cleanup", DECOYS), "0")
    BY <1>3, <2>1, KindsApart, BothImage DEF DecoyWant
  <2> QED BY <1>3, <2>1, <2>3, <2>4, WantOfBatch DEF TimedPart, DecoyPart
<1>4. CASE profile = "s0_sync"
  <2>1. Polls = Tags("poll", 1)
    BY <1>4 DEF Polls
  <2> QED BY <1>4, <2>1, WantsImage, WantOfBatch DEF TimedPart
<1> QED BY <1>1, <1>2, <1>3, <1>4

\* An exact copy finishes the part of the batch that was wanted.
LEMMA CopyPasses ==
    ASSUME IInv, pc = "validate", profile # "p0_prep", result.errors = 0,
           NEW want, Exactly(want),
           \A c \in Image(want) : ~OfCleanupTarget(c[1]),
           \A c \in Image(want), e \in Done : e[1] # c[1]
    PROVE  /\ Relevant(reaped) = Done \cup Image(want)
           /\ \A t \in again : OfCleanupTarget(t)
<1>1. /\ DOMAIN copy = Image(want)
      /\ \A t \in DOMAIN want : ~(HowMany(copy, With(copy, {t})) > 1)
  BY ExactlyImage DEF IInv
<1>2. /\ Relevant(reaped) = Done \cup Relevant(DOMAIN copy)
      /\ \A t \in again :
            \/ OfCleanupTarget(t)
            \/ /\ \E d \in DOMAIN copy : d[1] = t
               /\ \/ HowMany(copy, With(copy, {t})) > 1
                  \/ \E e \in Done : e[1] = t
  BY DEF IInv, ReapInv
<1>3. Relevant(DOMAIN copy) = Image(want)
  BY <1>1 DEF Relevant
<1>4. ASSUME NEW t \in again PROVE OfCleanupTarget(t)
  <2> SUFFICES ASSUME ~OfCleanupTarget(t) PROVE FALSE
    OBVIOUS
  <2>1. PICK d \in Image(want) : d[1] = t
    BY <1>1, <1>2
  <2>2. t \in DOMAIN want
    BY <2>1 DEF Image
  <2> QED BY <1>1, <1>2, <2>1, <2>2
<1> QED BY <1>2, <1>3, <1>4

LEMMA TimedPasses ==
    ASSUME IInv, pc = "validate", stage = "timed", profile # "p0_prep", result.errors = 0,
           NEW want, Exactly(want), Image(want) = TimedPart(batch)
    PROVE  /\ Relevant(reaped) = Upto(batch, TRUE)
           /\ \A t \in again : OfCleanupTarget(t)
<1>1. batch \in 0..BATCHES-1 /\ PlaceInv
  BY CancelAssumption DEF IInv, PlaceInv, Awaited
<1>2. Done = Upto(batch, FALSE)
  BY DEF Done, TimedDone
<1>3. /\ Upto(batch, TRUE) = Upto(batch, FALSE) \cup TimedPart(batch)
      /\ \A c \in Upto(batch, FALSE) : c[1][3] < batch
  BY <1>1, UptoGrows
<1>4. \A c \in Image(want), e \in Done : e[1] # c[1]
  <2> SUFFICES ASSUME NEW c \in Image(want), NEW e \in Done, e[1] = c[1] PROVE FALSE
    OBVIOUS
  <2>1. c[1][3] = batch
    BY PartShape
  <2>2. e[1][3] < batch
    BY <1>2, <1>3
  <2> QED BY <1>1, <2>1, <2>2
<1>5. \A c \in Image(want) : ~OfCleanupTarget(c[1])
  BY PartShape
<1> QED BY <1>2, <1>3, <1>4, <1>5, CopyPasses

LEMMA DecoysPass ==
    ASSUME IInv, pc = "validate", stage = "cleanup", profile = "f0_fd_all", result.errors = 0,
           Exactly(DecoyWant)
    PROVE  /\ Relevant(reaped) = Upto(batch + 1, FALSE)
           /\ \A t \in again : OfCleanupTarget(t)
<1>1. batch \in 0..BATCHES-1 /\ batch < BATCHES /\ PlaceInv
  BY CancelAssumption DEF IInv, PlaceInv, Awaited
<1>2. Done = Upto(batch, TRUE)
  BY DEF Done, TimedDone, Awaited
<1>3. /\ Upto(batch + 1, FALSE) = Upto(batch, TRUE) \cup DecoyPart(batch)
      /\ Upto(batch, TRUE) = Upto(batch, FALSE) \cup TimedPart(batch)
      /\ \A c \in Upto(batch, FALSE) : c[1][3] < batch
  BY <1>1, UptoGrows
<1>4. Image(DecoyWant) = DecoyPart(batch)
  BY <1>1, ValidationWants
<1>5. \A c \in Image(DecoyWant), e \in Done : e[1] # c[1]
  <2> SUFFICES ASSUME NEW c \in Image(DecoyWant), NEW e \in Done, e[1] = c[1] PROVE FALSE
    OBVIOUS
  <2>1. c[1][3] = batch /\ ~TimedKind(c)
    BY <1>4, PartShape
  <2>2. CASE e \in Upto(batch, FALSE)
    <3>1. e[1][3] < batch
      BY <1>3, <2>2
    <3> QED BY <1>1, <2>1, <3>1
  <2>3. CASE e \in TimedPart(batch)
    <3>1. TimedKind(e)
      BY <2>3, PartShape
    <3> QED BY <2>1, <3>1 DEF TimedKind
  <2> QED BY <1>2, <1>3, <2>2, <2>3
<1>6. \A c \in Image(DecoyWant) : ~OfCleanupTarget(c[1])
  BY <1>4, PartShape
<1> QED BY <1>2, <1>3, <1>4, <1>5, <1>6, CopyPasses

-----------------------------------------------------------------------------
(* What a step has to show                                                 *)

LEMMA SameWanted ==
    ASSUME UNCHANGED <<run, round>>
    PROVE  /\ WantedOfRound' = WantedOfRound
           /\ Done' = Upto(batch', TimedDone')
           /\ \A S : {c \in S : ~OfCleanupTarget(c[1])'} = Relevant(S)
           /\ Relevant(reaped)' = Relevant(reaped')
<1>1. profile' = profile
  BY DEF profile
<1>2. WantedOfRound' = WantedOfRound
  BY <1>1 DEF WantedOfRound, As, RoundTags, make_tag
<1>3. Done' = Upto(batch', TimedDone')
  BY <1>2 DEF Done, Upto, TimedKind
<1> QED BY <1>1, <1>2, <1>3 DEF Relevant, OfCleanupTarget

\* A step that ends in none of the validations.
LEMMA ReapFrom ==
    ASSUME UNCHANGED <<run, round>>, pc' # "validate",
           pc' \in Live \ {"next"} /\ profile # "p0_prep" /\ result'.errors = 0 =>
              /\ Relevant(reaped') = Upto(batch', TimedDone')
              /\ \A t \in again' : OfCleanupTarget(t)
    PROVE  ReapInv'
<1>1. profile' = profile /\ \A t : OfCleanupTarget(t)' <=> OfCleanupTarget(t)
  BY DEF profile, OfCleanupTarget
<1> QED BY <1>1, SameWanted DEF ReapInv, Live

\* A step that takes nothing from the CQ.
LEMMA ReapKept ==
    ASSUME ReapInv, UNCHANGED <<run, round, batch, reaped, again>>,
           pc # "validate", pc' # "validate",
           pc' \in Live \ {"next"} => pc \in Live \ {"next"} /\ TimedDone' = TimedDone,
           result'.errors = 0 => result.errors = 0
    PROVE  ReapInv'
<1>1. pc' \in Live \ {"next"} /\ profile # "p0_prep" /\ result'.errors = 0 =>
         /\ Relevant(reaped') = Upto(batch', TimedDone')
         /\ \A t \in again' : OfCleanupTarget(t)
  BY DEF ReapInv, Done
<1> QED BY <1>1, ReapFrom

LEMMA ReapSame ==
    ASSUME ReapInv, UNCHANGED <<run, round, batch, pc, stage, reaped, again, copy, result>>
    PROVE  ReapInv'
<1>1. TimedDone' = TimedDone /\ profile' = profile
  BY DEF TimedDone, profile
<1>2. Done' = Done /\ Relevant(reaped)' = Relevant(reaped)
      /\ Relevant(DOMAIN copy)' = Relevant(DOMAIN copy)
      /\ (\A t : OfCleanupTarget(t)' <=> OfCleanupTarget(t))
  BY <1>1, SameWanted DEF Done, Relevant, OfCleanupTarget
<1> QED BY <1>1, <1>2 DEF ReapInv, HowMany, With

LEMMA SameTags ==
    ASSUME UNCHANGED <<run, round, batch>>
    PROVE  /\ profile' = profile /\ Polls' = Polls /\ Decoys' = Decoys /\ Spared' = Spared
           /\ \A k, n : Tags(k, n)' = Tags(k, n)
           /\ \A k, b, i : make_tag(k, round, b, i)' = make_tag(k, round, b, i)
<1>1. profile' = profile
  BY DEF profile
<1>2. \A k, n : Tags(k, n)' = Tags(k, n)
  BY DEF Tags, make_tag
<1>3. Polls' = Polls /\ Decoys' = Decoys
  BY <1>1, <1>2 DEF Polls, Decoys
<1>4. \A k, b, i : make_tag(k, round, b, i)' = make_tag(k, round, b, i)
  BY DEF make_tag
<1> QED BY <1>1, <1>2, <1>3, <1>4 DEF Spared

\* A step of the process that leaves kernel, copy and history alone.
LEMMA QuietKeeps ==
    ASSUME IInv,
           UNCHANGED <<run, round, batch, stage, armed, posting, cq, copy, reaped, again,
                       trulyPending>>,
           TypesInv', PlaceInv', result'.errors = result.errors,
           \/ pc' = "failed"
           \/ pc \in Waiting /\ pc' \in Waiting
           \/ <<pc, pc'>> \in {<<"prove", "cancel">>, <<"round", "judge">>, <<"judge", "next">>,
                               <<"judge", "write">>, <<"write", "next">>, <<"write", "destroy">>}
    PROVE  IInv'
<1>1. ArmedInv'
  BY SameTags DEF IInv, ArmedInv, Awaited, Waiting
<1>2. ReapInv'
  <2>1. CASE pc' = "failed"
    BY <2>1, ReapFrom DEF Live, Awaited, Waiting
  <2>2. CASE pc' # "failed"
    <3>1. pc # "validate" /\ pc' # "validate"
      BY <2>2 DEF Waiting
    <3>2. pc' \in Live \ {"next"} => pc \in Live \ {"next"} /\ TimedDone' = TimedDone
      BY <2>2 DEF Live, Awaited, Waiting, TimedDone
    <3> QED BY <3>1, <3>2, ReapKept DEF IInv
  <2> QED BY <2>1, <2>2
<1>3. PairInv'
  BY DEF IInv, PairInv
<1>4. PastInv'
  <2>1. CASE pc' = "failed"
    BY <2>1 DEF PastInv, Live, Awaited, Waiting
  <2>2. CASE pc' # "failed"
    <3>1. pc \in Live /\ Issued \subseteq Issued' /\ profile' = profile
      BY <2>2, SameTags DEF Live, Awaited, Waiting, Issued
    <3> QED BY <3>1 DEF IInv, PastInv, Past
  <2> QED BY <2>1, <2>2
<1>5. PendingInv'
  <2>1. CASE pc' = "failed"
    BY <2>1 DEF PendingInv, Awaited, Waiting
  <2>2. CASE pc \in Waiting /\ pc' \in Waiting
    <3>1. \A t, res : Missing(t, res) => Missing(t, res)'
      BY <2>2 DEF Missing, Waiting
    <3> QED BY <2>2, <3>1, SameTags DEF IInv, PendingInv, Awaited, Waiting
  <2>3. CASE <<pc, pc'>> \in {<<"prove", "cancel">>, <<"round", "judge">>, <<"judge", "next">>,
                              <<"judge", "write">>, <<"write", "next">>, <<"write", "destroy">>}
    BY <2>3, SameTags DEF IInv, PendingInv, Awaited, Waiting
  <2> QED BY <2>1, <2>2, <2>3
<1> QED BY <1>1, <1>2, <1>3, <1>4, <1>5 DEF IInv

\* An action that calls QuietKeeps.
LEMMA WaitsKeep == IInv /\ (SleepReturns \/ WaitAgain \/ ResleepReturns) => IInv'
<1> SUFFICES ASSUME IInv, SleepReturns \/ WaitAgain \/ ResleepReturns PROVE IInv'
  OBVIOUS
<1>1. /\ pc \in Waiting /\ pc' \in Waiting \cup {"failed"}
      /\ UNCHANGED <<run, round, batch, stage, armed, posting, cq, copy, reaped, again,
                     trulyPending, result, stop_requested>>
  BY DEF SleepReturns, WaitAgain, ResleepReturns, Waiting, kernVars, histVars
<1>2. TypesInv' /\ PlaceInv'
  BY <1>1 DEF IInv, TypesInv, PlaceInv, Live, Awaited, Waiting, profile
<1> QED BY <1>1, <1>2, QuietKeeps

LEMMA ProvePendingKeeps == IInv /\ ProvePending => IInv'
<1> SUFFICES ASSUME IInv, ProvePending PROVE IInv'
  OBVIOUS
<1>1. /\ pc = "prove" /\ pc' \in {"cancel", "failed"}
      /\ UNCHANGED <<run, round, batch, stage, armed, posting, cq, copy, reaped, again,
                     trulyPending, stop_requested>>
  BY DEF ProvePending, kernVars, histVars
<1>2. "errors" \in DOMAIN result' /\ result'.errors = result.errors
  BY DEF ProvePending, IInv, TypesInv
<1>3. TypesInv' /\ PlaceInv'
  BY <1>1, <1>2 DEF IInv, TypesInv, PlaceInv, Live, Awaited, Waiting, profile
<1> QED BY <1>1, <1>2, <1>3, QuietKeeps

LEMMA DiscardKeeps == IInv /\ Discard => IInv'
<1> SUFFICES ASSUME IInv, Discard PROVE IInv'
  OBVIOUS
<1>1. /\ pc' = "failed" /\ cq' = EmptyBag
      /\ UNCHANGED <<run, round, batch, stage, posting, copy, result, trulyPending,
                     stop_requested>>
  BY DEF Discard, histVars
<1>2. TypesInv' /\ PlaceInv'
  BY <1>1 DEF IInv, TypesInv, PlaceInv, Live, Awaited, Waiting, profile
<1>3. PairInv'
  BY <1>1 DEF IInv, PairInv, EmptyBag, SetToBag
<1> QED BY <1>1, <1>2, <1>3, ReapFrom
        DEF IInv, ArmedInv, PastInv, PendingInv, Live, Awaited, Waiting

LEMMA SubmitFailsKeeps == IInv /\ SubmitFails => IInv'
<1> SUFFICES ASSUME IInv, SubmitFails PROVE IInv'
  OBVIOUS
<1>1. /\ pc' = "failed"
      /\ UNCHANGED <<run, round, batch, stage, armed, posting, cq, copy, reaped, again,
                     trulyPending, result, stop_requested>>
  BY DEF SubmitFails, histVars
<1>2. TypesInv' /\ PlaceInv'
  BY <1>1 DEF IInv, TypesInv, PlaceInv, Live, Awaited, Waiting, profile
<1> QED BY <1>1, <1>2, QuietKeeps

LEMMA LoopEndsKeeps == IInv /\ LoopEnds => IInv'
<1> SUFFICES ASSUME IInv, LoopEnds PROVE IInv'
  OBVIOUS
<1>1. /\ pc = "round" /\ pc' = "judge" /\ (batch = BATCHES \/ stop_requested)
      /\ UNCHANGED <<run, round, batch, stage, armed, posting, cq, copy, reaped, again,
                     trulyPending, result, stop_requested>>
  BY DEF LoopEnds, kernVars, histVars
<1>2. TypesInv' /\ PlaceInv'
  BY <1>1 DEF IInv, TypesInv, PlaceInv, Live, Awaited, Waiting, profile
<1> QED BY <1>1, <1>2, QuietKeeps

LEMMA JudgeKeeps == IInv /\ Judge => IInv'
<1> SUFFICES ASSUME IInv, Judge PROVE IInv'
  OBVIOUS
<1>1. /\ pc = "judge"
      /\ UNCHANGED <<run, round, batch, stage, armed, posting, cq, copy, reaped, again,
                     trulyPending, result, stop_requested>>
  BY DEF Judge, kernVars, histVars
<1>2. \/ pc' = "failed"
      \/ semantic_pass /\ pc' = "next" /\ round < WARMUP_ROUNDS
      \/ semantic_pass /\ pc' = "write"
  BY DEF Judge
<1>3. semantic_pass => result.errors = 0 /\ (profile # "p0_prep" => ~stop_requested)
  BY DEF semantic_pass
<1>4. TypesInv'
  BY <1>1, <1>2 DEF IInv, TypesInv, Live, profile
<1>5. PlaceInv'
  BY <1>1, <1>2, <1>3, CancelAssumption DEF IInv, PlaceInv, Awaited, Waiting, profile
<1> QED BY <1>1, <1>2, <1>4, <1>5, QuietKeeps

LEMMA WriteKeeps == IInv /\ write_result => IInv'
<1> SUFFICES ASSUME IInv, write_result PROVE IInv'
  OBVIOUS
<1>1. /\ pc = "write"
      /\ \/ pc' = "destroy"
         \/ pc' = "next" /\ round # WARMUP_ROUNDS + MEASURED_ROUNDS - 1
      /\ UNCHANGED <<run, round, batch, stage, armed, posting, cq, copy, reaped, again,
                     trulyPending, result, stop_requested>>
  BY DEF write_result, kernVars, histVars
<1>2. TypesInv' /\ PlaceInv'
  BY <1>1, CancelAssumption DEF IInv, TypesInv, PlaceInv, Live, Awaited, Waiting, profile
<1> QED BY <1>1, <1>2, QuietKeeps

-----------------------------------------------------------------------------
(* The process                                                             *)

\* A run that failed or is over has only its shape left.
LEMMA OverKeeps ==
    ASSUME IInv, UNCHANGED <<run, round, batch, stage>>, pc' \in {"failed", "exited"},
           TypesInv', PairInv'
    PROVE  IInv'
<1>1. PlaceInv'
  BY DEF IInv, PlaceInv, Awaited, Waiting, profile
<1>2. ReapInv'
  BY ReapFrom DEF Live, Awaited, Waiting
<1>3. ArmedInv' /\ PastInv' /\ PendingInv'
  BY DEF ArmedInv, PastInv, PendingInv, Live, Awaited, Waiting
<1> QED BY <1>1, <1>2, <1>3 DEF IInv

LEMMA ExitKeeps == IInv /\ Exit => IInv'
<1> SUFFICES ASSUME IInv, Exit PROVE IInv'
  OBVIOUS
<1>1. /\ pc' = "exited" /\ posting' = {} /\ cq' = EmptyBag
      /\ UNCHANGED <<run, round, batch, stage, copy, result, stop_requested, trulyPending>>
  BY DEF Exit, histVars
<1>2. TypesInv'
  BY <1>1 DEF IInv, TypesInv, profile
<1>3. PairInv'
  BY <1>1 DEF IInv, PairInv, EmptyBag, SetToBag
<1> QED BY <1>1, <1>2, <1>3, OverKeeps

\* The requests of this batch, as the kernel sees them.
LEMMA TagOfBatch ==
    ASSUME PlaceInv, batch < BATCHES, NEW k, NEW n, NEW t \in Tags(k, n)
    PROVE  t[1] = k /\ t[2] = round /\ t[3] = batch /\ round \in Nat /\ batch \in Nat
<1>1. batch \in 0..BATCHES-1
  BY CancelAssumption DEF PlaceInv
<1>2. PICK i \in 0..n-1 : t = make_tag(k, round, batch, i)
  BY DEF Tags
<1>3. t = <<k, round, batch, i>>
  BY <1>1, <1>2, PlainTag
<1> QED BY <1>1, <1>3 DEF PlaceInv

LEMMA TargetsOfBatch ==
    ASSUME PlaceInv, batch < BATCHES, NEW t \in Polls \cup Decoys
    PROVE  t[1] \in {"poll", "decoy"} /\ t[2] = round /\ t[3] = batch
           /\ round \in Nat /\ batch \in Nat
  BY TagOfBatch DEF Polls, Decoys

LEMMA ArmKeeps == IInv /\ Arm => IInv'
<1> SUFFICES ASSUME IInv, Arm PROVE IInv'
  OBVIOUS
<1>1. /\ pc = "round" /\ pc' = "prove" /\ stage' = "timed" /\ profile # "p0_prep"
      /\ batch < BATCHES /\ armed' = armed \cup Polls \cup Decoys
      /\ UNCHANGED <<run, round, batch, stop_requested, result, posting, cq, copy, reaped,
                     again, trulyPending>>
  BY DEF Arm, histVars
<1>2. TypesInv' /\ PlaceInv'
  BY <1>1 DEF IInv, TypesInv, PlaceInv, Live, Awaited, Waiting, profile
<1>3. ArmedInv'
  BY <1>1, SameTags DEF IInv, ArmedInv, Awaited, Waiting
<1>4. ReapInv'
  <2>1. TimedDone' = TimedDone
    BY <1>1 DEF TimedDone, Awaited, Waiting
  <2> QED BY <1>1, <2>1, ReapKept DEF IInv, Live
<1>5. PairInv'
  BY <1>1 DEF IInv, PairInv
<1>6. PastInv'
  <2>1. Issued = {} /\ pc \in Live
    BY <1>1 DEF Issued, Live, Awaited, Waiting
  <2> QED BY <1>1, <2>1 DEF IInv, PastInv, Past
<1>7. PendingInv'
  BY <1>1 DEF IInv, PendingInv, profile
<1> QED BY <1>2, <1>3, <1>4, <1>5, <1>6, <1>7 DEF IInv

\* What requests by key do to the kernel.
LEMMA KeysCancelled ==
    ASSUME NEW k, NEW l, NEW n, CancelByKey(Keys(k, n), Keys(l, n))
    PROVE  /\ armed' = armed \ Tags(k, n)
           /\ \A c \in posting' \ posting :
                 /\ c = <<c[1], c[2]>>
                 /\ c[1] \in (Tags(k, n) \cap armed) \cup Tags(l, n)
           /\ k # l => \A i \in 0..n-1 :
                 make_tag(k, round, batch, i) \notin armed
                   /\ <<make_tag(l, round, batch, i), "0">> \in posting' =>
                         <<make_tag(l, round, batch, i), "0">> \in posting
<1> DEFINE key(i) == make_tag(k, round, batch, i)
           own(i) == make_tag(l, round, batch, i)
           hit == {i \in 0..n-1 : key(i) \in armed}
<1>1. /\ armed' = armed \ {key(i) : i \in hit}
      /\ posting' = posting
            \cup {<<key(i), "ECANCELED">> : i \in hit}
            \cup {<<own(i), IF i \in hit THEN "0" ELSE "ENOENT">> : i \in 0..n-1}
  BY DEF CancelByKey, Keys
<1>2. Tags(k, n) = {key(i) : i \in 0..n-1} /\ Tags(l, n) = {own(i) : i \in 0..n-1}
  BY DEF Tags
<1>3. \A i, j : own(i) = own(j) => i = j
  BY DEF make_tag
<1> HIDE DEF key, own
<1>4. armed' = armed \ Tags(k, n)
  BY <1>1, <1>2
<1>5. ASSUME NEW c \in posting' \ posting
      PROVE  c = <<c[1], c[2]>> /\ c[1] \in (Tags(k, n) \cap armed) \cup Tags(l, n)
  BY <1>1, <1>2
<1>6. ASSUME NEW i \in 0..n-1, key(i) \notin armed, <<own(i), "0">> \in posting'
      PROVE  <<own(i), "0">> \in posting
  <2>1. i \notin hit
    BY <1>6
  <2>2. ASSUME NEW j \in 0..n-1, <<own(i), "0">> = <<own(j), IF j \in hit THEN "0" ELSE "ENOENT">>
        PROVE  FALSE
    <3>1. i = j
      BY <1>3, <2>2
    <3> QED BY <2>1, <2>2, <3>1
  <2> QED BY <1>1, <1>6, <2>2
<1> QED BY <1>4, <1>5, <1>6 DEF key, own

\* A request the batch has not submitted yet has no completion under way.
LEMMA NotYet ==
    ASSUME PlaceInv, PastInv, pc \in Live, profile # "p0_prep", batch < BATCHES,
           NEW k, k \notin Issued, NEW i, NEW res
    PROVE  <<make_tag(k, round, batch, i), res>> \notin posting \cup DOMAIN cq
<1>1. batch \in 0..BATCHES-1 /\ round \in Nat
  BY CancelAssumption DEF PlaceInv
<1>2. make_tag(k, round, batch, i) = <<k, round, batch, i>>
  BY <1>1, PlainTag
<1>3. ~Past(<<k, round, batch, i>>)
  BY <1>1 DEF Past
<1> QED BY <1>2, <1>3 DEF PastInv

\* The kernel takes the requests of the timed region, or of a cleanup.
LEMMA TakenKeeps ==
    ASSUME IInv, batch < BATCHES, profile # "p0_prep", pc \in {"cancel", "cleanup"},
           pc' \in {"sleep", "sample"},
           stage' = IF pc = "cancel" THEN "timed" ELSE "cleanup",
           UNCHANGED <<run, round, batch, stop_requested, cq, copy, reaped, again>>,
           result'.errors = result.errors,
           armed' \subseteq (IF pc = "cancel" THEN Spared ELSE {}),
           \A c \in posting' \ posting :
              c = <<c[1], c[2]>> /\ c[1][2] = round /\ c[1][3] = batch /\ c[1][1] \in Issued',
           TypesInv', PendingInv'
    PROVE  IInv'
<1>1. PlaceInv'
  BY DEF IInv, PlaceInv, Awaited, Waiting, profile
<1>2. ArmedInv'
  BY SameTags DEF ArmedInv, Awaited, Waiting
<1>3. ReapInv'
  <2>1. TimedDone' = TimedDone
    BY DEF TimedDone, Awaited, Waiting
  <2> QED BY <2>1, ReapKept DEF IInv, Live
<1>4. PairInv'
  BY DEF IInv, PairInv
<1>5. PastInv'
  <2>1. Issued \subseteq Issued' /\ pc \in Live /\ profile' = profile
    BY SameTags DEF Issued, Awaited, Waiting, Live
  <2>2. round \in Nat /\ batch \in Nat
    BY DEF IInv, PlaceInv
  <2>3. ASSUME NEW c \in posting' \cup DOMAIN cq' PROVE Past(c[1])'
    <3>1. CASE c \in posting \cup DOMAIN cq
      <4>1. Past(c[1])
        BY <2>1, <3>1 DEF IInv, PastInv
      <4> QED BY <2>1, <4>1 DEF Past
    <3>2. CASE c \in posting' \ posting
      BY <2>2, <3>2 DEF Past
    <3> QED BY <3>1, <3>2
  <2> QED BY <2>3 DEF PastInv
<1> QED BY <1>1, <1>2, <1>3, <1>4, <1>5 DEF IInv

LEMMA CancelKeyedKeeps == IInv /\ CancelKeyed => IInv'
<1> SUFFICES ASSUME IInv, CancelKeyed PROVE IInv'
  OBVIOUS
<1> DEFINE k == IF profile = "a0_hit" THEN "poll" ELSE "never"
<1>1. /\ pc = "cancel" /\ pc' = "sleep" /\ stage = "timed"
      /\ profile \in {"a0_hit", "a0_miss"} /\ profile' = profile
      /\ CancelByKey(Keys(k, PENDING), Keys("cancel", PENDING))
      /\ UNCHANGED <<run, stage, round, batch, stop_requested, result, cq, copy, reaped, again>>
      /\ trulyPending' = (trulyPending /\ Polls \subseteq armed)
  BY DEF CancelKeyed, IInv, PlaceInv, profile
<1>2. batch < BATCHES /\ PlaceInv
  BY <1>1 DEF IInv, PlaceInv
<1>3. Polls = Tags("poll", PENDING) /\ Decoys = {} /\ armed \subseteq Polls
  BY <1>1 DEF Polls, Decoys, IInv, ArmedInv
<1> HIDE DEF k
<1>4. /\ armed' = armed \ Tags(k, PENDING)
      /\ \A c \in posting' \ posting :
            c = <<c[1], c[2]>> /\ c[1] \in Polls \cup Tags("cancel", PENDING)
  BY <1>1, <1>3, KeysCancelled
<1>5. armed' \subseteq Spared
  <2>1. CASE profile = "a0_hit"
    BY <1>3, <1>4, <2>1 DEF k
  <2>2. CASE profile = "a0_miss"
    BY <1>3, <1>4, <2>2 DEF Spared
  <2> QED BY <1>1, <2>1, <2>2
<1>6. ASSUME NEW c \in posting' \ posting
      PROVE  c[1][2] = round /\ c[1][3] = batch /\ c[1][1] \in {"poll", "cancel"}
  BY <1>2, <1>3, <1>4, TagOfBatch
<1>7. Issued = {"poll", "decoy"} /\ Issued' = {"poll", "decoy", "cancel", "bulk"} /\ pc \in Live
  BY <1>1 DEF Issued, Awaited, Waiting, Live, IInv, PlaceInv
<1>8. TypesInv'
  BY <1>1, Zenon DEF IInv, TypesInv, Live, Awaited, Waiting, profile
<1>9. PendingInv'
  <2> SUFFICES ASSUME profile = "a0_hit", ~trulyPending'
               PROVE  \E t \in Tags("cancel", PENDING) : Missing(t, "0")'
    BY <1>1, SameTags DEF PendingInv, Awaited, Waiting
  <2>1. trulyPending
    BY <1>1 DEF IInv, PendingInv
  <2>2. PICK i \in 0..PENDING-1 : make_tag("poll", round, batch, i) \notin armed
    BY <1>1, <1>3, <2>1 DEF Tags
  <2>3. <<make_tag("cancel", round, batch, i), "0">> \notin posting \cup DOMAIN cq
    BY <1>1, <1>2, <1>7, NotYet DEF IInv
  <2>4. <<make_tag("cancel", round, batch, i), "0">> \notin posting'
    BY <1>1, <2>2, <2>3, KeysCancelled DEF k
  <2>5. make_tag("cancel", round, batch, i) \in Tags("cancel", PENDING)
    BY DEF Tags
  <2>6. Missing(make_tag("cancel", round, batch, i), "0")'
    BY <1>1, <2>3, <2>4 DEF Missing, make_tag
  <2> QED BY <2>5, <2>6, <1>1 DEF make_tag
<1> QED BY <1>1, <1>2, <1>4, <1>5, <1>6, <1>7, <1>8, <1>9, TakenKeeps

LEMMA FewerThanPending ==
    ASSUME NEW S, S \subseteq Tags("poll", PENDING), S # Tags("poll", PENDING)
    PROVE  Cardinality(S) # PENDING
<1> DEFINE key(i) == make_tag("poll", round, batch, i)
           f == [i \in 0..PENDING-1 |-> key(i)]
<1>1. IsFiniteSet(0..PENDING-1) /\ Cardinality(0..PENDING-1) = PENDING
  BY FS_Interval, CancelAssumption
<1>2. Tags("poll", PENDING) = {key(i) : i \in 0..PENDING-1}
  BY DEF Tags
<1> HIDE DEF key
<1>3. f \in Surjection(0..PENDING-1, Tags("poll", PENDING))
  BY <1>2 DEF Surjection
<1>4. /\ IsFiniteSet(Tags("poll", PENDING))
      /\ Cardinality(Tags("poll", PENDING)) <= PENDING
  BY <1>1, <1>3, FS_Surjection
<1>5. /\ Cardinality(S) <= Cardinality(Tags("poll", PENDING))
      /\ Cardinality(S) # Cardinality(Tags("poll", PENDING))
  BY <1>4, FS_Subset
<1>6. Cardinality(S) \in Nat /\ Cardinality(Tags("poll", PENDING)) \in Nat
  BY <1>4, FS_Subset, FS_CardinalityType
<1> QED BY <1>4, <1>5, <1>6, CancelAssumption

LEMMA CancelFdAllKeeps == IInv /\ CancelFdAll => IInv'
<1> SUFFICES ASSUME IInv, CancelFdAll PROVE IInv'
  OBVIOUS
<1> DEFINE hit == {t \in armed : t[1] = "poll"}
           bulk == make_tag("bulk", round, batch, 0)
           res == IF Cardinality(hit) = PENDING THEN "all" ELSE "some"
<1>1. /\ pc = "cancel" /\ pc' = "sleep" /\ stage = "timed"
      /\ profile = "f0_fd_all" /\ profile' = profile
      /\ armed' = armed \ hit
      /\ posting' = posting \cup {<<t, "ECANCELED">> : t \in hit} \cup {<<bulk, res>>}
      /\ UNCHANGED <<run, stage, round, batch, stop_requested, result, cq, copy, reaped, again>>
      /\ trulyPending' = (trulyPending /\ Polls \cup Decoys \subseteq armed)
  BY DEF CancelFdAll, IInv, PlaceInv, profile
<1>2. batch < BATCHES /\ PlaceInv
  BY <1>1 DEF IInv, PlaceInv
<1>3. Polls = Tags("poll", PENDING) /\ Decoys = Tags("decoy", DECOYS)
      /\ armed \subseteq Polls \cup Decoys
  BY <1>1 DEF Polls, Decoys, IInv, ArmedInv
<1>4. (\A t \in Polls : t[1] = "poll") /\ (\A t \in Decoys : t[1] = "decoy")
  BY <1>2, <1>3, TagOfBatch
<1>5. hit = armed \cap Polls
  BY <1>3, <1>4
<1>6. bulk[1] = "bulk" /\ bulk[2] = round /\ bulk[3] = batch
  <2>1. bulk \in Tags("bulk", 1)
    BY DEF Tags
  <2> QED BY <1>2, <2>1, TagOfBatch
<1> HIDE DEF hit, bulk, res
<1>7. armed' \subseteq Spared
  BY <1>1, <1>3, <1>5 DEF Spared
<1>8. Issued = {"poll", "decoy"} /\ Issued' = {"poll", "decoy", "cancel", "bulk"} /\ pc \in Live
  BY <1>1 DEF Issued, Awaited, Waiting, Live, IInv, PlaceInv
<1>9. ASSUME NEW c \in posting' \ posting
      PROVE  c = <<c[1], c[2]>> /\ c[1][2] = round /\ c[1][3] = batch /\ c[1][1] \in Issued'
  <2>1. CASE \E t \in hit : c = <<t, "ECANCELED">>
    BY <1>2, <1>5, <1>8, <2>1, TargetsOfBatch
  <2>2. CASE c = <<bulk, res>>
    BY <1>6, <1>8, <2>2
  <2> QED BY <1>1, <2>1, <2>2
<1>10. TypesInv'
  BY <1>1, Zenon DEF IInv, TypesInv, Live, Awaited, Waiting, profile
<1>11. PendingInv'
  <2> SUFFICES ASSUME ~trulyPending', Decoys \subseteq armed'
               PROVE  Missing(bulk, "all")'
    BY <1>1, SameTags DEF PendingInv, Awaited, Waiting, bulk
  <2>1. trulyPending
    BY <1>1 DEF IInv, PendingInv
  <2>2. ~(Polls \subseteq armed)
    BY <1>1, <2>1
  <2>3. res = "some"
    <3>1. Cardinality(hit) # PENDING
      BY <1>3, <1>5, <2>2, FewerThanPending
    <3> QED BY <3>1 DEF res
  <2>4. <<bulk, "all">> \notin posting \cup DOMAIN cq
    BY <1>1, <1>2, <1>8, NotYet DEF IInv, bulk
  <2>5. <<bulk, "all">> \notin posting' \cup DOMAIN cq'
    BY <1>1, <2>3, <2>4
  <2>6. bulk' = bulk
    BY <1>1, SameTags DEF bulk
  <2> QED BY <1>1, <2>5, <2>6 DEF Missing
<1> QED BY <1>1, <1>2, <1>7, <1>9, <1>10, <1>11, TakenKeeps

LEMMA SyncCancelKeeps == IInv /\ SyncCancel => IInv'
<1> SUFFICES ASSUME IInv, SyncCancel PROVE IInv'
  OBVIOUS
<1>1. /\ pc = "cancel" /\ pc' \in {"sample", "failed"} /\ stage = "timed"
      /\ profile = "s0_sync" /\ profile' = profile
      /\ UNCHANGED <<run, stage, round, batch, stop_requested, cq, copy, reaped, again>>
      /\ trulyPending' = (trulyPending /\ Polls \subseteq armed)
      /\ \/ /\ pc' = "sample"
            /\ Polls \subseteq armed /\ armed' = armed \ Polls
            /\ posting' = posting \cup {<<t, "ECANCELED">> : t \in Polls}
         \/ pc' = "failed" /\ UNCHANGED <<armed, posting>>
  BY DEF SyncCancel, IInv, PlaceInv, profile
<1>2. "errors" \in DOMAIN result' /\ result'.errors = result.errors
  BY DEF SyncCancel, IInv, TypesInv
<1>3. TypesInv'
  BY <1>1, <1>2, Zenon DEF IInv, TypesInv, Live, Awaited, Waiting, profile
<1>4. CASE pc' = "failed"
  <2>1. PairInv'
    BY <1>1, <1>4 DEF IInv, PairInv
  <2> QED BY <1>1, <1>3, <1>4, <2>1, OverKeeps
<1>5. CASE pc' = "sample"
  <2>1. batch < BATCHES /\ PlaceInv
    BY <1>1 DEF IInv, PlaceInv
  <2>2. armed' \subseteq Spared
    BY <1>1, <1>5 DEF IInv, ArmedInv, Decoys
  <2>3. Issued' = {"poll", "decoy", "cancel", "bulk"}
    BY <1>1, <1>5 DEF Issued, Awaited, Waiting
  <2>4. ASSUME NEW c \in posting' \ posting
        PROVE  c = <<c[1], c[2]>> /\ c[1][2] = round /\ c[1][3] = batch /\ c[1][1] \in Issued'
    <3>1. PICK t \in Polls : c = <<t, "ECANCELED">>
      BY <1>1, <1>5
    <3> QED BY <2>1, <2>3, <3>1, TargetsOfBatch
  <2>5. PendingInv'
    <3>1. trulyPending
      BY <1>1 DEF IInv, PendingInv
    <3> QED BY <1>1, <1>5, <3>1 DEF PendingInv
  <2> QED BY <1>1, <1>2, <1>3, <1>5, <2>1, <2>2, <2>4, <2>5, TakenKeeps
<1> QED BY <1>1, <1>4, <1>5

LEMMA PrepCancelKeeps == IInv /\ PrepCancel => IInv'
<1> SUFFICES ASSUME IInv, PrepCancel PROVE IInv'
  OBVIOUS
<1> DEFINE t == make_tag("cancel", 0, 0, 0)
<1>1. /\ pc = "round" /\ pc' = "sleep" /\ profile = "p0_prep" /\ profile' = profile
      /\ UNCHANGED <<run, stage, round, batch, stop_requested, result, armed, cq, copy,
                     reaped, again, trulyPending>>
      /\ \E res \in {"EINVAL", "ENOENT"} : posting' = posting \cup {<<t, res>>}
  BY DEF PrepCancel, histVars, profile
<1> HIDE DEF t
<1>2. TypesInv'
  BY <1>1, Zenon DEF IInv, TypesInv, Live, Awaited, Waiting, profile
<1>3. stage = "timed" /\ armed = {} /\ batch < BATCHES
  BY <1>1, CancelAssumption DEF IInv, TypesInv, PlaceInv, ArmedInv
<1>4. PlaceInv'
  BY <1>1, <1>3 DEF IInv, PlaceInv, Awaited, Waiting
<1>5. ArmedInv'
  BY <1>1, <1>3 DEF ArmedInv, Awaited, Waiting
<1>6. ReapInv' /\ PastInv' /\ PendingInv'
  BY <1>1 DEF ReapInv, PastInv, PendingInv
<1>7. PairInv'
  BY <1>1 DEF IInv, PairInv
<1> QED BY <1>2, <1>4, <1>5, <1>6, <1>7 DEF IInv

LEMMA CopyKeeps == IInv /\ Copy => IInv'
<1> SUFFICES ASSUME IInv, Copy PROVE IInv'
  OBVIOUS
<1>1. /\ pc \in {"sample", "resample"} /\ pc' = "validate" /\ profile' = profile
      /\ copy' = cq /\ cq' = EmptyBag
      /\ reaped' = reaped \cup DOMAIN cq
      /\ again' = again \cup {c[1] : c \in {d \in DOMAIN cq :
                      HowMany(cq, With(cq, {d[1]})) > 1
                        \/ \E e \in reaped : e[1] = d[1]}}
      /\ UNCHANGED <<run, stage, round, batch, stop_requested, result, armed, posting,
                     trulyPending>>
  BY DEF Copy, profile
<1>2. DOMAIN cq' = {}
  BY <1>1 DEF EmptyBag, SetToBag
<1>3. TypesInv'
  BY <1>1, Zenon DEF IInv, TypesInv, Live, Awaited, Waiting
<1>4. PlaceInv'
  BY <1>1 DEF IInv, PlaceInv, Awaited, Waiting
<1>5. ArmedInv'
  BY <1>1, SameTags DEF IInv, ArmedInv, Awaited, Waiting
<1>6. ReapInv'
  <2> SUFFICES ASSUME profile # "p0_prep", result.errors = 0
               PROVE  /\ Relevant(reaped)' = Done' \cup Relevant(DOMAIN copy)'
                      /\ \A t \in again' :
                            \/ OfCleanupTarget(t)'
                            \/ /\ \E d \in DOMAIN copy' : d[1] = t
                               /\ \/ (HowMany(copy, With(copy, {t})) > 1)'
                                  \/ \E e \in Done' : e[1] = t
    BY <1>1 DEF ReapInv
  <2>1. TimedDone' = TimedDone
    BY <1>1 DEF TimedDone, Awaited, Waiting
  <2>2. Done' = Done /\ (\A t : OfCleanupTarget(t)' <=> OfCleanupTarget(t))
    BY <1>1, <2>1, SameWanted DEF Done, OfCleanupTarget
  <2>3. Relevant(reaped) = Done /\ \A t \in again : OfCleanupTarget(t)
    BY <1>1 DEF IInv, ReapInv, Live, Awaited, Waiting
  <2>4. Relevant(reaped)' = Done' \cup Relevant(DOMAIN copy)'
    BY <1>1, <2>2, <2>3 DEF Relevant
  <2>5. ASSUME NEW t \in again', ~OfCleanupTarget(t)
        PROVE  /\ \E d \in DOMAIN copy' : d[1] = t
               /\ \/ (HowMany(copy, With(copy, {t})) > 1)'
                  \/ \E e \in Done' : e[1] = t
    <3>1. PICK d \in DOMAIN cq : /\ d[1] = t
                                 /\ \/ HowMany(cq, With(cq, {d[1]})) > 1
                                    \/ \E e \in reaped : e[1] = d[1]
      BY <1>1, <2>3, <2>5
    <3>2. CASE HowMany(cq, With(cq, {t})) > 1
      BY <1>1, <3>1, <3>2 DEF HowMany, With
    <3>3. CASE \E e \in reaped : e[1] = t
      BY <1>1, <2>2, <2>3, <2>5, <3>1, <3>3 DEF Relevant
    <3> QED BY <3>1, <3>2, <3>3
  <2> QED BY <2>2, <2>4, <2>5
<1>7. PairInv'
  BY <1>1, <1>2 DEF IInv, PairInv
<1>8. PastInv'
  <2>1. Issued' = Issued /\ pc \in Live
    BY <1>1 DEF Issued, Awaited, Waiting, Live
  <2> QED BY <1>1, <1>2, <2>1 DEF IInv, PastInv, Past
<1>9. PendingInv'
  <2>1. \A t, res : Missing(t, res) => Missing(t, res)'
    BY <1>1, <1>2 DEF Missing
  <2> QED BY <1>1, <2>1, SameTags DEF IInv, PendingInv, Awaited, Waiting
<1> QED BY <1>3, <1>4, <1>5, <1>6, <1>7, <1>8, <1>9 DEF IInv

-----------------------------------------------------------------------------
(* The validations                                                         *)

\* A batch is done.
LEMMA BatchEnds ==
    ASSUME IInv, pc = "validate", profile # "p0_prep", armed = {},
           UNCHANGED <<run, round, stage, stop_requested, armed, posting, cq, copy, reaped,
                       again, trulyPending>>,
           batch' = batch + 1, pc' = "round", TypesInv',
           result'.errors = 0 => /\ Relevant(reaped) = Upto(batch + 1, FALSE)
                                 /\ \A t \in again : OfCleanupTarget(t),
           trulyPending \/ profile = "a0_miss"
    PROVE  IInv'
<1>1. PlaceInv'
  <2>1. batch' \in 0..BATCHES
    BY CancelAssumption DEF IInv, PlaceInv, Awaited
  <2> QED BY <2>1 DEF IInv, PlaceInv, Awaited, Waiting, profile
<1>2. ArmedInv'
  BY DEF ArmedInv, Awaited, Waiting
<1>3. ReapInv'
  <2>1. ~TimedDone'
    BY DEF TimedDone, Awaited, Waiting
  <2>2. Upto(batch', TimedDone') = Upto(batch + 1, FALSE)
    BY <2>1 DEF Upto
  <2>3. Relevant(reaped') = Relevant(reaped)
    OBVIOUS
  <2> QED BY <2>2, <2>3, ReapFrom
<1>4. PairInv'
  BY DEF IInv, PairInv
<1>5. PastInv'
  <2>1. pc \in Live /\ batch \in Nat /\ profile' = profile
    BY DEF IInv, PlaceInv, Live, Awaited, profile
  <2>2. ASSUME NEW t, Past(t) PROVE Past(t)'
    BY <2>1, <2>2 DEF Past
  <2> QED BY <2>1, <2>2 DEF IInv, PastInv
<1>6. PendingInv'
  BY DEF PendingInv, profile
<1> QED BY <1>1, <1>2, <1>3, <1>4, <1>5, <1>6 DEF IInv

\* The timed region of a batch is done, its cleanup is to come.
LEMMA TimedEnds ==
    ASSUME IInv, pc = "validate", stage = "timed", profile \in {"a0_miss", "f0_fd_all"},
           UNCHANGED <<run, round, batch, stage, stop_requested, armed, posting, cq, copy,
                       reaped, again, trulyPending>>,
           pc' = "cleanup", TypesInv',
           result'.errors = 0 => /\ Relevant(reaped) = Upto(batch, TRUE)
                                 /\ \A t \in again : OfCleanupTarget(t),
           trulyPending \/ profile = "a0_miss" \/ ~(Decoys \subseteq armed)
    PROVE  IInv'
<1>1. PlaceInv'
  BY DEF IInv, PlaceInv, Awaited, Waiting, profile
<1>2. ArmedInv'
  BY SameTags DEF IInv, ArmedInv, Awaited, Waiting
<1>3. ReapInv'
  <2>1. TimedDone'
    BY DEF TimedDone
  <2>2. Upto(batch', TimedDone') = Upto(batch, TRUE)
    BY <2>1 DEF Upto
  <2> QED BY <2>2, ReapFrom
<1>4. PairInv'
  BY DEF IInv, PairInv
<1>5. PastInv'
  <2>1. pc \in Live /\ Issued' = Issued /\ profile' = profile
    BY DEF Live, Awaited, Waiting, Issued, profile
  <2> QED BY <2>1 DEF IInv, PastInv, Past
<1>6. PendingInv'
  BY SameTags DEF PendingInv, Awaited, Waiting
<1> QED BY <1>1, <1>2, <1>3, <1>4, <1>5, <1>6 DEF IInv

LEMMA ValidateKeyedKeeps == IInv /\ ValidateKeyed => IInv'
<1> SUFFICES ASSUME IInv, ValidateKeyed PROVE IInv'
  OBVIOUS
<1>1. /\ pc = "validate" /\ stage = "timed" /\ profile \in {"a0_hit", "a0_miss"}
      /\ profile' = profile
      /\ UNCHANGED <<run, round, stage, stop_requested, armed, posting, cq, copy, reaped,
                     again, trulyPending>>
      /\ \/ Exactly(KeyedWant) /\ profile = "a0_hit" /\ NextBatch
         \/ Exactly(KeyedWant) /\ profile = "a0_miss" /\ pc' = "cleanup" /\ UNCHANGED batch
         \/ pc' = "failed" /\ UNCHANGED batch
  BY DEF ValidateKeyed, Validated, kernVars, histVars, profile
<1>2. "errors" \in DOMAIN result' /\ result'.errors = result.errors
  BY DEF ValidateKeyed, IInv, TypesInv
<1>3. TypesInv'
  BY <1>1, <1>2, Zenon DEF IInv, TypesInv, Live, NextBatch
<1>4. batch \in 0..BATCHES-1 /\ batch < BATCHES /\ PlaceInv
  BY <1>1, CancelAssumption DEF IInv, PlaceInv, Awaited
<1>5. Image(KeyedWant) = TimedPart(batch)
  BY <1>1, <1>4, ValidationWants
<1>6. Exactly(KeyedWant) /\ result.errors = 0 =>
         /\ Relevant(reaped) = Upto(batch, TRUE)
         /\ \A t \in again : OfCleanupTarget(t)
  BY <1>1, <1>5, TimedPasses
<1>7. CASE pc' = "failed" /\ UNCHANGED batch
  <2>1. PairInv'
    BY <1>1 DEF IInv, PairInv
  <2> QED BY <1>1, <1>3, <1>7, <2>1, OverKeeps
<1>8. CASE Exactly(KeyedWant) /\ profile = "a0_hit" /\ NextBatch
  <2>1. Upto(batch + 1, FALSE) = Upto(batch, TRUE)
    BY <1>4, <1>8, UptoGrows DEF DecoyPart
  <2>2. armed = {}
    BY <1>1, <1>8 DEF IInv, ArmedInv, Awaited, Spared
  <2>3. trulyPending
    <3> SUFFICES ASSUME ~trulyPending PROVE FALSE
      OBVIOUS
    <3>1. PICK t \in Tags("cancel", PENDING) : Missing(t, "0")
      BY <1>1, <1>8 DEF IInv, PendingInv, Awaited
    <3>2. <<t, "0">> \notin DOMAIN copy
      BY <1>1, <3>1 DEF Missing
    <3>3. <<t, "0">> \in TimedPart(batch)
      BY <1>4, <1>8, WantOfBatch DEF TimedPart, As
    <3> QED BY <1>5, <1>8, <3>2, <3>3, ExactlyImage DEF IInv
  <2> QED BY <1>1, <1>2, <1>3, <1>6, <1>8, <2>1, <2>2, <2>3, BatchEnds DEF NextBatch
<1>9. CASE Exactly(KeyedWant) /\ profile = "a0_miss" /\ pc' = "cleanup" /\ UNCHANGED batch
  BY <1>1, <1>2, <1>3, <1>6, <1>9, TimedEnds
<1> QED BY <1>1, <1>7, <1>8, <1>9

LEMMA ValidateFdAllKeeps == IInv /\ ValidateFdAll => IInv'
<1> SUFFICES ASSUME IInv, ValidateFdAll PROVE IInv'
  OBVIOUS
<1>1. /\ pc = "validate" /\ stage = "timed" /\ profile = "f0_fd_all" /\ profile' = profile
      /\ UNCHANGED <<run, round, batch, stage, stop_requested, armed, posting, cq, copy,
                     reaped, again, trulyPending>>
      /\ \/ Exactly(BulkWant) /\ pc' = "cleanup"
         \/ pc' = "failed"
  BY DEF ValidateFdAll, Validated, kernVars, histVars, profile
<1>2. "errors" \in DOMAIN result' /\ result'.errors = result.errors
  BY DEF ValidateFdAll, IInv, TypesInv
<1>3. TypesInv'
  BY <1>1, <1>2, Zenon DEF IInv, TypesInv, Live
<1>4. batch < BATCHES /\ PlaceInv
  BY <1>1 DEF IInv, PlaceInv, Awaited
<1>5. Image(BulkWant) = TimedPart(batch)
  BY <1>1, <1>4, ValidationWants
<1>6. Exactly(BulkWant) /\ result.errors = 0 =>
         /\ Relevant(reaped) = Upto(batch, TRUE)
         /\ \A t \in again : OfCleanupTarget(t)
  BY <1>1, <1>5, TimedPasses
<1>7. CASE pc' = "failed"
  <2>1. PairInv'
    BY <1>1 DEF IInv, PairInv
  <2> QED BY <1>1, <1>3, <1>7, <2>1, OverKeeps
<1>8. CASE Exactly(BulkWant) /\ pc' = "cleanup"
  <2>1. trulyPending \/ ~(Decoys \subseteq armed)
    <3> SUFFICES ASSUME ~trulyPending, Decoys \subseteq armed PROVE FALSE
      OBVIOUS
    <3> DEFINE bulk == make_tag("bulk", round, batch, 0)
    <3>1. Missing(bulk, "all")
      BY <1>1 DEF IInv, PendingInv, Awaited
    <3>2. <<bulk, "all">> \notin DOMAIN copy
      BY <1>1, <3>1 DEF Missing
    <3>3. bulk \in Tags("bulk", 1)
      BY DEF Tags
    <3>4. <<bulk, "all">> \in TimedPart(batch)
      BY <1>1, <1>4, <3>3, WantOfBatch DEF TimedPart, As
    <3> QED BY <1>5, <1>8, <3>2, <3>4, ExactlyImage DEF IInv
  <2> QED BY <1>1, <1>2, <1>3, <1>6, <1>8, <2>1, TimedEnds
<1> QED BY <1>1, <1>7, <1>8

LEMMA ValidateSyncKeeps == IInv /\ ValidateSync => IInv'
<1> SUFFICES ASSUME IInv, ValidateSync PROVE IInv'
  OBVIOUS
<1> DEFINE want == Wants(Polls, "ECANCELED")
<1>1. /\ pc = "validate" /\ profile = "s0_sync" /\ profile' = profile
      /\ UNCHANGED <<run, round, stage, stop_requested, armed, posting, cq, copy, reaped,
                     again, trulyPending>>
      /\ \/ Exactly(want) /\ NextBatch /\ result' = [result EXCEPT !.original = @ + 1]
         \/ NextBatch /\ result' = [result EXCEPT !.original = @ + 1, !.errors = @ + 1]
         \/ pc' = "failed" /\ UNCHANGED <<batch, result>>
  BY DEF ValidateSync, Validated, kernVars, histVars, profile
<1> HIDE DEF want
<1>2. result.errors \in Nat /\ "errors" \in DOMAIN result
  BY <1>1 DEF IInv, TypesInv
<1>3. ASSUME result' = [result EXCEPT !.original = @ + 1]
      PROVE  "errors" \in DOMAIN result' /\ result'.errors = result.errors
  BY <1>2, <1>3
<1>4. ASSUME result' = [result EXCEPT !.original = @ + 1, !.errors = @ + 1]
       PROVE  "errors" \in DOMAIN result' /\ result'.errors = result.errors + 1
  BY <1>2, <1>4
<1>5. /\ "errors" \in DOMAIN result' /\ result'.errors \in Nat
      /\ NextBatch /\ result'.errors = 0 => Exactly(want) /\ result.errors = 0
  BY <1>1, <1>2, <1>3, <1>4 DEF NextBatch
<1>6. TypesInv'
  BY <1>1, <1>5, Zenon DEF IInv, TypesInv, Live, NextBatch
<1>7. CASE pc' = "failed" /\ UNCHANGED <<batch, result>>
  <2>1. PairInv'
    BY <1>1 DEF IInv, PairInv
  <2> QED BY <1>1, <1>6, <1>7, <2>1, OverKeeps
<1>8. CASE NextBatch
  <2>1. batch \in 0..BATCHES-1 /\ batch < BATCHES /\ PlaceInv /\ stage = "timed"
    BY <1>1, CancelAssumption DEF IInv, TypesInv, PlaceInv, Awaited
  <2>2. armed = {} /\ trulyPending
    BY <1>1, <2>1 DEF IInv, ArmedInv, PendingInv, Awaited, Spared
  <2>3. Upto(batch + 1, FALSE) = Upto(batch, TRUE)
    BY <1>1, <2>1, UptoGrows DEF DecoyPart
  <2>4. Image(want) = TimedPart(batch)
    BY <1>1, <2>1, ValidationWants DEF want
  <2>5. pc' = "round" /\ batch' = batch + 1
    BY <1>8 DEF NextBatch
  <2>6. ASSUME result'.errors = 0
        PROVE  /\ Relevant(reaped) = Upto(batch + 1, FALSE)
               /\ \A t \in again : OfCleanupTarget(t)
    <3>1. Exactly(want) /\ result.errors = 0
      BY <1>5, <1>8, <2>6
    <3> QED BY <1>1, <2>1, <2>3, <2>4, <3>1, TimedPasses
  <2> QED BY <1>1, <1>6, <2>2, <2>5, <2>6, BatchEnds
<1> QED BY <1>1, <1>7, <1>8

LEMMA ValidatePrepKeeps == IInv /\ ValidatePrep => IInv'
<1> SUFFICES ASSUME IInv, ValidatePrep PROVE IInv'
  OBVIOUS
<1>1. /\ pc = "validate" /\ pc' = "judge" /\ profile = "p0_prep" /\ profile' = profile
      /\ UNCHANGED <<run, round, batch, stage, stop_requested, armed, posting, cq, copy,
                     reaped, again, trulyPending>>
  BY DEF ValidatePrep, Validated, kernVars, histVars, profile
<1>2. "errors" \in DOMAIN result'
  BY DEF ValidatePrep, IInv, TypesInv
<1>3. TypesInv'
  BY <1>1, <1>2, Zenon DEF IInv, TypesInv, Live
<1>4. PlaceInv'
  BY <1>1 DEF IInv, PlaceInv, Awaited, Waiting
<1>5. ArmedInv'
  BY <1>1 DEF IInv, TypesInv, PlaceInv, ArmedInv, Awaited, Waiting, Spared
<1>6. ReapInv' /\ PastInv' /\ PendingInv'
  BY <1>1 DEF ReapInv, PastInv, PendingInv
<1>7. PairInv'
  BY <1>1 DEF IInv, PairInv
<1> QED BY <1>3, <1>4, <1>5, <1>6, <1>7 DEF IInv

\* cleanup_target counts what it finds: its completions are not told apart.
LEMMA ValidateCleanupTargetKeeps == IInv /\ ValidateCleanupTarget => IInv'
<1> SUFFICES ASSUME IInv, ValidateCleanupTarget PROVE IInv'
  OBVIOUS
<1>1. /\ pc = "validate" /\ stage = "cleanup" /\ profile = "a0_miss" /\ profile' = profile
      /\ UNCHANGED <<run, round, stage, stop_requested, armed, posting, cq, copy, reaped,
                     again, trulyPending>>
      /\ \/ Unexpected(TargetWant) = {} /\ NextBatch
         \/ pc' = "failed" /\ UNCHANGED batch
  BY DEF ValidateCleanupTarget, Validated, kernVars, histVars, profile
<1>2. "errors" \in DOMAIN result' /\ result'.errors = result.errors
  BY DEF ValidateCleanupTarget, IInv, TypesInv
<1>3. TypesInv'
  BY <1>1, <1>2, Zenon DEF IInv, TypesInv, Live, NextBatch
<1>4. CASE pc' = "failed" /\ UNCHANGED batch
  <2>1. PairInv'
    BY <1>1 DEF IInv, PairInv
  <2> QED BY <1>1, <1>3, <1>4, <2>1, OverKeeps
<1>5. CASE Unexpected(TargetWant) = {} /\ NextBatch
  <2>1. batch \in 0..BATCHES-1 /\ batch < BATCHES /\ PlaceInv /\ armed = {}
    BY <1>1, CancelAssumption DEF IInv, PlaceInv, ArmedInv, Awaited
  <2>2. Upto(batch + 1, FALSE) = Upto(batch, TRUE)
    BY <1>1, <2>1, UptoGrows DEF DecoyPart
  <2>3. \A c \in DOMAIN copy : OfCleanupTarget(c[1])
    <3>1. DOMAIN TargetWant = Tags("poll", PENDING) \cup Tags("cleanup", PENDING)
      BY <1>1 DEF TargetWant, Both, Wants, Polls
    <3>2. \A c \in DOMAIN copy : c[1] \in DOMAIN TargetWant
      BY <1>5 DEF Unexpected
    <3> QED BY <1>1, <2>1, <3>1, <3>2, TagOfBatch DEF OfCleanupTarget
  <2>4. ASSUME result'.errors = 0
        PROVE  /\ Relevant(reaped) = Upto(batch + 1, FALSE)
               /\ \A t \in again : OfCleanupTarget(t)
    <3>1. Done = Upto(batch, TRUE)
      BY <1>1 DEF Done, TimedDone, Awaited
    <3>2. /\ Relevant(reaped) = Done \cup Relevant(DOMAIN copy)
          /\ \A t \in again : OfCleanupTarget(t) \/ \E d \in DOMAIN copy : d[1] = t
      BY <1>1, <1>2, <2>4 DEF IInv, ReapInv
    <3> QED BY <2>2, <2>3, <3>1, <3>2 DEF Relevant
  <2> QED BY <1>1, <1>3, <1>5, <2>1, <2>4, BatchEnds DEF NextBatch
<1> QED BY <1>1, <1>4, <1>5

LEMMA ValidateCleanupDecoysKeeps == IInv /\ ValidateCleanupDecoys => IInv'
<1> SUFFICES ASSUME IInv, ValidateCleanupDecoys PROVE IInv'
  OBVIOUS
<1>1. /\ pc = "validate" /\ stage = "cleanup" /\ profile = "f0_fd_all" /\ profile' = profile
      /\ UNCHANGED <<run, round, stage, stop_requested, armed, posting, cq, copy, reaped,
                     again, trulyPending>>
      /\ \/ Exactly(DecoyWant) /\ NextBatch
         \/ pc' = "failed" /\ UNCHANGED batch
  BY DEF ValidateCleanupDecoys, Validated, kernVars, histVars, profile
<1>2. "errors" \in DOMAIN result' /\ result'.errors = result.errors
  BY DEF ValidateCleanupDecoys, IInv, TypesInv
<1>3. TypesInv'
  BY <1>1, <1>2, Zenon DEF IInv, TypesInv, Live, NextBatch
<1>4. CASE pc' = "failed" /\ UNCHANGED batch
  <2>1. PairInv'
    BY <1>1 DEF IInv, PairInv
  <2> QED BY <1>1, <1>3, <1>4, <2>1, OverKeeps
<1>5. CASE Exactly(DecoyWant) /\ NextBatch
  <2>1. batch < BATCHES /\ PlaceInv /\ armed = {}
    BY <1>1 DEF IInv, PlaceInv, ArmedInv, Awaited
  <2>2. result.errors = 0 => /\ Relevant(reaped) = Upto(batch + 1, FALSE)
                             /\ \A t \in again : OfCleanupTarget(t)
    BY <1>1, <1>5, DecoysPass
  <2>3. trulyPending
    <3> SUFFICES ASSUME ~trulyPending PROVE FALSE
      OBVIOUS
    <3>1. PICK t \in Tags("cleanup", DECOYS) : Missing(t, "0")
      BY <1>1 DEF IInv, PendingInv, Awaited
    <3>2. <<t, "0">> \notin DOMAIN copy
      BY <1>1, <3>1 DEF Missing
    <3>3. <<t, "0">> \in DecoyPart(batch)
      BY <1>1, <2>1, WantOfBatch DEF DecoyPart, As
    <3> QED BY <1>1, <1>5, <2>1, <3>2, <3>3, ValidationWants, ExactlyImage DEF IInv
  <2> QED BY <1>1, <1>2, <1>3, <1>5, <2>1, <2>2, <2>3, BatchEnds DEF NextBatch
<1> QED BY <1>1, <1>4, <1>5

-----------------------------------------------------------------------------
(* The cleanups                                                            *)

LEMMA CleanupTargetKeeps == IInv /\ CleanupTarget => IInv'
<1> SUFFICES ASSUME IInv, CleanupTarget PROVE IInv'
  OBVIOUS
<1>1. /\ pc = "cleanup" /\ pc' = "sleep" /\ stage' = "cleanup"
      /\ profile = "a0_miss" /\ profile' = profile
      /\ CancelByKey(Keys("poll", PENDING), Keys("cleanup", PENDING))
      /\ UNCHANGED <<run, round, batch, stop_requested, result, cq, copy, reaped, again,
                     trulyPending>>
  BY DEF CleanupTarget, histVars, profile
<1>2. batch < BATCHES /\ PlaceInv
  BY <1>1 DEF IInv, PlaceInv
<1>3. Polls = Tags("poll", PENDING) /\ armed \subseteq Polls
  BY <1>1 DEF Polls, IInv, ArmedInv, Spared
<1>4. /\ armed' = armed \ Tags("poll", PENDING)
      /\ \A c \in posting' \ posting :
            c = <<c[1], c[2]>> /\ c[1] \in Polls \cup Tags("cleanup", PENDING)
  BY <1>1, <1>3, KeysCancelled
<1>5. Issued' = {"poll", "decoy", "cancel", "bulk", "cleanup"}
  BY <1>1 DEF Issued, Awaited, Waiting
<1>6. ASSUME NEW c \in posting' \ posting
      PROVE  c[1][2] = round /\ c[1][3] = batch /\ c[1][1] \in Issued'
  BY <1>2, <1>3, <1>4, <1>5, TagOfBatch
<1>7. TypesInv'
  BY <1>1, Zenon DEF IInv, TypesInv, Live, Awaited, Waiting
<1>8. PendingInv'
  BY <1>1 DEF PendingInv
<1>9. armed' = {}
  BY <1>3, <1>4
<1> QED BY <1>1, <1>2, <1>4, <1>6, <1>7, <1>8, <1>9, TakenKeeps

LEMMA CleanupDecoysKeeps == IInv /\ CleanupDecoys => IInv'
<1> SUFFICES ASSUME IInv, CleanupDecoys PROVE IInv'
  OBVIOUS
<1>1. /\ pc = "cleanup" /\ profile = "f0_fd_all" /\ profile' = profile
      /\ UNCHANGED <<run, round, batch, stop_requested, result, cq, copy, reaped, again,
                     trulyPending>>
      /\ \/ pc' = "failed" /\ UNCHANGED <<stage, posting>>
         \/ /\ CancelByKey(Keys("decoy", DECOYS), Keys("cleanup", DECOYS))
            /\ stage' = "cleanup" /\ pc' = "sleep"
  BY DEF CleanupDecoys, histVars, profile
<1>2. TypesInv'
  BY <1>1, Zenon DEF IInv, TypesInv, Live, Awaited, Waiting
<1>3. CASE pc' = "failed" /\ UNCHANGED <<stage, posting>>
  <2>1. PairInv'
    BY <1>1, <1>3 DEF IInv, PairInv
  <2> QED BY <1>1, <1>2, <1>3, <2>1, OverKeeps
<1>4. CASE /\ CancelByKey(Keys("decoy", DECOYS), Keys("cleanup", DECOYS))
           /\ stage' = "cleanup" /\ pc' = "sleep"
  <2>1. batch < BATCHES /\ PlaceInv
    BY <1>1 DEF IInv, PlaceInv
  <2>2. Decoys = Tags("decoy", DECOYS) /\ armed \subseteq Decoys
    BY <1>1 DEF Decoys, IInv, ArmedInv, Spared
  <2>3. /\ armed' = armed \ Tags("decoy", DECOYS)
        /\ \A c \in posting' \ posting :
              c = <<c[1], c[2]>> /\ c[1] \in Decoys \cup Tags("cleanup", DECOYS)
    BY <1>4, <2>2, KeysCancelled
  <2>4. Issued = {"poll", "decoy", "cancel", "bulk"} /\ pc \in Live
        /\ Issued' = {"poll", "decoy", "cancel", "bulk", "cleanup"}
    BY <1>1, <1>4 DEF Issued, Awaited, Waiting, Live
  <2>5. ASSUME NEW c \in posting' \ posting
        PROVE  c[1][2] = round /\ c[1][3] = batch /\ c[1][1] \in Issued'
    BY <2>1, <2>2, <2>3, <2>4, TagOfBatch
  <2>6. PendingInv'
    <3> SUFFICES ASSUME ~trulyPending
                 PROVE  \E t \in Tags("cleanup", DECOYS) : Missing(t, "0")'
      BY <1>1, <1>4, SameTags DEF PendingInv, Awaited, Waiting
    <3>1. ~(Decoys \subseteq armed)
      BY <1>1 DEF IInv, PendingInv
    <3>2. PICK i \in 0..DECOYS-1 : make_tag("decoy", round, batch, i) \notin armed
      BY <2>2, <3>1 DEF Tags
    <3>3. <<make_tag("cleanup", round, batch, i), "0">> \notin posting \cup DOMAIN cq
      BY <1>1, <2>1, <2>4, NotYet DEF IInv
    <3>4. <<make_tag("cleanup", round, batch, i), "0">> \notin posting'
      BY <1>4, <3>2, <3>3, KeysCancelled
    <3>5. make_tag("cleanup", round, batch, i) \in Tags("cleanup", DECOYS)
      BY DEF Tags
    <3>6. Missing(make_tag("cleanup", round, batch, i), "0")'
      BY <1>1, <1>4, <3>3, <3>4 DEF Missing, make_tag
    <3> QED BY <3>5, <3>6, <1>1 DEF make_tag
  <2>7. armed' = {}
    BY <2>2, <2>3
  <2> QED BY <1>1, <1>2, <1>4, <2>1, <2>3, <2>5, <2>6, <2>7, TakenKeeps
<1> QED BY <1>1, <1>3, <1>4

-----------------------------------------------------------------------------
(* The next round, and the kernel                                          *)

NothingDone == Upto(0, FALSE) = {}
LEMMA NothingDoneYet == NothingDone
<1> SUFFICES ASSUME NEW c \in WantedOfRound, c[1][3] < 0 PROVE FALSE
  BY DEF NothingDone, Upto
<1>1. \A k, n, res : \A e \in As(RoundTags(k, n), res) :
         \E b \in 0..BATCHES-1 : e[1][3] = b % BATCH_TAGS
  BY DEF As, RoundTags, make_tag
<1>2. \A b \in 0..BATCHES-1 : b % BATCH_TAGS \in Nat
  BY CancelAssumption
<1>3. WantedOfRound = {} \/ \E b \in 0..BATCHES-1 : c[1][3] = b % BATCH_TAGS
  BY <1>1 DEF WantedOfRound
<1> QED BY <1>2, <1>3

LEMMA NextRoundKeeps == IInv /\ NextRound => IInv'
<1> SUFFICES ASSUME IInv, NextRound PROVE IInv'
  OBVIOUS
<1>1. /\ pc = "next" /\ pc' = "round" /\ profile' = profile
      /\ round' = round + 1 /\ batch' = 0 /\ stage' = "timed"
      /\ reaped' = {} /\ again' = {} /\ trulyPending' = TRUE
      /\ UNCHANGED <<run, stop_requested, armed, posting, cq, copy>>
  BY DEF NextRound, kernVars, profile
<1>2. "errors" \in DOMAIN result' /\ result'.errors = 0 /\ result'.errors \in Nat
  BY DEF NextRound, ZeroResult
<1>3. TypesInv'
  BY <1>1, <1>2, Zenon DEF IInv, TypesInv, Live
<1>4. PlaceInv'
  BY <1>1, CancelAssumption DEF IInv, PlaceInv, Awaited, Waiting
<1>5. ArmedInv'
  BY <1>1 DEF IInv, ArmedInv, Awaited, Waiting
<1>6. ReapInv'
  <2>1. TimedDone' = FALSE
    BY <1>1 DEF TimedDone, Awaited, Waiting
  <2>2. NothingDone'
    BY NothingDoneYet, PTL
  <2>3. Done' = {}
    BY <1>1, <2>1, <2>2 DEF NothingDone, Done, Upto
  <2> QED BY <1>1, <2>3 DEF ReapInv, Relevant
<1>7. PairInv'
  BY <1>1 DEF IInv, PairInv
<1>8. PastInv'
  <2>1. pc \in Live /\ round \in Nat /\ batch \in Nat
    BY <1>1 DEF Live, IInv, PlaceInv
  <2>2. ASSUME NEW t, Past(t) PROVE Past(t)'
    BY <1>1, <2>1, <2>2 DEF Past, Issued, Awaited, Waiting
  <2> QED BY <1>1, <2>1, <2>2 DEF IInv, PastInv
<1>9. PendingInv'
  BY <1>1 DEF PendingInv
<1> QED BY <1>3, <1>4, <1>5, <1>6, <1>7, <1>8, <1>9 DEF IInv

\* Whatever the kernel does, or a signal: a completion is of a request armed or
\* completed before, and a fault makes none pass for a success.
LEMMA KernelKeeps ==
    ASSUME IInv, UNCHANGED <<run, pc, stage, round, batch, result, copy, histVars>>,
           stop_requested' \in BOOLEAN, stop_requested => stop_requested',
           armed' \subseteq armed,
           \A c \in posting' \cup DOMAIN cq' :
              \/ c \in posting \cup DOMAIN cq
              \/ /\ c = <<c[1], c[2]>> /\ c[2] \notin {"0", "all"}
                 /\ c[1] \in armed \/ \E d \in posting \cup DOMAIN cq : d[1] = c[1]
    PROVE  IInv'
<1>1. profile' = profile /\ Polls' = Polls /\ Decoys' = Decoys /\ Spared' = Spared
  BY SameTags
<1>2. TypesInv'
  BY <1>1, Zenon DEF IInv, TypesInv, histVars
<1>3. PlaceInv'
  BY <1>1 DEF IInv, PlaceInv
<1>4. ArmedInv'
  BY <1>1 DEF IInv, ArmedInv
<1>5. ReapInv'
  BY ReapSame DEF IInv, histVars
<1>6. PairInv'
  BY DEF IInv, PairInv
<1>7. PastInv'
  <2> SUFFICES ASSUME pc \in Live, profile # "p0_prep", NEW c \in posting' \cup DOMAIN cq'
               PROVE  Past(c[1])'
    BY <1>1 DEF PastInv
  <2>1. \A d \in posting \cup DOMAIN cq : Past(d[1])
    BY DEF IInv, PastInv
  <2>2. Past(c[1])
    <3>1. CASE c[1] \in armed
      <4>1. pc \in Awaited \cup {"prove", "cancel", "cleanup"} /\ c[1] \in Polls \cup Decoys
        BY <3>1 DEF IInv, TypesInv, ArmedInv, Live, Awaited, Spared
      <4>2. /\ c[1][1] \in {"poll", "decoy"} /\ c[1][2] = round /\ c[1][3] = batch
            /\ round \in Nat /\ batch \in Nat
        BY <4>1, TargetsOfBatch DEF IInv, PlaceInv
      <4>3. {"poll", "decoy"} \subseteq Issued
        BY <4>1 DEF Issued, Awaited, Waiting, IInv, TypesInv
      <4> QED BY <4>2, <4>3 DEF Past
    <3>2. CASE c[1] \notin armed
      BY <2>1, <3>2
    <3> QED BY <3>1, <3>2
  <2>3. Issued' = Issued
    BY DEF Issued
  <2> QED BY <2>2, <2>3 DEF Past
<1>8. PendingInv'
  <2>1. \A t : \A res \in {"0", "all"} : Missing(t, res) => Missing(t, res)'
    BY DEF Missing
  <2>2. make_tag("bulk", round, batch, 0)' = make_tag("bulk", round, batch, 0)
        /\ \A k, n : Tags(k, n)' = Tags(k, n)
    BY SameTags
  <2> QED BY <1>1, <2>1, <2>2 DEF IInv, PendingInv, histVars
<1> QED BY <1>2, <1>3, <1>4, <1>5, <1>6, <1>7, <1>8 DEF IInv

LEMMA CqGains == ASSUME NEW c, cq' = cq (+) SetToBag({c}) PROVE DOMAIN cq' = DOMAIN cq \cup {c}
  BY DEF (+), SetToBag

LEMMA KernelPostKeeps == ASSUME NEW c \in posting PROVE IInv /\ KernelPost(c) => IInv'
<1> SUFFICES ASSUME IInv, KernelPost(c) PROVE IInv'
  OBVIOUS
<1>1. /\ posting' = posting \ {c} /\ cq' = cq (+) SetToBag({c})
      /\ UNCHANGED <<run, pc, stage, round, batch, stop_requested, result, copy, histVars,
                     armed>>
  BY DEF KernelPost, progVars
<1>2. stop_requested' \in BOOLEAN
  BY <1>1 DEF IInv, TypesInv
<1>3. DOMAIN cq' = DOMAIN cq \cup {c}
  BY <1>1, CqGains
<1> QED BY <1>1, <1>2, <1>3, KernelKeeps

LEMMA KernelFaultKeeps == IInv /\ KernelFault => IInv'
<1> SUFFICES ASSUME IInv, KernelFault PROVE IInv'
  OBVIOUS
<1>1. UNCHANGED <<run, pc, stage, round, batch, stop_requested, result, copy, histVars>>
  BY DEF KernelFault, progVars
<1>2. stop_requested' \in BOOLEAN
  BY <1>1 DEF IInv, TypesInv
<1>3. CASE \E c \in posting : cq' = cq (+) SetToBag({c}) /\ UNCHANGED <<armed, posting>>
  <2>1. PICK c \in posting : cq' = cq (+) SetToBag({c}) /\ UNCHANGED <<armed, posting>>
    BY <1>3
  <2>2. DOMAIN cq' = DOMAIN cq \cup {c}
    BY <2>1, CqGains
  <2> QED BY <1>1, <1>2, <2>1, <2>2, KernelKeeps
<1>4. CASE \E c \in posting : posting' = posting \ {c} /\ UNCHANGED <<armed, cq>>
  BY <1>1, <1>2, <1>4, KernelKeeps
<1>5. CASE \E c \in posting : /\ posting' = (posting \ {c}) \cup {<<c[1], "other">>}
                              /\ UNCHANGED <<armed, cq>>
  BY <1>1, <1>2, <1>5, KernelKeeps
<1>6. CASE \E t \in armed : /\ armed' = armed \ {t}
                            /\ posting' = posting \cup {<<t, "POLLIN">>}
                            /\ UNCHANGED cq
  BY <1>1, <1>2, <1>6, KernelKeeps
<1> QED BY <1>3, <1>4, <1>5, <1>6 DEF KernelFault

LEMMA SignalKeeps == IInv /\ Signal => IInv'
<1> SUFFICES ASSUME IInv, Signal PROVE IInv'
  OBVIOUS
<1> QED BY KernelKeeps DEF Signal, kernVars

-----------------------------------------------------------------------------
(* The results                                                             *)

LEMMA Starts == Init => IInv
<1> SUFFICES ASSUME Init PROVE IInv
  OBVIOUS
<1>1. profile \in AllProfiles
  BY CancelAssumption DEF Init, profile
<1>2. "errors" \in DOMAIN ZeroResult /\ ZeroResult.errors = 0 /\ ZeroResult.errors \in Nat
  BY DEF ZeroResult
<1>3. TypesInv
  BY <1>1, <1>2, Zenon DEF Init, TypesInv, Live
<1>4. PlaceInv
  BY CancelAssumption DEF Init, PlaceInv, Awaited, Waiting
<1>5. ArmedInv
  BY DEF Init, ArmedInv, Awaited, Waiting
<1>6. ReapInv
  <2>1. Done = Upto(0, FALSE)
    BY DEF Init, Done, Upto, TimedDone, Awaited, Waiting
  <2> QED BY <2>1, NothingDoneYet DEF NothingDone, Init, ReapInv, Relevant
<1>7. DOMAIN EmptyBag = {}
  BY DEF EmptyBag, SetToBag
<1>8. PairInv /\ PastInv
  BY <1>7 DEF Init, PairInv, PastInv
<1>9. PendingInv
  BY DEF Init, PendingInv
<1> QED BY <1>3, <1>4, <1>5, <1>6, <1>8, <1>9 DEF IInv

LEMMA Inductive == IInv /\ [Next]_vars => IInv'
<1> SUFFICES ASSUME IInv, [Next]_vars PROVE IInv'
  OBVIOUS
<1>1. CASE Program
  BY <1>1, ArmKeeps, ProvePendingKeeps, CancelKeyedKeeps, CancelFdAllKeeps, SyncCancelKeeps,
     PrepCancelKeeps, WaitsKeep, CopyKeeps, DiscardKeeps, ValidateKeyedKeeps,
     ValidateFdAllKeeps, ValidateSyncKeeps, ValidatePrepKeeps, CleanupTargetKeeps,
     ValidateCleanupTargetKeeps, CleanupDecoysKeeps, ValidateCleanupDecoysKeeps,
     LoopEndsKeeps, JudgeKeeps, WriteKeeps, NextRoundKeeps, ExitKeeps DEF Program
<1>2. CASE \E c \in posting : KernelPost(c)
  BY <1>2, KernelPostKeeps
<1>3. CASE UNCHANGED vars
  <2>1. stop_requested' \in BOOLEAN
    BY <1>3 DEF IInv, TypesInv, vars, progVars
  <2> QED BY <1>3, <2>1, KernelKeeps DEF vars, progVars, kernVars
<1>4. CASE Exited
  BY <1>3, <1>4 DEF Exited
<1> QED BY <1>1, <1>2, <1>3, <1>4, KernelFaultKeeps, SubmitFailsKeeps, SignalKeeps DEF Next

THEOREM Invariance == Spec => []IInv
BY Starts, Inductive, PTL DEF Spec

\* No batch and no judgement of a round finds a request of an earlier batch still
\* armed, whatever failed before (the cleanups of validate_keyed, run_f0_round).
THEOREM CleanStarts == Spec => []StartsClean
<1>1. IInv => StartsClean
  BY DEF IInv, ArmedInv, StartsClean
<1> QED BY <1>1, Invariance, PTL

LEMMA WriteComplete == IInv /\ pc = "write" /\ profile # "p0_prep" => RowComplete
<1> SUFFICES ASSUME IInv, pc = "write", profile # "p0_prep" PROVE RowComplete
  OBVIOUS
<1>1. batch = BATCHES /\ result.errors = 0 /\ PlaceInv
  BY DEF IInv, PlaceInv
<1>2. Done = WantedOfRound
  <2>1. ~TimedDone
    BY DEF TimedDone, Awaited, Waiting
  <2>2. Done = Upto(BATCHES, FALSE)
    BY <1>1, <2>1 DEF Done, Upto
  <2> QED BY <1>1, <2>2, UptoGrows
<1>3. Relevant(reaped) = Done /\ \A t \in again : OfCleanupTarget(t)
  BY <1>1 DEF IInv, ReapInv, Live
<1> QED BY <1>2, <1>3 DEF RowComplete, Relevant

\* A row is written only for a round of which every request was reaped, once, with
\* the result it has to have, whatever the kernel lost, doubled or got wrong.
THEOREM RowsComplete == Spec => [](pc = "write" /\ profile # "p0_prep" => RowComplete)
BY Invariance, WriteComplete, PTL

\* And the polls of all of its batches were pending as their timed regions began.
\* For a0_miss that takes the bound on the faults of the run: cleanup_target asks
\* neither for duplicates nor for completeness, so that three faults can hide from
\* it that a poll completed before its batch was timed.
THEOREM RowsSound == Spec => [](profile # "a0_miss" => RowSound)
<1>1. IInv => (profile # "a0_miss" => RowSound)
  <2> SUFFICES ASSUME IInv, profile # "a0_miss", pc = "write", profile # "p0_prep"
               PROVE  RowComplete /\ trulyPending
    BY DEF RowSound
  <2>1. trulyPending
    BY DEF IInv, TypesInv, PendingInv
  <2> QED BY <2>1, WriteComplete
<1> QED BY <1>1, Invariance, PTL
=============================================================================
