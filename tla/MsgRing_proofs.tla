--------------------------- MODULE MsgRing_proofs ---------------------------
(***************************************************************************)
(* For any size of batch and round and any number of kernel faults: a      *)
(* passing row is earned and its slots hold the file, the exit status is   *)
(* honest, and a kernel without faults leaves nothing to the next round.   *)
(***************************************************************************)
EXTENDS MsgRing, FiniteSetTheorems, TLAPS

InData == {"batch", "source", "target", "reap"}
InCall == InData \cup {"flush", "verdict", "verify", "reads", "out"}
Running == InCall \cup {"setup", "call"}

\* Where the process is, by profile and batch.
PlaceInv ==
    /\ run \in AllRuns /\ pc \in Running \cup {"cleanup", "exited"}
    /\ call \in 0..Calls - 1 /\ batch \in Nat /\ (pc \in InCall => batch <= Batches)
    /\ pc \in {"source", "target", "reap", "reads"} => batch < Batches
    /\ pc \in {"flush", "verdict"} => batch = Batches /\ profile # "f0"
    /\ pc \in {"target", "flush"} => profile = "r0"
    /\ pc \in {"verify", "reads", "out"} => profile = "f0"

-----------------------------------------------------------------------------
(* Rows and resources                                                      *)

RowsDue == IF mode = "smoke" THEN 1 ELSE MEASURED_ROUNDS

ExitInv ==
    /\ rows \in Seq(BOOLEAN) /\ ret \in BOOLEAN /\ exitOk \in BOOLEAN
    /\ pc \in Running =>
          /\ \A k \in 1..Len(rows) : rows[k]
          /\ Len(rows) = IF mode = "point" /\ call > WARMUP_ROUNDS
                           THEN call - WARMUP_ROUNDS - 1 ELSE 0
    /\ pc \in Running \ {"out"} => ret
    /\ \A k \in 1..Len(rows) - 1 : rows[k]
    /\ (pc = "cleanup" /\ ret) \/ exitOk =>
          Len(rows) = RowsDue /\ \A k \in 1..Len(rows) : rows[k]
    /\ exitOk => pc = "exited"

\* Clean-up goes by flags; they know of all there is, but for a table that could
\* not be unregistered.
OwnedInv ==
    /\ held \subseteq {"source", "target", "memfd"}
    /\ registered \subseteq {"source", "target"} /\ (profile # "f0" => registered = {})
    /\ pc = "setup" => held = {} /\ registered = {} /\ flags = {}
    /\ profile # "f0" /\ "target" \in held => "target_initialized" \in flags
    /\ profile = "f0" /\ "target" \in held => pc \in InCall
    /\ "source" \in registered /\ pc # "exited" => "source_files_registered" \in flags
    /\ "target" \in registered => ~ret \/ (pc \in InCall /\ "target_registered" \in flags)
    /\ pc = "exited" => held = {} /\ (exitOk => registered = {})

-----------------------------------------------------------------------------
(* What was read                                                           *)

\* Messages are counted in whole batches.
End(b) == b * QD
Keys(tag, b) == {<<tag, s>> : s \in 0..End(b) - 1}

Triple(c) == c = <<c[1], c[2], c[3]>>
Key(c) == <<c[1], c[2]>>
IsBag(B) == B = [c \in DOMAIN B |-> B[c]]

BagsInv ==
    /\ cq = [source |-> cq.source, target |-> cq.target]
    /\ IsBag(posting) /\ IsBag(cq.source) /\ IsBag(cq.target)
    /\ \A c \in DOMAIN posting \cup DOMAIN late \cup DOMAIN cq.source \cup DOMAIN cq.target :
          Triple(c)

FlagsInv ==
    /\ {"missing", "errors"} \subseteq DOMAIN result
    /\ result.missing \in BOOLEAN /\ result.errors \in BOOLEAN

Clean == ~result.missing /\ ~result.errors

\* The messages whose CQEs have been drained.
Drained ==
    CASE pc \in {"target", "reap"} -> Keys("source", batch + 1) \cup Keys("target", batch)
      [] pc \in {"verify", "reads"} ->
            Keys("source", Batches) \cup Keys("target", Batches) \cup Keys("verify", batch)
      [] pc = "out" ->
            Keys("source", Batches) \cup Keys("target", Batches) \cup Keys("verify", Batches)
      [] OTHER -> Keys("source", batch) \cup Keys("target", batch)

\* R holds each of these messages once, with a right result, and nothing else.
OnceEach(R, keys) ==
    /\ R = [c \in DOMAIN R |-> 1]
    /\ \A c \in DOMAIN R : Triple(c) /\ Key(c) \in keys /\ Good(c)
    /\ \A k \in keys : \E c \in DOMAIN R : Key(c) = k
    /\ \A c, d \in DOMAIN R : Key(c) = Key(d) => c = d

\* The two sides of an f0 message name the same slot, and the bitmap has it.
SlotInv ==
    /\ pc \in {"target", "reap"} =>
          sourceOk = {c \in DOMAIN reaped : c[1] = "source" /\ c[2] \in Window}
    /\ \A c \in DOMAIN reaped : c[1] = "target" => <<"source", c[2], c[3]>> \in DOMAIN reaped
    /\ slot_bitmap = {c[3] : c \in {d \in DOMAIN reaped : d[1] = "target"}}
    /\ pc \in {"verify", "reads", "out"} => slot_bitmap = Slots

\* A round with no error so far has read what it has drained.
ReadInv ==
    Clean /\ pc \in InCall /\ ret =>
        ~strayed /\ OnceEach(reaped, Drained) /\ (profile = "f0" => SlotInv)

\* The slots that were read hold the file.
TableInv ==
    Clean /\ ret =>
        /\ pc \in {"verify", "reads"} => \A s \in 0..End(batch) - 1 : table[s] = "sentinel"
        /\ pc = "out" => \A s \in Slots : table[s] = "sentinel"

-----------------------------------------------------------------------------
(* A kernel without faults                                                 *)

InFlight == DOMAIN posting \cup DOMAIN cq.source \cup DOMAIN cq.target

Submitted ==
    CASE pc \in {"setup", "call"} -> {}
      [] pc \in {"source", "target", "reap"} ->
            Keys("source", batch + 1) \cup Keys("target", batch + 1)
      [] pc = "verify" ->
            Keys("source", Batches) \cup Keys("target", Batches) \cup Keys("verify", batch)
      [] pc = "reads" ->
            Keys("source", Batches) \cup Keys("target", Batches) \cup Keys("verify", batch + 1)
      [] pc = "out" ->
            Keys("source", Batches) \cup Keys("target", Batches) \cup Keys("verify", Batches)
      [] OTHER -> Keys("source", batch) \cup Keys("target", batch)

\* A completion is on its way, or in its ring, ...
PathInv ==
    /\ DOMAIN late = {}
    /\ \A c \in DOMAIN posting : posting[c] = 1
    /\ DOMAIN posting \cap (DOMAIN cq.source \cup DOMAIN cq.target) = {}
    /\ \A c \in DOMAIN cq.source : c[1] = "source"
    /\ \A c \in DOMAIN cq.target : c[1] # "source"
    /\ \A c, d \in InFlight : Key(c) = Key(d) => c = d

\* ... or was read.
KeysInv ==
    /\ \A c \in InFlight : Key(c) \in Submitted
    /\ pc \in InCall => \A c \in DOMAIN reaped : Key(c) \in Submitted
    /\ pc \in InCall => \A c \in InFlight, d \in DOMAIN reaped : Key(c) # Key(d)

FlightInv == faults \in Nat /\ (pc \in Running /\ faults = 0 => PathInv /\ KeysInv)

IInv == PlaceInv /\ ExitInv /\ OwnedInv /\ BagsInv /\ FlagsInv /\ ReadInv /\ TableInv /\ FlightInv

-----------------------------------------------------------------------------
(* Rows, resources and places                                              *)

ControlInv == PlaceInv /\ ExitInv /\ OwnedInv

LEMMA ModeIs == PlaceInv => mode \in {"smoke", "point"} /\ profile \in {"d0", "r0", "f0"}
BY DEF PlaceInv, AllRuns, mode, profile

LEMMA SameRun ==
    ASSUME UNCHANGED run
    PROVE  profile' = profile /\ mode' = mode /\ slow' = slow
BY DEF profile, mode, slow

LEMMA SameCall ==
    ASSUME UNCHANGED <<run, call>>
    PROVE  Calls' = Calls /\ Batches' = Batches /\ operations' = operations /\ Slots' = Slots
BY SameRun DEF Calls, Batches, operations, Slots

\* A step that ends nothing.
LEMMA ControlKept ==
    ASSUME ControlInv, UNCHANGED <<run, runVars, registered, held>>, PlaceInv',
           pc' \in InCall, pc \in InCall \ {"out"}
    PROVE  ControlInv'
<1>1. profile' = profile /\ mode' = mode
  BY SameRun
<1>2. ExitInv'
  BY <1>1 DEF ControlInv, ExitInv, runVars, InCall, InData, Running, RowsDue
<1>3. OwnedInv'
  BY <1>1 DEF ControlInv, OwnedInv, runVars, InCall, InData
<1> QED BY <1>2, <1>3 DEF ControlInv

LEMMA ControlSame ==
    ASSUME ControlInv, UNCHANGED <<run, pc, batch, runVars, registered, held>>
    PROVE  ControlInv'
<1>1. profile' = profile /\ mode' = mode /\ Calls' = Calls /\ Batches' = Batches
  BY SameRun, SameCall DEF runVars
<1>2. PlaceInv'
  BY <1>1 DEF ControlInv, PlaceInv, runVars
<1>3. ExitInv'
  BY <1>1 DEF ControlInv, ExitInv, runVars, RowsDue
<1>4. OwnedInv'
  BY <1>1 DEF ControlInv, OwnedInv, runVars
<1> QED BY <1>2, <1>3, <1>4 DEF ControlInv

\* execute_once returns: the rows stay in step with the calls.
LEMMA ReturnRows ==
    ASSUME PlaceInv, ExitInv, pc \in InCall, NEW pass \in BOOLEAN, ReturnFrom(pass)
    PROVE  ExitInv'
<1>1. /\ mode \in {"smoke", "point"} /\ mode' = mode /\ RowsDue' = RowsDue
      /\ call \in Nat /\ Calls = IF mode = "smoke" THEN 1 ELSE 1 + WARMUP_ROUNDS + MEASURED_ROUNDS
      /\ Calls \in Nat /\ call < Calls
      /\ WARMUP_ROUNDS \in Nat /\ MEASURED_ROUNDS \in Nat /\ MEASURED_ROUNDS > 0
  BY ModeIs, SameRun, MsgRingAssumption DEF PlaceInv, ReturnFrom, RowsDue, Calls
<1>2. /\ rows \in Seq(BOOLEAN) /\ \A k \in 1..Len(rows) : rows[k]
      /\ Len(rows) = IF mode = "point" /\ call > WARMUP_ROUNDS
                       THEN call - WARMUP_ROUNDS - 1 ELSE 0
      /\ ~exitOk /\ exitOk' = exitOk
  BY DEF ExitInv, InCall, InData, Running, ReturnFrom
<1>3. /\ Append(rows, pass) \in Seq(BOOLEAN)
      /\ Len(Append(rows, pass)) = Len(rows) + 1 /\ Len(rows) \in Nat
      /\ \A k \in 1..Len(rows) : Append(rows, pass)[k]
      /\ Append(rows, pass)[Len(rows) + 1] = pass
  BY <1>2
<1>4. /\ rows' \in Seq(BOOLEAN) /\ Len(rows') \in Nat
      /\ \A k \in 1..Len(rows') - 1 : rows'[k]
      /\ pass => \A k \in 1..Len(rows') : rows'[k]
      /\ Len(rows') = IF mode = "smoke" THEN 1
                      ELSE IF call > WARMUP_ROUNDS THEN call - WARMUP_ROUNDS ELSE 0
  <2>1. CASE Emits
    <3>1. rows' = Append(rows, pass)
      BY <2>1 DEF ReturnFrom
    <3>2. Len(rows') = Len(rows) + 1
      BY <1>3, <3>1
    <3>3. Len(rows') = IF mode = "smoke" THEN 1
                       ELSE IF call > WARMUP_ROUNDS THEN call - WARMUP_ROUNDS ELSE 0
      BY <1>1, <1>2, <2>1, <3>2 DEF Emits
    <3>4. pass => \A k \in 1..Len(rows) + 1 : Append(rows, pass)[k]
      BY <1>3
    <3> QED BY <1>3, <3>1, <3>2, <3>3, <3>4
  <2>2. CASE ~Emits
    <3>1. rows' = rows /\ mode = "point" /\ ~(call > WARMUP_ROUNDS)
      BY <1>1, <2>2 DEF ReturnFrom, Emits
    <3> QED BY <1>1, <1>2, <3>1
  <2> QED BY <2>1, <2>2
<1>5. ret' = pass
  BY DEF ReturnFrom
<1>6. CASE Continues(pass)
  <2>1. call' = call + 1 /\ pc' = "call" /\ pass /\ call + 1 < Calls
    BY <1>6 DEF ReturnFrom, Continues
  <2>2. mode = "point"
    BY <1>1, <2>1
  <2>3. Len(rows') = IF call' > WARMUP_ROUNDS THEN call' - WARMUP_ROUNDS - 1 ELSE 0
    BY <1>1, <1>4, <2>1, <2>2
  <2> QED BY <1>1, <1>2, <1>4, <1>5, <2>1, <2>2, <2>3 DEF ExitInv, Running, InCall, InData
<1>7. CASE ~Continues(pass)
  <2>1. pc' = "cleanup" /\ call' = call
    BY <1>7 DEF ReturnFrom
  <2>2. pass => Len(rows') = RowsDue
    BY <1>1, <1>4, <1>7 DEF Continues, RowsDue
  <2> QED BY <1>1, <1>2, <1>4, <1>5, <2>1, <2>2 DEF ExitInv, Running, InCall, InData
<1> QED BY <1>6, <1>7

LEMMA ReturnPlace ==
    ASSUME PlaceInv, pc \in InCall, NEW pass, ReturnFrom(pass), batch' = batch
    PROVE  PlaceInv' /\ pc' \in {"call", "cleanup"} /\ profile' = profile /\ ret' = pass
<1>1. run' = run /\ mode' = mode /\ profile' = profile /\ Calls' = Calls
  BY SameRun DEF ReturnFrom, Calls
<1>2. /\ pc' \in {"call", "cleanup"} /\ ret' = pass
      /\ call' \in 0..Calls - 1
  <2>1. CASE Continues(pass)
    <3>1. call' = call + 1 /\ pc' = "call" /\ ret' = pass /\ call + 1 < Calls
      BY <2>1 DEF ReturnFrom, Continues
    <3>2. call \in Nat /\ Calls \in Nat
      BY MsgRingAssumption DEF PlaceInv, Calls
    <3> QED BY <3>1, <3>2
  <2>2. CASE ~Continues(pass)
    BY <2>2 DEF ReturnFrom, PlaceInv
  <2> QED BY <2>1, <2>2
<1> QED BY <1>1, <1>2 DEF PlaceInv, InCall, InData, Running

LEMMA KernelControl ==
    ControlInv /\ (KernelPost \/ KernelPostLate \/ KernelFault \/ Exited) => ControlInv'
<1> SUFFICES ASSUME ControlInv, KernelPost \/ KernelPostLate \/ KernelFault \/ Exited
             PROVE  ControlInv'
  OBVIOUS
<1>1. UNCHANGED <<run, pc, batch, runVars, registered, held>>
  BY DEF KernelPost, KernelPostLate, KernelFault, Exited, callVars, vars, kernVars
<1> QED BY <1>1, ControlSame

LEMMA SetupControl == ControlInv /\ Setup => ControlInv'
<1> SUFFICES ASSUME ControlInv, Setup PROVE ControlInv'
  OBVIOUS
<1>1. /\ pc = "setup" /\ pc' = "call" /\ UNCHANGED <<run, call, batch, ret, rows, exitOk>>
      /\ \/ /\ profile # "f0" /\ held' = {"source", "target"} /\ flags' = {"target_initialized"}
            /\ UNCHANGED registered
         \/ /\ profile = "f0" /\ held' = {"source", "memfd"}
            /\ flags' = {"source_files_registered"} /\ registered' = {"source"}
  BY DEF Setup, SetupData, SetupSentinel, callVars
<1>2. profile' = profile /\ mode' = mode /\ Calls' = Calls /\ Batches' = Batches
  BY <1>1, SameRun, SameCall
<1>3. PlaceInv'
  BY <1>1, <1>2 DEF ControlInv, PlaceInv, Running, InCall, InData
<1>4. ExitInv'
  BY <1>1, <1>2 DEF ControlInv, ExitInv, RowsDue, Running, InCall, InData
<1>5. OwnedInv'
  BY <1>1, <1>2 DEF ControlInv, OwnedInv, InCall, InData
<1> QED BY <1>3, <1>4, <1>5 DEF ControlInv

LEMMA SetupFailsControl == ControlInv /\ SetupFails => ControlInv'
<1> SUFFICES ASSUME ControlInv, SetupFails PROVE ControlInv'
  OBVIOUS
<1>1. /\ pc = "setup" /\ pc' = "cleanup" /\ UNCHANGED <<run, call, batch, flags, rows, exitOk>>
      /\ ret' = FALSE /\ UNCHANGED registered
      /\ held' \subseteq {"source", "memfd"}
  BY DEF SetupFails, callVars
<1>2. profile' = profile /\ mode' = mode /\ Calls' = Calls /\ Batches' = Batches
  BY <1>1, SameRun, SameCall
<1>3. PlaceInv'
  BY <1>1, <1>2 DEF ControlInv, PlaceInv, Running, InCall, InData
<1>4. ExitInv'
  BY <1>1, <1>2 DEF ControlInv, ExitInv, RowsDue, Running, InCall, InData
<1>5. OwnedInv'
  BY <1>1, <1>2 DEF ControlInv, OwnedInv, InCall, InData
<1> QED BY <1>3, <1>4, <1>5 DEF ControlInv

LEMMA BeginControl == ControlInv /\ (BeginData \/ OpenTarget \/ OpenTargetFails) => ControlInv'
<1> SUFFICES ASSUME ControlInv, BeginData \/ OpenTarget \/ OpenTargetFails PROVE ControlInv'
  OBVIOUS
<1>1. /\ pc = "call" /\ batch' = 0 /\ UNCHANGED <<run, call, rows, exitOk>>
      /\ \/ /\ pc' = "batch" /\ profile # "f0" /\ UNCHANGED <<ret, flags, registered, held>>
         \/ /\ pc' = "batch" /\ profile = "f0" /\ UNCHANGED ret
            /\ held' = held \cup {"target"} /\ registered' = registered \cup {"target"}
            /\ flags' = flags \cup {"target_registered"}
         \/ /\ pc' = "out" /\ profile = "f0" /\ ret' = FALSE
            /\ held' \in {held, held \cup {"target"}} /\ UNCHANGED <<flags, registered>>
  BY DEF BeginData, OpenTarget, OpenTargetFails, NewCall, runVars, kernVars
<1>2. profile' = profile /\ mode' = mode /\ Calls' = Calls /\ Batches' = Batches
  BY <1>1, SameRun, SameCall
<1>3. PlaceInv'
  <2>1. Batches \in Nat /\ 0 < Batches
    BY MsgRingAssumption DEF Batches
  <2> QED BY <1>1, <1>2, <2>1 DEF ControlInv, PlaceInv, Running, InCall, InData
<1>4. ExitInv'
  BY <1>1, <1>2 DEF ControlInv, ExitInv, RowsDue, Running, InCall, InData
<1>5. OwnedInv'
  BY <1>1, <1>2 DEF ControlInv, OwnedInv, InCall, InData
<1> QED BY <1>3, <1>4, <1>5 DEF ControlInv

\* The steps of a round that only move on.
LEMMA RoundControl ==
    ControlInv /\ (\/ SubmitBatch \/ DrainSource \/ EnterTarget \/ DrainTarget \/ EndData
                   \/ FlushTarget \/ EndSendFd \/ SubmitReads \/ DrainReads \/ Verified)
      => ControlInv'
<1> SUFFICES ASSUME ControlInv,
                    \/ SubmitBatch \/ DrainSource \/ EnterTarget \/ DrainTarget \/ EndData
                    \/ FlushTarget \/ EndSendFd \/ SubmitReads \/ DrainReads \/ Verified
             PROVE  ControlInv'
  OBVIOUS
<1>1. /\ UNCHANGED <<run, runVars, call, registered, held>>
      /\ \/ pc = "batch" /\ pc' = "source" /\ batch' = batch /\ batch < Batches
         \/ pc = "source" /\ pc' = "target" /\ batch' = batch /\ profile = "r0"
         \/ pc = "source" /\ pc' = "reap" /\ batch' = batch
         \/ pc = "target" /\ pc' = "reap" /\ batch' = batch
         \/ pc = "reap" /\ pc' = "batch" /\ batch' = batch + 1
         \/ pc = "batch" /\ pc' = "flush" /\ batch' = batch /\ batch = Batches /\ profile = "r0"
         \/ /\ pc = "batch" /\ pc' = "verdict" /\ batch' = batch /\ batch = Batches
            /\ profile # "f0"
         \/ pc = "flush" /\ pc' = "verdict" /\ batch' = batch
         \/ pc = "batch" /\ pc' \in {"verify", "out"} /\ batch' = 0 /\ profile = "f0"
         \/ pc = "verify" /\ pc' = "reads" /\ batch' = batch /\ batch < Batches
         \/ pc = "reads" /\ pc' = "verify" /\ batch' = batch + 1
         \/ pc = "verify" /\ pc' = "out" /\ batch' = batch
  BY DEF SubmitBatch, DrainSource, EnterTarget, DrainTarget, EndData, FlushTarget, EndSendFd,
         SubmitReads, DrainReads, Verified, AfterSource, runVars, callVars, kernVars
<1>2. profile' = profile /\ Calls' = Calls /\ Batches' = Batches
  BY <1>1, SameRun, SameCall
<1>3. Batches \in Nat
  BY MsgRingAssumption DEF Batches
<1>4. PlaceInv'
  BY <1>1, <1>2, <1>3 DEF ControlInv, PlaceInv, Running, InCall, InData
<1>5. pc' \in InCall /\ pc \in InCall \ {"out"}
  BY <1>1 DEF InCall, InData
<1> QED BY <1>1, <1>4, <1>5, ControlKept

LEMMA AbortControl == ControlInv /\ (SubmitFails \/ TargetTimesOut) => ControlInv'
<1> SUFFICES ASSUME ControlInv, SubmitFails \/ TargetTimesOut PROVE ControlInv'
  OBVIOUS
<1>1. /\ pc \in InCall \ {"out"} /\ Abort /\ batch' = batch
      /\ UNCHANGED <<flags, registered, held>>
  BY DEF SubmitFails, TargetTimesOut, InCall, InData, callVars, kernVars
<1>2. CASE profile # "f0" /\ ReturnFrom(FALSE)
  <2>1. PlaceInv' /\ pc' \in {"call", "cleanup"} /\ profile' = profile /\ ret' = FALSE
    BY <1>1, <1>2, ReturnPlace DEF ControlInv
  <2>2. ExitInv'
    BY <1>1, <1>2, ReturnRows DEF ControlInv
  <2>3. OwnedInv'
    BY <1>1, <1>2, <2>1 DEF ControlInv, OwnedInv, InCall, InData
  <2> QED BY <2>1, <2>2, <2>3 DEF ControlInv
<1>3. CASE /\ profile = "f0" /\ pc' = "out" /\ ret' = FALSE
           /\ UNCHANGED <<run, call, rows, exitOk>>
  <2>1. profile' = profile /\ mode' = mode /\ Calls' = Calls /\ Batches' = Batches
    BY <1>3, SameRun, SameCall
  <2>2. PlaceInv'
    BY <1>1, <1>3, <2>1 DEF ControlInv, PlaceInv, Running, InCall, InData
  <2>3. ExitInv'
    BY <1>1, <1>3, <2>1 DEF ControlInv, ExitInv, RowsDue, Running, InCall, InData
  <2>4. OwnedInv'
    BY <1>1, <1>3, <2>1 DEF ControlInv, OwnedInv, InCall, InData
  <2> QED BY <2>2, <2>3, <2>4 DEF ControlInv
<1> QED BY <1>1, <1>2, <1>3 DEF Abort

LEMMA VerdictControl == ControlInv /\ Verdict => ControlInv'
<1> SUFFICES ASSUME ControlInv, Verdict PROVE ControlInv'
  OBVIOUS
<1>1. /\ pc = "verdict" /\ pc \in InCall /\ ReturnFrom(SemanticPass) /\ batch' = batch
      /\ UNCHANGED <<flags, registered, held>> /\ profile # "f0"
  BY DEF Verdict, InCall, InData, callVars, kernVars, ControlInv, PlaceInv
<1>2. SemanticPass \in BOOLEAN
  BY DEF SemanticPass
<1>3. PlaceInv' /\ pc' \in {"call", "cleanup"} /\ profile' = profile
  BY <1>1, <1>2, ReturnPlace DEF ControlInv
<1>4. ExitInv'
  BY <1>1, <1>2, ReturnRows DEF ControlInv
<1>5. OwnedInv'
  <2>1. "target" \notin registered
    BY <1>1 DEF ControlInv, OwnedInv
  <2> QED BY <1>1, <1>3 DEF ControlInv, OwnedInv, InCall, InData
<1> QED BY <1>3, <1>4, <1>5 DEF ControlInv

LEMMA OutControl == ControlInv /\ Out => ControlInv'
<1> SUFFICES ASSUME ControlInv, Out PROVE ControlInv'
  OBVIOUS
<1> DEFINE known == "target_registered" \in flags
<1>1. /\ pc = "out" /\ pc \in InCall /\ profile = "f0" /\ batch' = batch
      /\ flags' = flags \ {"target_registered"} /\ held' = held \ {"target"}
  BY DEF Out, InCall, InData, callVars, ControlInv, PlaceInv
<1>2. PICK ok \in IF known THEN UnregisterOutcomes("target") ELSE {TRUE} :
         /\ IF known THEN Unregister("target", ok) ELSE UNCHANGED <<registered, faults>>
         /\ ReturnFrom(ret /\ ok /\ SemanticPass)
  BY DEF Out
<1>3. ok \in BOOLEAN
  BY <1>2 DEF UnregisterOutcomes
<1>4. (ret /\ ok /\ SemanticPass) \in BOOLEAN
  OBVIOUS
<1>5. /\ PlaceInv' /\ pc' \in {"call", "cleanup"} /\ profile' = profile
      /\ ret' = (ret /\ ok /\ SemanticPass)
  BY <1>1, <1>2, ReturnPlace DEF ControlInv
<1>6. ExitInv'
  BY <1>1, <1>2, <1>4, ReturnRows DEF ControlInv
<1>7. registered' \subseteq registered /\ ("target" \in registered' => ~ret')
  <2>1. registered' \subseteq registered
    BY <1>2 DEF Unregister
  <2>2. CASE known
    <3>1. ok => "target" \notin registered'
      BY <1>2, <2>2 DEF Unregister
    <3> QED BY <1>5, <2>1, <3>1
  <2>3. CASE ~known
    BY <1>1, <1>2, <1>5, <2>3 DEF ControlInv, OwnedInv
  <2> QED BY <2>1, <2>2, <2>3
<1>8. OwnedInv'
  BY <1>1, <1>5, <1>7 DEF ControlInv, OwnedInv, InCall, InData
<1> QED BY <1>5, <1>6, <1>8 DEF ControlInv

LEMMA CleanupControl == ControlInv /\ Cleanup => ControlInv'
<1> SUFFICES ASSUME ControlInv, Cleanup PROVE ControlInv'
  OBVIOUS
<1> DEFINE known == "source_files_registered" \in flags
<1>1. /\ pc = "cleanup" /\ pc' = "exited" /\ UNCHANGED <<run, call, batch, ret, rows>>
      /\ held' = held \ ({"source", "memfd"}
                    \cup (IF "target_initialized" \in flags THEN {"target"} ELSE {}))
  BY DEF Cleanup, callVars
<1>2. PICK ok \in IF known THEN UnregisterOutcomes("source") ELSE {TRUE} :
         /\ IF known THEN Unregister("source", ok) ELSE UNCHANGED <<registered, faults>>
         /\ exitOk' = (ret /\ ok)
  BY DEF Cleanup
<1>3. ok \in BOOLEAN
  BY <1>2 DEF UnregisterOutcomes
<1>4. profile' = profile /\ mode' = mode /\ Calls' = Calls /\ Batches' = Batches
  BY <1>1, SameRun, SameCall
<1>5. PlaceInv'
  BY <1>1, <1>4 DEF ControlInv, PlaceInv, Running, InCall, InData
<1>6. ExitInv'
  BY <1>1, <1>2, <1>3, <1>4 DEF ControlInv, ExitInv, RowsDue, Running, InCall, InData
<1>7. registered' \subseteq registered
  BY <1>2 DEF Unregister
<1>8. held' = {}
  BY <1>1 DEF ControlInv, OwnedInv, InCall, InData
<1>9. exitOk' => registered' = {}
  <2> SUFFICES ASSUME ret, ok PROVE registered' = {}
    BY <1>2
  <2>1. "target" \notin registered'
    BY <1>1, <1>7 DEF ControlInv, OwnedInv, InCall, InData
  <2>2. "source" \notin registered'
    BY <1>1, <1>2 DEF ControlInv, OwnedInv, Unregister
  <2> QED BY <1>7, <2>1, <2>2 DEF ControlInv, OwnedInv
<1>10. OwnedInv'
  <2>1. "target" \in registered' => ~ret'
    BY <1>1, <1>7 DEF ControlInv, OwnedInv, InCall, InData
  <2> QED BY <1>1, <1>4, <1>7, <1>8, <1>9, <2>1 DEF ControlInv, OwnedInv
<1> QED BY <1>5, <1>6, <1>10 DEF ControlInv

-----------------------------------------------------------------------------
(* Bags                                                                    *)

LEMMA PlusBag ==
    \A A, B : IsBag(A (+) B) /\ DOMAIN (A (+) B) = DOMAIN A \cup DOMAIN B
BY DEF (+), IsBag

LEMMA PlusCounts ==
    ASSUME NEW A, NEW B
    PROVE  /\ DOMAIN A \cap DOMAIN B = {} =>
                 /\ \A c \in DOMAIN A : (A (+) B)[c] = A[c] + 0
                 /\ \A c \in DOMAIN B : (A (+) B)[c] = 0 + B[c]
BY DEF (+), IsBag

LEMMA MinusBag ==
    \A A, B : IsBag(A (-) B) /\ DOMAIN (A (-) B) \subseteq DOMAIN A
BY DEF (-), IsBag

LEMMA MinusCounts ==
    ASSUME NEW A, NEW B
    PROVE  /\ \A c \in DOMAIN A \cap DOMAIN B : A[c] = 1 /\ B[c] = 1 => c \notin DOMAIN (A (-) B)
           /\ \A c \in DOMAIN (A (-) B) \ DOMAIN B : (A (-) B)[c] = A[c]
BY DEF (-), IsBag

LEMMA SetBag ==
    ASSUME NEW S
    PROVE  /\ IsBag(SetToBag(S)) /\ DOMAIN SetToBag(S) = S
           /\ \A c \in S : SetToBag(S)[c] = 1
           /\ SetToBag(S) = [c \in S |-> 1]
BY DEF SetToBag, IsBag

LEMMA NoBag == IsBag(EmptyBag) /\ DOMAIN EmptyBag = {} /\ EmptyBag = [c \in {} |-> 1]
BY SetBag DEF EmptyBag

\* The bags are bags of completions.
LEMMA PostBags ==
    ASSUME BagsInv, NEW c, Post(c), Triple(c),
           IsBag(posting'), DOMAIN posting' \subseteq DOMAIN posting,
           DOMAIN late' \subseteq DOMAIN late
    PROVE  /\ BagsInv'
           /\ \/ /\ c[1] = "source" /\ cq.target' = cq.target
                 /\ DOMAIN cq.source' = DOMAIN cq.source \cup {c}
              \/ /\ c[1] # "source" /\ cq.source' = cq.source
                 /\ DOMAIN cq.target' = DOMAIN cq.target \cup {c}
<1>1. CASE c[1] = "source"
  <2>1. cq' = [source |-> cq.source (+) One(c), target |-> cq.target]
    BY <1>1 DEF Post, RingOf, BagsInv
  <2>2. DOMAIN One(c) = {c}
    BY SetBag DEF One
  <2>3. IsBag(cq.source') /\ DOMAIN cq.source' = DOMAIN cq.source \cup {c}
    BY <2>1, <2>2, PlusBag
  <2>4. cq.target' = cq.target /\ cq' = [source |-> cq'.source, target |-> cq'.target]
    BY <2>1
  <2> QED BY <1>1, <2>3, <2>4 DEF BagsInv
<1>2. CASE c[1] # "source"
  <2>1. cq' = [source |-> cq.source, target |-> cq.target (+) One(c)]
    BY <1>2 DEF Post, RingOf, BagsInv
  <2>2. DOMAIN One(c) = {c}
    BY SetBag DEF One
  <2>3. IsBag(cq.target') /\ DOMAIN cq.target' = DOMAIN cq.target \cup {c}
    BY <2>1, <2>2, PlusBag
  <2>4. cq.source' = cq.source /\ cq' = [source |-> cq'.source, target |-> cq'.target]
    BY <2>1
  <2> QED BY <1>2, <2>3, <2>4 DEF BagsInv
<1> QED BY <1>1, <1>2

LEMMA KernelBags == BagsInv /\ (KernelPost \/ KernelPostLate \/ KernelFault) => BagsInv'
<1> SUFFICES ASSUME BagsInv, KernelPost \/ KernelPostLate \/ KernelFault PROVE BagsInv'
  OBVIOUS
<1>1. CASE KernelPost
  <2>1. PICK c \in DOMAIN posting : Post(c) /\ posting' = posting (-) One(c) /\ late' = late
    BY <1>1 DEF KernelPost
  <2> QED BY <2>1, MinusBag, PostBags DEF BagsInv
<1>2. CASE KernelPostLate
  <2>1. PICK c \in DOMAIN late : Post(c) /\ late' = late (-) One(c) /\ posting' = posting
    BY <1>2 DEF KernelPostLate
  <2>2. DOMAIN late' \subseteq DOMAIN late
    BY <2>1, MinusBag
  <2> QED BY <2>1, <2>2, PostBags DEF BagsInv
<1>3. CASE KernelFault
  <2>1. cq' = cq
    BY <1>3 DEF KernelFault
  <2> SUFFICES /\ IsBag(posting')
               /\ \A c \in DOMAIN posting' \cup DOMAIN late' : Triple(c)
    BY <2>1 DEF BagsInv
  <2>2. \A c : DOMAIN One(c) = {c}
    BY SetBag DEF One
  <2>3. CASE \E c \in DOMAIN posting : late' = late (+) One(c) /\ UNCHANGED posting
    <3>1. PICK c \in DOMAIN posting : late' = late (+) One(c) /\ UNCHANGED posting
      BY <2>3
    <3>2. DOMAIN late' = DOMAIN late \cup {c}
      <4>1. DOMAIN One(c) = {c}
        BY <2>2
      <4> QED BY <3>1, <4>1, PlusBag
    <3> QED BY <3>1, <3>2 DEF BagsInv
  <2>4. CASE \E c \in DOMAIN posting : late' = late (+) One(c) /\ posting' = posting (-) One(c)
    <3>1. PICK c \in DOMAIN posting :
             late' = late (+) One(c) /\ posting' = posting (-) One(c)
      BY <2>4
    <3>2. DOMAIN late' = DOMAIN late \cup {c}
      <4>1. DOMAIN One(c) = {c}
        BY <2>2
      <4> QED BY <3>1, <4>1, PlusBag
    <3>3. IsBag(posting') /\ DOMAIN posting' \subseteq DOMAIN posting
      BY <3>1, MinusBag
    <3> QED BY <3>1, <3>2, <3>3 DEF BagsInv
  <2>5. CASE \E c \in DOMAIN posting :
                /\ \E d \in {<<c[1], c[2], r>> : r \in WrongResults(c)}
                             \cup {<<c[1], s, c[3]>> : s \in Slots \ {c[2]}} :
                      posting' = (posting (-) One(c)) (+) One(d)
                /\ UNCHANGED late
    <3>0. PICK c \in DOMAIN posting :
             /\ \E d : /\ \E x, y, z : d = <<x, y, z>>
                      /\ posting' = (posting (-) One(c)) (+) One(d)
             /\ late' = late
      BY <2>5
    <3>1. PICK d : /\ \E x, y, z : d = <<x, y, z>>
                   /\ posting' = (posting (-) One(c)) (+) One(d) /\ late' = late
      BY <3>0
    <3>2. Triple(d)
      BY <3>1 DEF Triple
    <3>3. IsBag(posting') /\ DOMAIN posting' \subseteq DOMAIN posting \cup {d}
      <4>1. DOMAIN (posting (-) One(c)) \subseteq DOMAIN posting
        BY MinusBag
      <4>2. DOMAIN One(d) = {d}
        BY <2>2
      <4>3. IsBag(posting') /\ DOMAIN posting' = DOMAIN (posting (-) One(c)) \cup {d}
        BY <3>1, <4>2, PlusBag
      <4> QED BY <4>1, <4>3
    <3> QED BY <3>1, <3>2, <3>3 DEF BagsInv
  <2>6. CASE UNCHANGED <<posting, late>>
    BY <2>6 DEF BagsInv
  <2> QED BY <1>3, <2>3, <2>4, <2>5, <2>6 DEF KernelFault
<1> QED BY <1>1, <1>2, <1>3

LEMMA QuietBags ==
    BagsInv /\ (\/ Setup \/ SetupFails \/ BeginData \/ OpenTarget \/ OpenTargetFails
                \/ SubmitFails \/ EnterTarget \/ TargetTimesOut \/ EndData \/ FlushTarget
                \/ Verdict \/ EndSendFd \/ Verified \/ Exited)
      => UNCHANGED <<posting, late, cq>> /\ BagsInv'
<1> SUFFICES ASSUME BagsInv,
                    \/ Setup \/ SetupFails \/ BeginData \/ OpenTarget \/ OpenTargetFails
                    \/ SubmitFails \/ EnterTarget \/ TargetTimesOut \/ EndData \/ FlushTarget
                    \/ Verdict \/ EndSendFd \/ Verified \/ Exited
             PROVE  UNCHANGED <<posting, late, cq>> /\ BagsInv'
  OBVIOUS
<1>1. UNCHANGED <<posting, late, cq>>
  BY DEF Setup, SetupFails, BeginData, OpenTarget, OpenTargetFails, SubmitFails, EnterTarget,
         TargetTimesOut, EndData, FlushTarget, Verdict, EndSendFd, Verified, Exited, vars,
         kernVars
<1> QED BY <1>1 DEF BagsInv

LEMMA QueuedBags ==
    ASSUME BagsInv, NEW S, \A c \in S : Triple(c),
           posting' = posting (+) SetToBag(S), UNCHANGED <<late, cq>>
    PROVE  /\ BagsInv'
           /\ DOMAIN posting' = DOMAIN posting \cup S
           /\ (\A c \in DOMAIN posting : posting[c] = 1) /\ DOMAIN posting \cap S = {} =>
                 \A c \in DOMAIN posting' : posting'[c] = 1
<1>1. DOMAIN SetToBag(S) = S /\ \A c \in S : SetToBag(S)[c] = 1
  BY SetBag
<1>2. IsBag(posting') /\ DOMAIN posting' = DOMAIN posting \cup S
  BY <1>1, PlusBag
<1>3. ASSUME \A c \in DOMAIN posting : posting[c] = 1, DOMAIN posting \cap S = {}
      PROVE  \A c \in DOMAIN posting' : posting'[c] = 1
  BY <1>1, <1>2, <1>3, PlusCounts
<1> QED BY <1>2, <1>3 DEF BagsInv

\* The messages of a batch: for each one completion on each side.
LEMMA SentIs ==
    ASSUME NEW slot \in Allocations
    PROVE  /\ \A c \in UNION {Sent(s, slot[s]) : s \in Window} :
                 Triple(c) /\ c[1] \in {"source", "target"} /\ c[2] \in Window
           /\ \A c, d \in UNION {Sent(s, slot[s]) : s \in Window} : Key(c) = Key(d) => c = d
BY DEF Sent, Triple, Key

LEMMA ReadsAre ==
    ASSUME NEW c \in {<<"verify", s, IF table[ReadSlot(s)] = "empty" THEN -1 ELSE 1>> : s \in Window}
    PROVE  Triple(c) /\ c[1] = "verify" /\ c[2] \in Window
BY DEF Triple

LEMMA SubmitBags == BagsInv /\ (SubmitBatch \/ SubmitReads) => BagsInv'
<1> SUFFICES ASSUME BagsInv, SubmitBatch \/ SubmitReads PROVE BagsInv'
  OBVIOUS
<1>1. CASE SubmitBatch
  <2>1. PICK slot \in Allocations :
           posting' = posting (+) SetToBag(UNION {Sent(s, slot[s]) : s \in Window})
    BY <1>1 DEF SubmitBatch
  <2>2. UNCHANGED <<late, cq>>
    BY <1>1 DEF SubmitBatch
  <2> QED BY <2>1, <2>2, SentIs, QueuedBags
<1>2. CASE SubmitReads
  <2> DEFINE S == {<<"verify", s, IF table[ReadSlot(s)] = "empty" THEN -1 ELSE 1>> : s \in Window}
  <2>1. posting' = posting (+) SetToBag(S) /\ UNCHANGED <<late, cq>>
    BY <1>2 DEF SubmitReads
  <2>2. \A c \in S : Triple(c)
    BY ReadsAre
  <2> HIDE DEF S
  <2> QED BY <2>1, <2>2, QueuedBags
<1> QED BY <1>1, <1>2

LEMMA DrainBags ==
    ASSUME BagsInv, NEW ring \in {"source", "target"}, NEW tag, Reap(ring, tag),
           UNCHANGED <<posting, late>>
    PROVE  /\ BagsInv'
           /\ ring = "source" => cq.target' = cq.target /\ DOMAIN cq.source' = {}
           /\ ring = "target" => cq.source' = cq.source /\ DOMAIN cq.target' = {}
<1>1. CASE ring = "source"
  <2>1. cq' = [source |-> EmptyBag, target |-> cq.target]
    BY <1>1 DEF Reap, BagsInv
  <2> QED BY <1>1, <2>1, NoBag DEF BagsInv
<1>2. CASE ring = "target"
  <2>1. cq' = [source |-> cq.source, target |-> EmptyBag]
    BY <1>2 DEF Reap, BagsInv
  <2> QED BY <1>2, <2>1, NoBag DEF BagsInv
<1> QED BY <1>1, <1>2

LEMMA DrainsBags == BagsInv /\ (DrainSource \/ DrainTarget \/ DrainReads) => BagsInv'
<1> SUFFICES ASSUME BagsInv, DrainSource \/ DrainTarget \/ DrainReads PROVE BagsInv'
  OBVIOUS
<1>1. UNCHANGED <<posting, late>>
  BY DEF DrainSource, DrainTarget, DrainReads
<1>2. Reap("source", "source") \/ Reap("target", "target") \/ Reap("target", "verify")
  BY DEF DrainSource, DrainTarget, DrainReads
<1> QED BY <1>1, <1>2, DrainBags

LEMMA EndBags == BagsInv /\ (Out \/ Cleanup) => BagsInv'
<1> SUFFICES ASSUME BagsInv, Out \/ Cleanup PROVE BagsInv'
  OBVIOUS
<1>1. CASE Out
  <2>1. cq' = [source |-> cq.source, target |-> EmptyBag]
    BY <1>1 DEF Out, BagsInv
  <2>2. /\ IsBag(posting') /\ DOMAIN posting' \subseteq DOMAIN posting
        /\ DOMAIN late' \subseteq DOMAIN late
    BY <1>1 DEF Out, IsBag
  <2> QED BY <2>1, <2>2, NoBag DEF BagsInv
<1>2. CASE Cleanup
  <2>1. posting' = EmptyBag /\ late' = EmptyBag /\ cq' = EmptyCqs
    BY <1>2 DEF Cleanup
  <2> QED BY <2>1, NoBag DEF BagsInv, EmptyCqs
<1> QED BY <1>1, <1>2

LEMMA BagsKept == BagsInv /\ Next => BagsInv'
BY KernelBags, QuietBags, SubmitBags, DrainsBags, EndBags DEF Next, Program


-----------------------------------------------------------------------------
(* The steps together                                                      *)

LEMMA ControlKeeps == ControlInv /\ [Next]_vars => ControlInv'
<1>1. ControlInv /\ UNCHANGED vars => ControlInv'
  BY ControlSame DEF vars, callVars, kernVars
<1> QED
  BY <1>1, KernelControl, SetupControl, SetupFailsControl, BeginControl, RoundControl,
     AbortControl, VerdictControl, OutControl, CleanupControl DEF Next, Program

LEMMA ControlInit == Init => ControlInv
<1> SUFFICES ASSUME Init PROVE ControlInv
  OBVIOUS
<1>1. run \in AllRuns /\ Calls \in Nat /\ 0 < Calls
  BY MsgRingAssumption DEF Init, Calls
<1>2. PlaceInv
  BY <1>1 DEF Init, PlaceInv, Running, InCall, InData
<1>3. ExitInv
  <2>1. /\ rows = <<>> /\ Len(rows) = 0 /\ rows \in Seq(BOOLEAN)
        /\ 1..Len(rows) = {} /\ 1..Len(rows) - 1 = {}
    BY DEF Init
  <2>2. ~(call > WARMUP_ROUNDS) /\ pc = "setup" /\ ret = TRUE /\ exitOk = FALSE
    BY MsgRingAssumption DEF Init
  <2>3. /\ \A k \in 1..Len(rows) : rows[k]
        /\ \A k \in 1..Len(rows) - 1 : rows[k]
    BY <2>1
  <2>4. ret \in BOOLEAN /\ exitOk \in BOOLEAN /\ ret /\ ~exitOk /\ pc # "cleanup"
    BY <2>2
  <2>5. Len(rows) = IF mode = "point" /\ call > WARMUP_ROUNDS
                      THEN call - WARMUP_ROUNDS - 1 ELSE 0
    BY <2>1, <2>2
  <2> QED BY <2>1, <2>3, <2>4, <2>5 DEF ExitInv
<1>4. OwnedInv
  BY DEF Init, OwnedInv
<1> QED BY <1>2, <1>3, <1>4 DEF ControlInv

\* The exit status and the rows of a run are honest, whatever failed: nothing is
\* written after a failed row, success means all rows and every fixed-file table
\* given back, and an exited program holds no descriptor (ExitHonest).
THEOREM ExitsHonestly == Spec => []ExitHonest
<1>1. ControlInv => ExitHonest
  <2> SUFFICES ASSUME ControlInv PROVE ExitHonest
    OBVIOUS
  <2>1. exitOk => Len(rows) = RowsDue /\ (\A k \in 1..Len(rows) : rows[k]) /\ pc = "exited"
    BY DEF ControlInv, ExitInv
  <2> QED BY <2>1 DEF ControlInv, ExitInv, OwnedInv, ExitHonest, RowsDue
<1> QED BY <1>1, ControlInit, ControlKeeps, PTL DEF Spec

-----------------------------------------------------------------------------
(* Numbers of messages                                                     *)

LEMMA Sizes == QD \in Nat /\ QD > 0 /\ Batches \in Nat /\ Batches > 0
BY MsgRingAssumption DEF Batches

LEMMA Ends ==
    /\ End(0) = 0
    /\ \A b \in Nat : End(b) \in Nat /\ End(b + 1) = End(b) + QD
    /\ \A b, c \in Nat : b < c => End(b) + QD <= End(c)
<1>1. End(0) = 0 /\ \A b \in Nat : End(b) \in Nat /\ End(b + 1) = End(b) + QD
  BY Sizes DEF End
<1>2. ASSUME NEW b \in Nat, NEW c \in Nat, b < c PROVE End(b) + QD <= End(c)
  <2>1. (c - b - 1) * QD \in Nat
    <3>1. c - b - 1 \in Nat
      BY <1>2
    <3>2. \A k \in Nat : k * QD \in Nat
      BY Sizes
    <3> QED BY <3>1, <3>2
  <2>2. End(c) = End(b) + QD + (c - b - 1) * QD
    BY Sizes, <1>2 DEF End
  <2>3. End(c) \in Nat /\ End(b) \in Nat
    BY <1>1
  <2> QED BY <2>1, <2>2, <2>3, Sizes
<1> QED BY <1>1, <1>2

LEMMA Rounds ==
    operations = End(Batches) /\ Slots = 0..End(Batches) - 1
BY DEF operations, Slots, End

\* A batch adds its window to the messages before it.
LEMMA Windows ==
    ASSUME batch \in Nat
    PROVE  /\ Window = End(batch)..End(batch + 1) - 1
           /\ 0..End(batch + 1) - 1 = (0..End(batch) - 1) \cup Window
           /\ (0..End(batch) - 1) \cap Window = {}
           /\ batch < Batches => Window \subseteq Slots
           /\ Window # {}
<1>1. /\ End(batch) \in Nat /\ End(batch + 1) = End(batch) + QD /\ QD \in Nat /\ QD > 0
      /\ End(Batches) \in Nat /\ (batch < Batches => End(batch) + QD <= End(Batches))
  BY Ends, Sizes
<1>2. Window = End(batch)..End(batch) + QD - 1
  BY DEF Window, End
<1>3. Window = End(batch)..End(batch + 1) - 1
  BY <1>1, <1>2
<1> QED BY <1>1, <1>3, Rounds

LEMMA NoKeys == \A tag : Keys(tag, 0) = {}
BY Ends DEF Keys

LEMMA MoreKeys ==
    ASSUME batch \in Nat
    PROVE  \A tag : /\ Keys(tag, batch + 1) = Keys(tag, batch) \cup {<<tag, s>> : s \in Window}
                    /\ Keys(tag, batch) \cap {<<tag, s>> : s \in Window} = {}
BY Windows DEF Keys

LEMMA KeysOf ==
    \A tag, b : \A k \in Keys(tag, b) : k[1] = tag /\ k = <<k[1], k[2]>>
BY DEF Keys

-----------------------------------------------------------------------------
(* What a drain that finds no error has read                               *)

LEMMA Judged ==
    ASSUME NEW r, NEW B, NEW tag, {"missing", "errors"} \subseteq DOMAIN r
    PROVE  /\ {"missing", "errors"} \subseteq DOMAIN Judge(r, B, tag)
           /\ Judge(r, B, tag).missing = (r.missing \/ Seen(B, tag) # Window)
           /\ Judge(r, B, tag).errors = (r.errors \/ Valid(B, tag) # DOMAIN B)
           /\ ~Judge(r, B, tag).missing => ~r.missing /\ Seen(B, tag) = Window
           /\ ~Judge(r, B, tag).errors => ~r.errors /\ Valid(B, tag) = DOMAIN B
BY DEF Judge

\* The window's messages with one tag.
Batch(tag) == {<<tag, s>> : s \in Window}

LEMMA CleanBag ==
    ASSUME NEW B, IsBag(B), NEW tag, \A c \in DOMAIN B : Triple(c),
           Seen(B, tag) = Window, Valid(B, tag) = DOMAIN B
    PROVE  /\ OnceEach(B, Batch(tag))
           /\ \A c \in DOMAIN B : c[1] = tag /\ c[2] \in Window
<1>1. \A c \in DOMAIN B :
         /\ c[1] = tag /\ c[2] \in Window /\ Good(c) /\ B[c] = 1
         /\ \A d \in DOMAIN B \ {c} : d[1] # tag \/ d[2] # c[2]
  BY DEF Valid, InBatch
<1>2. B = [c \in DOMAIN B |-> 1]
  BY <1>1 DEF IsBag
<1>3. \A c \in DOMAIN B : Triple(c) /\ Key(c) \in Batch(tag) /\ Good(c)
  BY <1>1 DEF Key, Batch
<1>4. ASSUME NEW k \in Batch(tag) PROVE \E c \in DOMAIN B : Key(c) = k
  <2>1. PICK s \in Window : k = <<tag, s>>
    BY <1>4 DEF Batch
  <2>2. PICK c \in DOMAIN B : c[2] = s
    BY <2>1 DEF Seen
  <2> QED BY <1>1, <2>1, <2>2 DEF Key
<1>5. \A c, d \in DOMAIN B : Key(c) = Key(d) => c = d
  BY <1>1 DEF Key
<1> QED BY <1>1, <1>2, <1>3, <1>4, <1>5 DEF OnceEach

LEMMA OnceMore ==
    ASSUME NEW R, NEW keys, OnceEach(R, keys), NEW B, NEW more, OnceEach(B, more),
           keys \cap more = {}
    PROVE  OnceEach(R (+) B, keys \cup more)
<1>1. DOMAIN R \cap DOMAIN B = {}
  BY DEF OnceEach
<1>2. IsBag(R (+) B) /\ DOMAIN (R (+) B) = DOMAIN R \cup DOMAIN B
  BY PlusBag
<1>3. \A c \in DOMAIN R : R[c] = 1
  BY DEF OnceEach
<1>4. \A c \in DOMAIN B : B[c] = 1
  BY DEF OnceEach
<1>5. \A c \in DOMAIN (R (+) B) : (R (+) B)[c] = 1
  BY <1>1, <1>2, <1>3, <1>4, PlusCounts
<1>6. R (+) B = [c \in DOMAIN (R (+) B) |-> 1]
  BY <1>2, <1>5 DEF IsBag
<1>7. \A c \in DOMAIN R \cup DOMAIN B : Triple(c) /\ Key(c) \in keys \cup more /\ Good(c)
  BY DEF OnceEach
<1>8. \A k \in keys \cup more : \E c \in DOMAIN R \cup DOMAIN B : Key(c) = k
  BY DEF OnceEach
<1>9. \A c, d \in DOMAIN R \cup DOMAIN B : Key(c) = Key(d) => c = d
  BY DEF OnceEach
<1> QED BY <1>2, <1>6, <1>7, <1>8, <1>9 DEF OnceEach

LEMMA GoodSame ==
    ASSUME UNCHANGED <<run, call>>
    PROVE  \A c : Good(c)' = Good(c)
BY SameRun, SameCall DEF Good, Value

\* An error or a missing event is not forgotten before the next round.
LEMMA FlagsKept ==
    FlagsInv /\ Next => FlagsInv' /\ (pc' \in InCall /\ pc # "call" /\ Clean' => Clean)
<1> SUFFICES ASSUME FlagsInv, Next
             PROVE  FlagsInv' /\ (pc' \in InCall /\ pc # "call" /\ Clean' => Clean)
  OBVIOUS
<1>1. CASE UNCHANGED result
  BY <1>1 DEF FlagsInv, Clean
<1>2. CASE NewCall
  BY <1>2 DEF NewCall, ZeroResult, FlagsInv
<1> DEFINE Worse(r) == /\ {"missing", "errors"} \subseteq DOMAIN r
                       /\ r.missing \in BOOLEAN /\ r.errors \in BOOLEAN
                       /\ result.missing => r.missing
                       /\ result.errors => r.errors
<1> SUFFICES ASSUME ~UNCHANGED result, ~NewCall PROVE Worse(result')
  BY <1>1, <1>2 DEF FlagsInv, Clean
<1>3. ASSUME NEW r, Worse(r), NEW B, NEW tag PROVE Worse(Judge(r, B, tag))
  BY <1>3, Judged
<1>4. CASE SubmitBatch
  BY <1>4 DEF SubmitBatch, FlagsInv
<1>5. CASE DrainSource
  <2>1. Worse([result EXCEPT !.source_cqes = @ + available("source")])
    BY DEF FlagsInv
  <2> HIDE DEF Worse
  <2> QED BY <1>3, <1>5, <2>1 DEF DrainSource
<1>6. CASE DrainTarget
  <2> DEFINE targetOk == Valid(cq.target, "target")
             pairs == {c \in sourceOk : \E d \in targetOk : d[2] = c[2]}
             agreed == {c \in pairs : <<"target", c[2], c[3]>> \in targetOk}
             new == {c[3] : c \in agreed} \ slot_bitmap
             judged == Judge([result EXCEPT !.target_cqes = @ + available("target")],
                             cq.target, "target")
  <2>1. Worse([result EXCEPT !.target_cqes = @ + available("target")])
    BY DEF FlagsInv
  <2>2. Worse(judged)
    <3> HIDE DEF Worse
    <3> QED BY <1>3, <2>1
  <2>3. \/ result' = [judged EXCEPT !.ok = @ + Cardinality(new),
                                    !.errors = @ \/ pairs # agreed
                                         \/ Cardinality(new) # Cardinality(agreed)]
        \/ result' = [judged EXCEPT !.ok = @ + Cardinality(pairs)]
    BY <1>6 DEF DrainTarget
  <2> HIDE DEF judged, pairs, agreed, new
  <2> QED BY <2>2, <2>3
<1>7. CASE DrainReads
  <2> DEFINE r == [result EXCEPT
            !.verify_reads = @ + Cardinality(Seen(cq.target, "verify")),
            !.slots_verified = @ + Cardinality({s \in Window :
                                       table[ReadSlot(s)] = "sentinel"}),
            !.errors = @ \/ \E s \in Window : table[ReadSlot(s)] # "sentinel"]
  <2>1. Worse(r)
    BY DEF FlagsInv
  <2> HIDE DEF Worse, r
  <2>2. result' = Judge(r, cq.target, "verify")
    BY <1>7 DEF DrainReads, r
  <2> QED BY <1>3, <2>1, <2>2
<1>8. CASE FlushTarget
  BY <1>8 DEF FlushTarget, FlagsInv
<1>9. CASE EndSendFd
  BY <1>9 DEF EndSendFd, FlagsInv
<1>10. UNCHANGED result \/ NewCall \/ SubmitBatch \/ DrainSource \/ DrainTarget
         \/ DrainReads \/ FlushTarget \/ EndSendFd
  BY DEF Next, Program, Setup, SetupFails, BeginData, OpenTarget, OpenTargetFails,
         SubmitFails, EnterTarget, TargetTimesOut, EndData, Verdict, SubmitReads, Verified,
         Out, Cleanup, KernelPost, KernelPostLate, KernelFault, Exited, vars, callVars
<1> QED BY <1>4, <1>5, <1>6, <1>7, <1>8, <1>9, <1>10

-----------------------------------------------------------------------------
(* A round with no error has read what it drained                          *)

LEMMA OnceAfter ==
    ASSUME UNCHANGED <<run, call>>, OnceEach(reaped', Drained')
    PROVE  OnceEach(reaped, Drained)'
BY GoodSame DEF OnceEach, Triple, Key

\* A step of a round that drains nothing.
LEMMA ReadStays ==
    ASSUME ReadInv, FlagsInv, Next, pc \in InCall, pc # "call",
           UNCHANGED <<run, call, ret, reaped, strayed, slot_bitmap>>,
           Drained' = Drained,
           pc' \in {"target", "reap"} =>
               pc \in {"target", "reap"} /\ UNCHANGED <<sourceOk, batch>>,
           pc' \in {"verify", "reads", "out"} =>
               pc \in {"verify", "reads", "out"} \/ (profile = "f0" /\ slot_bitmap = Slots)
    PROVE  ReadInv'
<1> SUFFICES ASSUME Clean', pc' \in InCall, ret'
             PROVE  ~strayed' /\ OnceEach(reaped, Drained)' /\ (profile = "f0" => SlotInv)'
  BY DEF ReadInv
<1>1. ~strayed /\ OnceEach(reaped, Drained) /\ (profile = "f0" => SlotInv)
  BY FlagsKept DEF ReadInv
<1>2. OnceEach(reaped, Drained)'
  BY <1>1, OnceAfter
<1>3. profile' = profile /\ Slots' = Slots
  BY SameRun, SameCall
<1>4. profile = "f0" => SlotInv'
  BY <1>1, <1>3 DEF SlotInv, Window
<1> QED BY <1>1, <1>2, <1>3, <1>4

LEMMA QuietReads ==
    PlaceInv /\ FlagsInv /\ ReadInv
      /\ (\/ SubmitBatch \/ EnterTarget \/ EndData \/ FlushTarget \/ SubmitReads \/ Verified
          \/ EndSendFd)
      => ReadInv'
<1> SUFFICES ASSUME PlaceInv, FlagsInv, ReadInv,
                    \/ SubmitBatch \/ EnterTarget \/ EndData \/ FlushTarget \/ SubmitReads
                    \/ Verified \/ EndSendFd
             PROVE  ReadInv'
  OBVIOUS
<1>1. /\ UNCHANGED <<run, call, ret, reaped, strayed, slot_bitmap>> /\ Next
      /\ \/ pc = "batch" /\ pc' \in {"source", "flush", "verdict"} /\ batch' = batch
         \/ pc = "target" /\ pc' = "reap" /\ UNCHANGED <<sourceOk, batch>>
         \/ pc = "flush" /\ pc' = "verdict" /\ batch' = batch
         \/ pc = "verify" /\ pc' = "reads" /\ batch' = batch
         \/ pc = "verify" /\ pc' = "out" /\ batch' = batch /\ batch = Batches
         \/ /\ pc = "batch" /\ pc' \in {"verify", "out"} /\ batch' = 0 /\ batch = Batches
            /\ profile = "f0"
  BY DEF SubmitBatch, EnterTarget, EndData, FlushTarget, SubmitReads, Verified, EndSendFd,
         runVars, callVars, histVars, Next, Program
<1>2. profile' = profile /\ Batches' = Batches /\ Slots' = Slots
  BY <1>1, SameRun, SameCall
<1>3. CASE ~EndSendFd
  <2>1. Drained' = Drained
    <3>1. ~(pc = "batch" /\ pc' \in {"verify", "out"})
      BY <1>3 DEF SubmitBatch, EnterTarget, EndData, FlushTarget, SubmitReads, Verified
    <3> QED BY <1>1, <1>2, <3>1 DEF Drained
  <2> QED BY <1>1, <1>3, <2>1, ReadStays DEF InCall, InData, SubmitBatch, EnterTarget, EndData,
             FlushTarget, SubmitReads, Verified
<1>4. CASE EndSendFd
  <2>1. /\ result' = [result EXCEPT !.missing = @ \/ slot_bitmap # Slots]
        /\ pc' = IF result'.missing THEN "out" ELSE "verify"
        /\ pc = "batch" /\ batch' = 0 /\ batch = Batches /\ profile = "f0"
    BY <1>4 DEF EndSendFd
  <2>2. result'.missing = (result.missing \/ slot_bitmap # Slots)
    BY <2>1 DEF FlagsInv
  <2>3. CASE result'.missing
    BY <2>3 DEF ReadInv, Clean
  <2>4. CASE ~result'.missing
    <3>1. pc' = "verify" /\ slot_bitmap = Slots
      BY <2>1, <2>2, <2>4
    <3>2. Drained' = Drained
      BY <1>2, <2>1, <3>1, NoKeys DEF Drained
    <3> QED BY <1>1, <2>1, <3>1, <3>2, ReadStays DEF InCall, InData
  <2> QED BY <2>3, <2>4
<1> QED BY <1>3, <1>4

LEMMA StillReads ==
    ASSUME ReadInv, UNCHANGED <<run, pc, callVars, runVars, histVars>>
    PROVE  ReadInv'
<1>1. profile' = profile /\ Batches' = Batches /\ Slots' = Slots
  BY SameRun, SameCall DEF runVars
<1>2. Drained' = Drained /\ UNCHANGED <<run, call, reaped>>
  BY <1>1 DEF Drained, callVars, runVars, histVars
<1>3. OnceEach(reaped, Drained) => OnceEach(reaped, Drained)'
  BY <1>2, OnceAfter
<1>4. SlotInv => SlotInv'
  BY <1>1 DEF SlotInv, callVars, histVars, Window
<1> QED BY <1>1, <1>3, <1>4 DEF ReadInv, Clean, callVars, runVars, histVars

\* A round begins with nothing read; a step out of a round has nothing to keep.
LEMMA NewReads ==
    ReadInv /\ (\/ BeginData \/ OpenTarget \/ OpenTargetFails \/ Setup \/ SetupFails
                \/ SubmitFails \/ TargetTimesOut \/ Verdict \/ Out \/ Cleanup)
      => ReadInv'
<1> SUFFICES ASSUME \/ BeginData \/ OpenTarget \/ OpenTargetFails \/ Setup \/ SetupFails
                    \/ SubmitFails \/ TargetTimesOut \/ Verdict \/ Out \/ Cleanup
             PROVE  ReadInv'
  OBVIOUS
<1>1. CASE BeginData \/ OpenTarget
  <2>1. /\ pc' = "batch" /\ batch' = 0 /\ slot_bitmap' = {}
        /\ reaped' = EmptyBag /\ strayed' = FALSE
    BY <1>1 DEF BeginData, OpenTarget, NewCall
  <2>2. Drained' = {}
    BY <2>1, NoKeys DEF Drained
  <2>3. OnceEach(reaped, Drained)'
    BY <2>1, <2>2, NoBag DEF OnceEach
  <2>4. SlotInv'
    BY <2>1, NoBag DEF SlotInv
  <2> QED BY <2>1, <2>3, <2>4 DEF ReadInv
<1>2. CASE OpenTargetFails \/ SubmitFails \/ TargetTimesOut
  <2>1. ~ret' \/ pc' \in {"call", "cleanup"}
    BY <1>2 DEF OpenTargetFails, SubmitFails, TargetTimesOut, Abort, ReturnFrom
  <2> QED BY <2>1 DEF ReadInv, InCall, InData
<1>3. CASE Setup \/ SetupFails \/ Verdict \/ Out \/ Cleanup
  <2>1. pc' \in {"call", "cleanup", "exited"}
    BY <1>3 DEF Setup, SetupFails, Verdict, Out, Cleanup, ReturnFrom
  <2> QED BY <2>1 DEF ReadInv, InCall, InData
<1> QED BY <1>1, <1>2, <1>3

\* Draining a ring with no error reads the window's messages of that ring.
LEMMA DrainReadsMore ==
    ASSUME BagsInv, ~strayed, OnceEach(reaped, Drained),
           NEW ring \in {"source", "target"}, NEW tag, Reap(ring, tag),
           Seen(cq[ring], tag) = Window, Valid(cq[ring], tag) = DOMAIN cq[ring],
           Drained \cap Batch(tag) = {}
    PROVE  /\ ~strayed'
           /\ OnceEach(reaped', Drained \cup Batch(tag))
           /\ DOMAIN reaped' = DOMAIN reaped \cup DOMAIN cq[ring]
           /\ OnceEach(cq[ring], Batch(tag))
           /\ \A c \in DOMAIN cq[ring] : c[1] = tag /\ c[2] \in Window
<1>1. IsBag(cq[ring]) /\ \A c \in DOMAIN cq[ring] : Triple(c)
  BY DEF BagsInv
<1>2. OnceEach(cq[ring], Batch(tag)) /\ \A c \in DOMAIN cq[ring] : c[1] = tag /\ c[2] \in Window
  <2> DEFINE B == cq[ring]
  <2>1. IsBag(B) /\ (\A c \in DOMAIN B : Triple(c)) /\ Seen(B, tag) = Window
          /\ Valid(B, tag) = DOMAIN B
    BY <1>1
  <2> HIDE DEF B
  <2>2. OnceEach(B, Batch(tag)) /\ \A c \in DOMAIN B : c[1] = tag /\ c[2] \in Window
    BY <2>1, CleanBag
  <2> QED BY <2>2 DEF B
<1>3. reaped' = reaped (+) cq[ring]
  BY DEF Reap
<1>4. ~strayed'
  BY <1>2 DEF Reap
<1> QED BY <1>2, <1>3, <1>4, OnceMore, PlusBag

LEMMA DrainSourceReads ==
    PlaceInv /\ BagsInv /\ FlagsInv /\ ReadInv /\ DrainSource => ReadInv'
<1> SUFFICES ASSUME PlaceInv, BagsInv, FlagsInv, ReadInv, DrainSource, Clean', ret'
             PROVE  ~strayed' /\ OnceEach(reaped, Drained)' /\ (profile = "f0" => SlotInv)'
  BY DEF ReadInv
<1>1. /\ pc = "source" /\ pc' \in {"target", "reap"} /\ UNCHANGED <<run, call, ret, batch, slot_bitmap>>
      /\ sourceOk' = Valid(cq.source, "source") /\ Reap("source", "source")
      /\ batch \in Nat
  BY DEF DrainSource, runVars, AfterSource, PlaceInv
<1>2. profile' = profile /\ Batches' = Batches /\ Slots' = Slots /\ Window' = Window
  BY <1>1, SameRun, SameCall DEF Window
<1>3. Clean /\ ~strayed /\ OnceEach(reaped, Drained) /\ (profile = "f0" => SlotInv)
  BY <1>1, FlagsKept DEF ReadInv, Next, Program, InCall, InData
<1>4. Seen(cq.source, "source") = Window /\ Valid(cq.source, "source") = DOMAIN cq.source
  <2> DEFINE r == [result EXCEPT !.source_cqes = @ + available("source")]
  <2>1. {"missing", "errors"} \subseteq DOMAIN r
    BY DEF FlagsInv
  <2> HIDE DEF r
  <2>2. result' = Judge(r, cq.source, "source")
    BY DEF DrainSource, r
  <2>3. /\ ~Judge(r, cq.source, "source").missing
        /\ ~Judge(r, cq.source, "source").errors
    BY <2>2 DEF Clean
  <2> QED BY <2>1, <2>3, Judged
<1>5. /\ Drained = Keys("source", batch) \cup Keys("target", batch)
      /\ Drained' = Drained \cup Batch("source")
      /\ Drained \cap Batch("source") = {}
  <2>1. Drained = Keys("source", batch) \cup Keys("target", batch)
    BY <1>1 DEF Drained
  <2>2. Drained' = Keys("source", batch + 1) \cup Keys("target", batch)
    BY <1>1, <1>2 DEF Drained
  <2>3. /\ Keys("source", batch + 1) = Keys("source", batch) \cup Batch("source")
        /\ Keys("source", batch) \cap Batch("source") = {}
    BY <1>1, MoreKeys DEF Batch
  <2>4. Keys("target", batch) \cap Batch("source") = {}
    BY DEF Keys, Batch
  <2> QED BY <2>1, <2>2, <2>3, <2>4
<1>6. /\ ~strayed' /\ OnceEach(reaped', Drained \cup Batch("source"))
      /\ DOMAIN reaped' = DOMAIN reaped \cup DOMAIN cq.source
      /\ \A c \in DOMAIN cq.source : c[1] = "source" /\ c[2] \in Window
  BY <1>1, <1>3, <1>4, <1>5, DrainReadsMore
<1>7. OnceEach(reaped, Drained)'
  BY <1>1, <1>5, <1>6, OnceAfter
<1>8. profile = "f0" => SlotInv'
  <2> SUFFICES ASSUME profile = "f0" PROVE SlotInv'
    OBVIOUS
  <2>1. \A c \in DOMAIN reaped : c[1] = "source" => c[2] \notin Window
    <3>1. \A c \in DOMAIN reaped : Key(c) \in Drained
      BY <1>3 DEF OnceEach
    <3>2. \A c \in DOMAIN reaped : c[1] = "source" => Key(c) \in Keys("source", batch)
      BY <1>5, <3>1 DEF Keys, Key
    <3> QED BY <1>1, <3>2, Windows DEF Keys, Key
  <2>2. sourceOk' = {c \in DOMAIN reaped' : c[1] = "source" /\ c[2] \in Window}
    BY <1>1, <1>4, <1>6, <2>1
  <2>3. {d \in DOMAIN reaped' : d[1] = "target"} = {d \in DOMAIN reaped : d[1] = "target"}
    BY <1>6
  <2>4. slot_bitmap = {c[3] : c \in {d \in DOMAIN reaped : d[1] = "target"}}
    BY <1>3 DEF SlotInv
  <2>5. \A c \in DOMAIN reaped' : c[1] = "target" => <<"source", c[2], c[3]>> \in DOMAIN reaped'
    BY <1>3, <1>6, <2>3 DEF SlotInv
  <2> QED BY <1>1, <1>2, <2>2, <2>3, <2>4, <2>5 DEF SlotInv
<1> QED BY <1>2, <1>6, <1>7, <1>8

LEMMA DrainTargetReads ==
    PlaceInv /\ BagsInv /\ FlagsInv /\ ReadInv /\ DrainTarget => ReadInv'
<1> SUFFICES ASSUME PlaceInv, BagsInv, FlagsInv, ReadInv, DrainTarget, Clean', ret'
             PROVE  ~strayed' /\ OnceEach(reaped, Drained)' /\ (profile = "f0" => SlotInv)'
  BY DEF ReadInv
<1> DEFINE targetOk == Valid(cq.target, "target")
           pairs == {c \in sourceOk : \E d \in targetOk : d[2] = c[2]}
           agreed == {c \in pairs : <<"target", c[2], c[3]>> \in targetOk}
           new == {c[3] : c \in agreed} \ slot_bitmap
           r == [result EXCEPT !.target_cqes = @ + available("target")]
           judged == Judge(r, cq.target, "target")
<1>1. /\ pc = "reap" /\ pc' = "batch" /\ UNCHANGED <<run, call, ret>> /\ batch' = batch + 1
      /\ Reap("target", "target") /\ batch \in Nat /\ batch < Batches
  BY DEF DrainTarget, runVars, PlaceInv
<1>2. profile' = profile /\ Batches' = Batches /\ Slots' = Slots
  BY <1>1, SameRun, SameCall
<1>3. Clean /\ ~strayed /\ OnceEach(reaped, Drained) /\ (profile = "f0" => SlotInv)
  BY <1>1, FlagsKept DEF ReadInv, Next, Program, InCall, InData
<1>4. /\ Seen(cq.target, "target") = Window /\ Valid(cq.target, "target") = DOMAIN cq.target
      /\ profile = "f0" => pairs = agreed /\ slot_bitmap' = slot_bitmap \cup new
  <2>1. {"missing", "errors"} \subseteq DOMAIN r
    BY DEF FlagsInv
  <2>2. \/ /\ profile = "f0" /\ slot_bitmap' = slot_bitmap \cup new
           /\ result' = [judged EXCEPT !.ok = @ + Cardinality(new),
                                       !.errors = @ \/ pairs # agreed
                                            \/ Cardinality(new) # Cardinality(agreed)]
        \/ profile # "f0" /\ result' = [judged EXCEPT !.ok = @ + Cardinality(pairs)]
    BY DEF DrainTarget
  <2>3. {"missing", "errors"} \subseteq DOMAIN judged
    <3> HIDE DEF r
    <3> QED BY <2>1, Judged
  <2> HIDE DEF judged, pairs, agreed, new
  <2>4. ~result'.missing /\ ~result'.errors
    BY DEF Clean
  <2>5. ~judged.missing /\ ~judged.errors /\ (profile = "f0" => pairs = agreed)
    BY <2>2, <2>3, <2>4
  <2>6. Seen(cq.target, "target") = Window /\ Valid(cq.target, "target") = DOMAIN cq.target
    <3> HIDE DEF r
    <3> QED BY <2>1, <2>5, Judged DEF judged
  <2> QED BY <2>2, <2>5, <2>6
<1>5. /\ Drained = Keys("source", batch + 1) \cup Keys("target", batch)
      /\ Drained' = Drained \cup Batch("target")
      /\ Drained \cap Batch("target") = {}
  <2>1. Drained = Keys("source", batch + 1) \cup Keys("target", batch)
    BY <1>1 DEF Drained
  <2>2. Drained' = Keys("source", batch + 1) \cup Keys("target", batch + 1)
    BY <1>1, <1>2 DEF Drained
  <2>3. /\ Keys("target", batch + 1) = Keys("target", batch) \cup Batch("target")
        /\ Keys("target", batch) \cap Batch("target") = {}
    BY <1>1, MoreKeys DEF Batch
  <2>4. Keys("source", batch + 1) \cap Batch("target") = {}
    BY DEF Keys, Batch
  <2> QED BY <2>1, <2>2, <2>3, <2>4
<1>6. /\ ~strayed' /\ OnceEach(reaped', Drained \cup Batch("target"))
      /\ DOMAIN reaped' = DOMAIN reaped \cup DOMAIN cq.target
      /\ OnceEach(cq.target, Batch("target"))
      /\ \A c \in DOMAIN cq.target : c[1] = "target" /\ c[2] \in Window
  BY <1>1, <1>3, <1>4, <1>5, DrainReadsMore
<1>7. OnceEach(reaped, Drained)'
  BY <1>1, <1>5, <1>6, OnceAfter
<1>8. profile = "f0" => SlotInv'
  <2> SUFFICES ASSUME profile = "f0" PROVE SlotInv'
    OBVIOUS
  <2>1. sourceOk = {c \in DOMAIN reaped : c[1] = "source" /\ c[2] \in Window}
    BY <1>1, <1>3 DEF SlotInv
  \* Each message of the window was accepted from the source, with a slot ...
  <2>2. \A s \in Window : \E c \in sourceOk : c[2] = s
    <3> SUFFICES ASSUME NEW s \in Window PROVE \E c \in sourceOk : c[2] = s
      OBVIOUS
    <3>1. <<"source", s>> \in Drained
      BY <1>1, <1>5, MoreKeys
    <3>2. PICK c \in DOMAIN reaped : Key(c) = <<"source", s>>
      BY <1>3, <3>1 DEF OnceEach
    <3> QED BY <2>1, <3>2 DEF Key
  \* ... and from the target, with the same one.
  <2>3. \A c \in sourceOk : <<"target", c[2], c[3]>> \in DOMAIN cq.target
    <3> SUFFICES ASSUME NEW c \in sourceOk
                 PROVE  <<"target", c[2], c[3]>> \in DOMAIN cq.target
      OBVIOUS
    <3>1. PICK d \in DOMAIN cq.target : d[2] = c[2]
      BY <1>4, <2>1 DEF Seen
    <3>2. c \in pairs
      BY <1>4, <3>1
    <3> QED BY <1>4, <3>2
  <2>4. \A d \in DOMAIN cq.target : <<"source", d[2], d[3]>> \in sourceOk
    <3> SUFFICES ASSUME NEW d \in DOMAIN cq.target
                 PROVE  <<"source", d[2], d[3]>> \in sourceOk
      OBVIOUS
    <3>1. PICK c \in sourceOk : c[2] = d[2]
      BY <1>6, <2>2
    <3>2. <<"target", c[2], c[3]>> \in DOMAIN cq.target
      BY <2>3
    <3>3. Triple(d) /\ d[1] = "target" /\ \A e \in DOMAIN cq.target : Key(e) = Key(d) => e = d
      BY <1>6 DEF OnceEach
    <3>4. <<"target", c[2], c[3]>> = d
      BY <3>1, <3>2, <3>3 DEF Key
    <3>5. c[3] = d[3]
      BY <3>4
    <3>6. c = <<"source", c[2], c[3]>>
      BY <1>3, <2>1 DEF OnceEach, Triple
    <3> QED BY <3>1, <3>5, <3>6
  <2>5. {c[3] : c \in agreed} = {d[3] : d \in DOMAIN cq.target}
    <3>1. agreed = sourceOk
      <4>1. \A c \in sourceOk : <<"target", c[2], c[3]>> \in targetOk
        BY <1>4, <2>3
      <4>2. \A c \in sourceOk : <<"target", c[2], c[3]>>[2] = c[2]
        OBVIOUS
      <4> QED BY <4>1, <4>2
    <3> HIDE DEF agreed
    <3>2. \A c \in sourceOk : \E d \in DOMAIN cq.target : d[3] = c[3]
      BY <2>3
    <3>3. \A d \in DOMAIN cq.target : \E c \in sourceOk : c[3] = d[3]
      BY <2>4
    <3> QED BY <3>1, <3>2, <3>3
  <2>6. slot_bitmap' = slot_bitmap \cup {d[3] : d \in DOMAIN cq.target}
    <3> HIDE DEF agreed
    <3> QED BY <1>4, <2>5
  <2>7. slot_bitmap = {c[3] : c \in {d \in DOMAIN reaped : d[1] = "target"}}
    BY <1>3 DEF SlotInv
  <2>8. {d \in DOMAIN reaped' : d[1] = "target"} =
            {d \in DOMAIN reaped : d[1] = "target"} \cup DOMAIN cq.target
    BY <1>6
  <2>9. slot_bitmap' = {c[3] : c \in {d \in DOMAIN reaped' : d[1] = "target"}}
    BY <2>6, <2>7, <2>8
  <2>10. ASSUME NEW c \in DOMAIN reaped', c[1] = "target"
         PROVE  <<"source", c[2], c[3]>> \in DOMAIN reaped'
    BY <1>3, <1>6, <2>1, <2>4, <2>10 DEF SlotInv
  <2> QED BY <1>1, <2>9, <2>10 DEF SlotInv
<1> QED BY <1>2, <1>6, <1>7, <1>8

LEMMA DrainReadsReads ==
    PlaceInv /\ BagsInv /\ FlagsInv /\ ReadInv /\ DrainReads => ReadInv'
<1> SUFFICES ASSUME PlaceInv, BagsInv, FlagsInv, ReadInv, DrainReads, Clean', ret'
             PROVE  ~strayed' /\ OnceEach(reaped, Drained)' /\ (profile = "f0" => SlotInv)'
  BY DEF ReadInv
<1>1. /\ pc = "reads" /\ pc' = "verify" /\ UNCHANGED <<run, call, ret, slot_bitmap>>
      /\ batch' = batch + 1 /\ Reap("target", "verify") /\ batch \in Nat
  BY DEF DrainReads, runVars, PlaceInv
<1>2. profile' = profile /\ Batches' = Batches /\ Slots' = Slots
  BY <1>1, SameRun, SameCall
<1>3. Clean /\ ~strayed /\ OnceEach(reaped, Drained) /\ (profile = "f0" => SlotInv)
  BY <1>1, FlagsKept DEF ReadInv, Next, Program, InCall, InData
<1>4. Seen(cq.target, "verify") = Window /\ Valid(cq.target, "verify") = DOMAIN cq.target
  <2> DEFINE r == [result EXCEPT
            !.verify_reads = @ + Cardinality(Seen(cq.target, "verify")),
            !.slots_verified = @ + Cardinality({s \in Window :
                                       table[ReadSlot(s)] = "sentinel"}),
            !.errors = @ \/ \E s \in Window : table[ReadSlot(s)] # "sentinel"]
  <2>1. {"missing", "errors"} \subseteq DOMAIN r
    BY DEF FlagsInv
  <2> HIDE DEF r
  <2>2. result' = Judge(r, cq.target, "verify")
    BY DEF DrainReads, r
  <2>3. /\ ~Judge(r, cq.target, "verify").missing
        /\ ~Judge(r, cq.target, "verify").errors
    BY <2>2 DEF Clean
  <2> QED BY <2>1, <2>3, Judged
<1>5. Drained' = Drained \cup Batch("verify") /\ Drained \cap Batch("verify") = {}
  <2> DEFINE data == Keys("source", Batches) \cup Keys("target", Batches)
  <2>1. Drained = data \cup Keys("verify", batch)
    BY <1>1 DEF Drained
  <2>2. Drained' = data \cup Keys("verify", batch + 1)
    BY <1>1, <1>2 DEF Drained
  <2>3. /\ Keys("verify", batch + 1) = Keys("verify", batch) \cup Batch("verify")
        /\ Keys("verify", batch) \cap Batch("verify") = {}
    BY <1>1, MoreKeys DEF Batch
  <2>4. data \cap Batch("verify") = {}
    BY DEF Keys, Batch
  <2> QED BY <2>1, <2>2, <2>3, <2>4
<1>6. /\ ~strayed' /\ OnceEach(reaped', Drained \cup Batch("verify"))
      /\ DOMAIN reaped' = DOMAIN reaped \cup DOMAIN cq.target
      /\ \A c \in DOMAIN cq.target : c[1] = "verify" /\ c[2] \in Window
  BY <1>1, <1>3, <1>4, <1>5, DrainReadsMore
<1>7. OnceEach(reaped, Drained)'
  BY <1>1, <1>5, <1>6, OnceAfter
<1>8. profile = "f0" => SlotInv'
  <2> SUFFICES ASSUME profile = "f0" PROVE SlotInv'
    OBVIOUS
  <2>1. {d \in DOMAIN reaped' : d[1] = "target"} = {d \in DOMAIN reaped : d[1] = "target"}
    BY <1>6
  <2>2. \A c \in DOMAIN reaped' : c[1] = "target" => <<"source", c[2], c[3]>> \in DOMAIN reaped'
    BY <1>3, <1>6, <2>1 DEF SlotInv
  <2>3. /\ slot_bitmap = {c[3] : c \in {d \in DOMAIN reaped : d[1] = "target"}}
        /\ slot_bitmap = Slots
    BY <1>1, <1>3 DEF SlotInv
  <2> QED BY <1>1, <1>2, <2>1, <2>2, <2>3 DEF SlotInv
<1> QED BY <1>2, <1>6, <1>7, <1>8

LEMMA ReadKept == PlaceInv /\ BagsInv /\ FlagsInv /\ ReadInv /\ [Next]_vars => ReadInv'
<1>1. ReadInv /\ (KernelPost \/ KernelPostLate \/ KernelFault \/ Exited \/ UNCHANGED vars)
        => ReadInv'
  BY StillReads DEF KernelPost, KernelPostLate, KernelFault, Exited, vars
<1> QED BY <1>1, QuietReads, NewReads, DrainSourceReads, DrainTargetReads, DrainReadsReads
        DEF Next, Program

-----------------------------------------------------------------------------
(* The table does not change while its slots are read                      *)

LEMMA DrainReadsTable ==
    PlaceInv /\ FlagsInv /\ TableInv /\ DrainReads => TableInv'
<1> SUFFICES ASSUME PlaceInv, FlagsInv, TableInv, DrainReads, Clean', ret'
             PROVE  \A s \in 0..End(batch') - 1 : table'[s] = "sentinel"
  BY DEF TableInv, DrainReads
<1>1. /\ pc = "reads" /\ batch' = batch + 1 /\ batch \in Nat /\ UNCHANGED <<ret, table>>
  BY DEF DrainReads, runVars, PlaceInv
<1>2. Clean
  BY <1>1, FlagsKept DEF Next, Program, DrainReads, InCall, InData
<1>3. \A s \in 0..End(batch) - 1 : table[s] = "sentinel"
  BY <1>1, <1>2 DEF TableInv
<1>4. \A s \in Window : table[s] = "sentinel"
  <2> DEFINE other == \E s \in Window : table[ReadSlot(s)] # "sentinel"
             r == [result EXCEPT
            !.verify_reads = @ + Cardinality(Seen(cq.target, "verify")),
            !.slots_verified = @ + Cardinality({s \in Window :
                                       table[ReadSlot(s)] = "sentinel"}),
            !.errors = @ \/ other]
  <2>1. {"missing", "errors"} \subseteq DOMAIN r /\ r.errors = (result.errors \/ other)
    <3> HIDE DEF other
    <3> QED BY DEF FlagsInv
  <2> HIDE DEF r
  <2>2. result' = Judge(r, cq.target, "verify")
    BY DEF DrainReads, r
  <2>3. ~Judge(r, cq.target, "verify").errors
    BY <2>2 DEF Clean
  <2>4. ~r.errors
    BY <2>1, <2>3, Judged
  <2>5. ~other
    <3> HIDE DEF other
    <3> QED BY <2>1, <2>4
  <2> QED BY <2>5 DEF ReadSlot
<1> QED BY <1>1, <1>3, <1>4, Windows

LEMMA TableKept == PlaceInv /\ FlagsInv /\ TableInv /\ [Next]_vars => TableInv'
<1> SUFFICES ASSUME PlaceInv, FlagsInv, TableInv, [Next]_vars PROVE TableInv'
  OBVIOUS
<1>1. CASE KernelPost \/ KernelPostLate \/ KernelFault \/ Exited \/ UNCHANGED vars
  <2>1. /\ UNCHANGED <<run, pc, callVars, runVars>>
        /\ table' = table \/ pc = "source"
    BY <1>1 DEF KernelPost, KernelPostLate, KernelFault, Exited, vars, kernVars
  <2>2. Slots' = Slots
    BY <2>1, SameCall DEF runVars
  <2> QED BY <2>1, <2>2 DEF TableInv, Clean, callVars, runVars
<1>2. CASE EndSendFd
  <2>1. /\ batch' = 0 /\ pc' = IF result'.missing THEN "out" ELSE "verify"
    BY <1>2 DEF EndSendFd
  <2> QED BY <2>1, Ends DEF TableInv, Clean
<1>3. CASE SubmitReads
  BY <1>3 DEF SubmitReads, TableInv, Clean, callVars, runVars
<1>4. CASE DrainReads
  BY <1>4, DrainReadsTable
<1>5. CASE Verified
  <2>1. /\ pc = "verify" /\ pc' = "out" /\ batch = Batches /\ Slots' = Slots
        /\ UNCHANGED <<result, ret, table>>
    BY <1>5, SameCall DEF Verified, callVars, runVars, kernVars
  <2> QED BY <2>1, Rounds DEF TableInv, Clean
<1>6. CASE ~ret' \/ pc' \notin {"verify", "reads", "out"}
  BY <1>6 DEF TableInv
<1>7. \/ KernelPost \/ KernelPostLate \/ KernelFault \/ Exited \/ UNCHANGED vars
      \/ EndSendFd \/ SubmitReads \/ DrainReads \/ Verified
      \/ ~ret' \/ pc' \notin {"verify", "reads", "out"}
  BY DEF Next, Program, Setup, SetupFails, BeginData, OpenTarget, OpenTargetFails,
         SubmitBatch, SubmitFails, DrainSource, EnterTarget, TargetTimesOut, DrainTarget,
         EndData, FlushTarget, Verdict, Out, Cleanup, Abort, ReturnFrom, AfterSource
<1> QED BY <1>1, <1>2, <1>3, <1>4, <1>5, <1>6, <1>7

-----------------------------------------------------------------------------
(* Passing rows                                                            *)

\* A row is written where execute_once returns, and passes where it says so.
LEMMA PassingIs ==
    PlaceInv /\ ExitInv /\ [Next]_vars /\ PassingRow
      => \/ pc = "verdict" /\ profile # "f0" /\ SemanticPass
         \/ pc = "out" /\ profile = "f0" /\ ret /\ SemanticPass
<1> SUFFICES ASSUME PlaceInv, ExitInv, [Next]_vars, PassingRow
             PROVE  \/ pc = "verdict" /\ profile # "f0" /\ SemanticPass
                    \/ pc = "out" /\ profile = "f0" /\ ret /\ SemanticPass
  OBVIOUS
<1>1. rows \in Seq(BOOLEAN) /\ Len(rows) \in Nat
  BY DEF ExitInv
<1>2. ~UNCHANGED rows
  BY <1>1 DEF PassingRow
<1>3. ASSUME NEW pass \in BOOLEAN, ReturnFrom(pass) PROVE pass
  <2>1. rows' = Append(rows, pass)
    BY <1>2, <1>3 DEF ReturnFrom
  <2>2. Len(rows') = Len(rows) + 1 /\ rows'[Len(rows) + 1] = pass
    BY <1>1, <2>1
  <2> QED BY <2>2 DEF PassingRow
<1>4. Verdict \/ Out \/ Abort
  BY <1>2 DEF Next, Program, Setup, SetupFails, BeginData, OpenTarget, OpenTargetFails,
         SubmitBatch, SubmitFails, DrainSource, EnterTarget, TargetTimesOut, DrainTarget,
         EndData, FlushTarget, EndSendFd, SubmitReads, DrainReads, Verified, Cleanup,
         KernelPost, KernelPostLate, KernelFault, Exited, vars, runVars
<1>5. CASE Verdict
  <2>1. SemanticPass \in BOOLEAN
    BY DEF SemanticPass
  <2> QED BY <1>3, <1>5, <2>1 DEF Verdict, PlaceInv
<1>6. CASE Out
  <2>1. PICK ok : ReturnFrom(ret /\ ok /\ SemanticPass)
    BY <1>6 DEF Out
  <2>2. (ret /\ ok /\ SemanticPass) \in BOOLEAN
    OBVIOUS
  <2>3. ret /\ ok /\ SemanticPass
    BY <1>3, <2>1, <2>2
  <2> QED BY <1>6, <2>3 DEF Out, PlaceInv
<1>7. CASE Abort
  BY <1>2, <1>3, <1>7 DEF Abort
<1> QED BY <1>4, <1>5, <1>6, <1>7

LEMMA DataEarned ==
    ASSUME PlaceInv, ExitInv, ReadInv, pc = "verdict", SemanticPass
    PROVE  Earned
<1>1. profile # "f0" /\ batch = Batches /\ ret /\ Clean /\ pc \in InCall
  BY DEF PlaceInv, ExitInv, SemanticPass, Clean, Running, InCall, InData
<1>2. ~strayed /\ OnceEach(reaped, Keys("source", Batches) \cup Keys("target", Batches))
  BY <1>1 DEF ReadInv, Drained
<1> DEFINE all == UNION {Sent(s, 0) : s \in Slots}
<1>3. all = {<<"source", s, 0>> : s \in Slots} \cup {<<"target", s, Value(s)>> : s \in Slots}
  <2>1. \A s : Sent(s, 0) = {<<"source", s, 0>>, <<"target", s, Value(s)>>}
    BY <1>1 DEF Sent
  <2>2. all = UNION {{<<"source", s, 0>>, <<"target", s, Value(s)>>} : s \in Slots}
    BY <2>1
  <2> QED BY <2>2
<1>4. \A tag : Keys(tag, Batches) = {<<tag, s>> : s \in Slots}
  BY Rounds DEF Keys
<1>5. DOMAIN reaped \subseteq all
  <2> SUFFICES ASSUME NEW c \in DOMAIN reaped PROVE c \in all
    OBVIOUS
  <2>1. /\ c = <<c[1], c[2], c[3]>> /\ Good(c)
        /\ Key(c) \in Keys("source", Batches) \cup Keys("target", Batches)
    BY <1>2 DEF OnceEach, Triple
  <2>2. c[2] \in Slots /\ c[1] \in {"source", "target"}
    BY <1>4, <2>1 DEF Key
  <2>3. c[3] = IF c[1] = "source" THEN 0 ELSE Value(c[2])
    BY <1>1, <2>1, <2>2 DEF Good
  <2> QED BY <1>3, <2>1, <2>2, <2>3
<1>6. all \subseteq DOMAIN reaped
  <2> SUFFICES ASSUME NEW a \in all PROVE a \in DOMAIN reaped
    OBVIOUS
  <2>1. PICK s \in Slots : a \in {<<"source", s, 0>>, <<"target", s, Value(s)>>}
    BY <1>3
  <2>2. Key(a) \in Keys("source", Batches) \cup Keys("target", Batches)
    BY <1>4, <2>1 DEF Key
  <2>3. PICK c \in DOMAIN reaped : Key(c) = Key(a)
    BY <1>2, <2>2 DEF OnceEach
  <2>4. c \in all
    BY <1>5
  <2>5. c = a
    BY <1>3, <2>1, <2>3, <2>4 DEF Key
  <2> QED BY <2>5
<1>7. reaped = SetToBag(all)
  BY <1>2, <1>5, <1>6, SetBag DEF OnceEach
<1> QED BY <1>1, <1>2, <1>7 DEF Earned

\* The slots named on the two sides are a permutation of the table's slots.
LEMMA SendFdEarned ==
    ASSUME PlaceInv, ReadInv, pc = "out", ret, SemanticPass
    PROVE  Earned
<1> DEFINE keys == Keys("source", Batches) \cup Keys("target", Batches) \cup Keys("verify", Batches)
<1>1. profile = "f0" /\ Clean /\ pc \in InCall
  BY DEF PlaceInv, SemanticPass, Clean, InCall, InData
<1>2. ~strayed /\ OnceEach(reaped, keys) /\ SlotInv
  BY <1>1 DEF ReadInv, Drained
<1>3. \A tag : Keys(tag, Batches) = {<<tag, s>> : s \in Slots}
  BY Rounds DEF Keys
<1>4. \A c \in DOMAIN reaped :
         /\ c = <<c[1], c[2], c[3]>> /\ c[1] \in {"source", "target", "verify"}
         /\ c[2] \in Slots
         /\ c[3] \in (IF c[1] = "verify" THEN {1} ELSE Slots)
  <2> SUFFICES ASSUME NEW c \in DOMAIN reaped
               PROVE  /\ c = <<c[1], c[2], c[3]>> /\ c[1] \in {"source", "target", "verify"}
                      /\ c[2] \in Slots
                      /\ c[3] \in (IF c[1] = "verify" THEN {1} ELSE Slots)
    OBVIOUS
  <2>1. c = <<c[1], c[2], c[3]>> /\ Good(c) /\ Key(c) \in keys
    BY <1>2 DEF OnceEach, Triple
  <2>2. c[2] \in Slots /\ c[1] \in {"source", "target", "verify"}
    BY <1>3, <2>1 DEF Key
  <2> QED BY <1>1, <2>1, <2>2 DEF Good
<1>5. \A tag \in {"source", "target", "verify"}, s \in Slots :
         \E c \in DOMAIN reaped : c[1] = tag /\ c[2] = s
  <2> SUFFICES ASSUME NEW tag \in {"source", "target", "verify"}, NEW s \in Slots
               PROVE  \E c \in DOMAIN reaped : c[1] = tag /\ c[2] = s
    OBVIOUS
  <2>1. <<tag, s>> \in keys
    BY <1>3
  <2>2. PICK c \in DOMAIN reaped : Key(c) = <<tag, s>>
    BY <1>2, <2>1 DEF OnceEach
  <2> QED BY <2>2 DEF Key
<1>6. \A c, d \in DOMAIN reaped : c[1] = d[1] /\ c[2] = d[2] => c = d
  BY <1>2 DEF OnceEach, Key
<1> DEFINE slot == [s \in Slots |-> CHOOSE t \in Slots : <<"source", s, t>> \in DOMAIN reaped]
<1>7. ASSUME NEW s \in Slots PROVE slot[s] \in Slots /\ <<"source", s, slot[s]>> \in DOMAIN reaped
  <2>1. PICK c \in DOMAIN reaped : c[1] = "source" /\ c[2] = s
    BY <1>5
  <2>2. c[3] \in Slots /\ <<"source", s, c[3]>> \in DOMAIN reaped
    BY <1>4, <2>1
  <2> QED BY <2>2
<1>8. slot \in [Slots -> Slots]
  BY <1>7
<1> HIDE DEF slot
<1>9. ASSUME NEW c \in DOMAIN reaped, c[1] = "target"
      PROVE  c[3] = slot[c[2]]
  <2>1. <<"source", c[2], c[3]>> \in DOMAIN reaped /\ c[2] \in Slots
    BY <1>2, <1>4, <1>9 DEF SlotInv
  <2>2. <<"source", c[2], slot[c[2]]>> \in DOMAIN reaped
    BY <1>7, <2>1
  <2>3. <<"source", c[2], c[3]>> = <<"source", c[2], slot[c[2]]>>
    BY <1>6, <2>1, <2>2
  <2> QED BY <2>3
<1>10. ASSUME NEW s \in Slots PROVE <<"target", s, slot[s]>> \in DOMAIN reaped
  <2>1. PICK c \in DOMAIN reaped : c[1] = "target" /\ c[2] = s
    BY <1>5
  <2> QED BY <1>4, <1>9, <2>1
<1>11. ASSUME NEW s \in Slots PROVE <<"verify", s, 1>> \in DOMAIN reaped
  <2>1. PICK c \in DOMAIN reaped : c[1] = "verify" /\ c[2] = s
    BY <1>5
  <2> QED BY <1>4, <2>1
<1>12. \A s, t \in Slots : slot[s] = slot[t] => s = t
  <2>1. \A t \in Slots : \E s \in Slots : slot[s] = t
    <3> SUFFICES ASSUME NEW t \in Slots PROVE \E s \in Slots : slot[s] = t
      OBVIOUS
    <3>1. PICK c \in DOMAIN reaped : c[1] = "target" /\ c[3] = t
      BY <1>2 DEF SlotInv
    <3> QED BY <1>4, <1>9, <3>1
  <2>2. slot \in Surjection(Slots, Slots)
    BY <1>8, <2>1 DEF Surjection
  <2>3. IsFiniteSet(Slots)
    <3>1. End(Batches) - 1 \in Int
      BY Ends, Sizes
    <3> QED BY <3>1, Rounds, FS_Interval
  <2>4. slot \in Injection(Slots, Slots)
    BY <2>2, <2>3, FS_SurjSameCardinalityImpliesInj
  <2> QED BY <1>8, <2>4 DEF Injection, IsInjective
<1> DEFINE sent == UNION {Sent(s, slot[s]) : s \in Slots}
           all == sent \cup {<<"verify", s, 1>> : s \in Slots}
<1>13. all = {<<"source", s, slot[s]>> : s \in Slots} \cup {<<"target", s, slot[s]>> : s \in Slots}
               \cup {<<"verify", s, 1>> : s \in Slots}
  <2>1. \A s : Sent(s, slot[s]) = {<<"source", s, slot[s]>>, <<"target", s, slot[s]>>}
    BY <1>1 DEF Sent
  <2>2. sent = UNION {{<<"source", s, slot[s]>>, <<"target", s, slot[s]>>} : s \in Slots}
    BY <2>1
  <2>3. UNION {{<<"source", s, slot[s]>>, <<"target", s, slot[s]>>} : s \in Slots} =
           {<<"source", s, slot[s]>> : s \in Slots} \cup {<<"target", s, slot[s]>> : s \in Slots}
    OBVIOUS
  <2>4. sent = {<<"source", s, slot[s]>> : s \in Slots} \cup {<<"target", s, slot[s]>> : s \in Slots}
    BY <2>2, <2>3
  <2> HIDE DEF sent
  <2> QED BY <2>4
<1>14. all \subseteq DOMAIN reaped
  BY <1>7, <1>10, <1>11, <1>13
<1>15. DOMAIN reaped \subseteq all
  <2> SUFFICES ASSUME NEW c \in DOMAIN reaped PROVE c \in all
    OBVIOUS
  <2>1. c[1] \in {"source", "target", "verify"} /\ c[2] \in Slots
    BY <1>4
  <2>2. PICK a \in DOMAIN reaped : a \in all /\ a[1] = c[1] /\ a[2] = c[2]
    <3>1. CASE c[1] = "source"
      <4> DEFINE a == <<"source", c[2], slot[c[2]]>>
      <4>1. a \in DOMAIN reaped /\ a \in all
        BY <1>7, <1>13, <2>1
      <4>2. a[1] = c[1] /\ a[2] = c[2]
        BY <3>1
      <4> QED BY <4>1, <4>2
    <3>2. CASE c[1] = "target"
      <4> DEFINE a == <<"target", c[2], slot[c[2]]>>
      <4>1. a \in DOMAIN reaped /\ a \in all
        BY <1>10, <1>13, <2>1
      <4>2. a[1] = c[1] /\ a[2] = c[2]
        BY <3>2
      <4> QED BY <4>1, <4>2
    <3>3. CASE c[1] = "verify"
      <4> DEFINE a == <<"verify", c[2], 1>>
      <4>1. a \in DOMAIN reaped /\ a \in all
        BY <1>11, <1>13, <2>1
      <4>2. a[1] = c[1] /\ a[2] = c[2]
        BY <3>3
      <4> QED BY <4>1, <4>2
    <3> QED BY <2>1, <3>1, <3>2, <3>3
  <2> QED BY <1>6, <2>2
<1>16. reaped = SetToBag(all)
  BY <1>2, <1>14, <1>15, SetBag DEF OnceEach
<1>17. \E f \in [Slots -> Slots] :
          /\ \A s, t \in Slots : f[s] = f[t] => s = t
          /\ reaped = SetToBag((UNION {Sent(s, f[s]) : s \in Slots})
                                 \cup {<<"verify", s, 1>> : s \in Slots})
  <2> USE <1>8
  <2> WITNESS slot \in [Slots -> Slots]
  <2>1. \A s, t \in Slots : slot[s] = slot[t] => s = t
    BY <1>12
  <2>2. reaped = SetToBag((UNION {Sent(s, slot[s]) : s \in Slots})
                             \cup {<<"verify", s, 1>> : s \in Slots})
    BY <1>16
  <2> QED BY <2>1, <2>2
<1> QED BY <1>1, <1>2, <1>17 DEF Earned

-----------------------------------------------------------------------------
(* Completions under way when no fault occurs                              *)

\* A step that moves no completion.
LEMMA FlightStays ==
    ASSUME FlightInv, faults' \in Nat, faults' = 0 => faults = 0, pc \in Running,
           UNCHANGED <<posting, late, cq, reaped>>,
           Submitted \subseteq Submitted', pc' \in InCall => pc \in InCall
    PROVE  FlightInv'
<1> SUFFICES ASSUME faults' = 0 PROVE PathInv' /\ KeysInv'
  BY DEF FlightInv
<1>1. PathInv /\ KeysInv
  BY DEF FlightInv
<1>2. InFlight' = InFlight
  BY DEF InFlight
<1>3. PathInv'
  BY <1>1, <1>2 DEF PathInv, Key
<1>4. KeysInv'
  BY <1>1, <1>2 DEF KeysInv, Key
<1> QED BY <1>3, <1>4

LEMMA SubmittedIs ==
    /\ pc \in {"setup", "call"} => Submitted = {}
    /\ pc \in {"batch", "flush", "verdict"} =>
          Submitted = Keys("source", batch) \cup Keys("target", batch)
    /\ pc \in {"source", "target", "reap"} =>
          Submitted = Keys("source", batch + 1) \cup Keys("target", batch + 1)
    /\ pc = "verify" =>
          Submitted = Keys("source", Batches) \cup Keys("target", Batches) \cup Keys("verify", batch)
    /\ pc = "reads" =>
          Submitted = Keys("source", Batches) \cup Keys("target", Batches)
                        \cup Keys("verify", batch + 1)
    /\ pc = "out" =>
          Submitted = Keys("source", Batches) \cup Keys("target", Batches)
                        \cup Keys("verify", Batches)
BY DEF Submitted

LEMMA QuietFlight ==
    PlaceInv /\ FlightInv
      /\ (\/ EnterTarget \/ EndData \/ FlushTarget \/ Verified \/ EndSendFd \/ Setup)
      => FlightInv'
<1> SUFFICES ASSUME PlaceInv, FlightInv,
                    \/ EnterTarget \/ EndData \/ FlushTarget \/ Verified \/ EndSendFd \/ Setup
             PROVE  FlightInv'
  OBVIOUS
<1>1. /\ UNCHANGED <<run, call, posting, late, cq, reaped, faults>>
      /\ \/ pc = "setup" /\ pc' = "call"
         \/ pc = "target" /\ pc' = "reap" /\ batch' = batch
         \/ pc = "batch" /\ pc' \in {"flush", "verdict"} /\ batch' = batch
         \/ pc = "flush" /\ pc' = "verdict" /\ batch' = batch
         \/ pc = "verify" /\ pc' = "out" /\ batch' = batch /\ batch = Batches
         \/ pc = "batch" /\ pc' \in {"verify", "out"} /\ batch' = 0 /\ batch = Batches
  BY DEF EnterTarget, EndData, FlushTarget, Verified, EndSendFd, Setup, runVars, kernVars,
         callVars, histVars
<1>2. Batches' = Batches /\ profile' = profile
  BY <1>1, SameRun, SameCall
<1>3. Submitted \subseteq Submitted'
  BY <1>1, <1>2 DEF Submitted
<1>4. pc \in Running /\ (pc' \in InCall => pc \in InCall)
  BY <1>1 DEF Running, InCall, InData
<1>5. faults' \in Nat
  BY <1>1 DEF FlightInv
<1> QED BY <1>1, <1>3, <1>4, <1>5, FlightStays

\* The new round begins with nothing submitted.
LEMMA BeginFlight ==
    PlaceInv /\ FlightInv /\ (BeginData \/ OpenTarget) => FlightInv'
<1> SUFFICES ASSUME PlaceInv, FlightInv, BeginData \/ OpenTarget, faults = 0
             PROVE  faults' = faults /\ PathInv' /\ KeysInv'
  BY DEF FlightInv, BeginData, OpenTarget, kernVars
<1>1. /\ pc = "call" /\ pc' = "batch" /\ reaped' = EmptyBag
      /\ UNCHANGED <<posting, late, cq, faults>>
  BY DEF BeginData, OpenTarget, NewCall, kernVars
<1>2. PathInv /\ KeysInv
  BY <1>1 DEF FlightInv, Running
<1>3. InFlight' = InFlight /\ InFlight = {}
  BY <1>1, <1>2, SubmittedIs DEF InFlight, KeysInv
<1>4. PathInv'
  BY <1>1, <1>2, <1>3 DEF PathInv
<1>5. KeysInv'
  BY <1>1, <1>3, NoBag DEF KeysInv
<1> QED BY <1>1, <1>4, <1>5

LEMMA PostFlight == BagsInv /\ FlightInv /\ (KernelPost \/ KernelPostLate) => FlightInv'
<1> SUFFICES ASSUME BagsInv, FlightInv, KernelPost \/ KernelPostLate,
                    pc \in Running, faults = 0
             PROVE  UNCHANGED <<pc, faults>> /\ PathInv' /\ KeysInv'
  BY DEF FlightInv, KernelPost, KernelPostLate
<1>1. PathInv /\ KeysInv
  BY DEF FlightInv
<1>2. KernelPost
  BY <1>1, SetBag DEF KernelPostLate, PathInv
<1>3. PICK c \in DOMAIN posting : Post(c) /\ posting' = posting (-) One(c)
  BY <1>2 DEF KernelPost
<1>4. UNCHANGED <<run, pc, callVars, runVars, late, faults, reaped>>
  BY <1>2 DEF KernelPost, histVars
<1>5. DOMAIN One(c) = {c} /\ One(c)[c] = 1
  BY SetBag DEF One
<1>6. /\ IsBag(posting') /\ DOMAIN posting' = DOMAIN posting \ {c}
      /\ \A d \in DOMAIN posting' : posting'[d] = 1
  <2>1. IsBag(posting') /\ DOMAIN posting' \subseteq DOMAIN posting
    BY <1>3, MinusBag
  <2>2. c \notin DOMAIN posting'
    BY <1>1, <1>3, <1>5, MinusCounts DEF PathInv
  <2>3. \A d \in DOMAIN posting \ {c} : posting[d] = 1
    BY <1>1 DEF PathInv
  <2>4. \A d \in DOMAIN posting' : posting'[d] = 1
    BY <1>3, <1>5, <2>1, <2>2, <2>3, MinusCounts
  <2>5. \A d \in DOMAIN posting \ {c} : d \in DOMAIN posting'
    BY <1>3, <1>5, <2>3 DEF (-)
  <2> QED BY <2>1, <2>2, <2>4, <2>5
<1>7. \/ /\ c[1] = "source" /\ cq.target' = cq.target
         /\ DOMAIN cq.source' = DOMAIN cq.source \cup {c}
      \/ /\ c[1] # "source" /\ cq.source' = cq.source
         /\ DOMAIN cq.target' = DOMAIN cq.target \cup {c}
  <2>1. Triple(c)
    BY DEF BagsInv
  <2> QED BY <1>3, <1>4, <1>6, <2>1, PostBags
<1>8. InFlight' = InFlight
  BY <1>6, <1>7 DEF InFlight
<1>9. PathInv'
  <2>1. DOMAIN posting' \cap (DOMAIN cq.source' \cup DOMAIN cq.target') = {}
    BY <1>1, <1>6, <1>7 DEF PathInv
  <2>2. /\ \A d \in DOMAIN cq.source' : d[1] = "source"
        /\ \A d \in DOMAIN cq.target' : d[1] # "source"
    BY <1>1, <1>7 DEF PathInv
  <2> QED BY <1>1, <1>4, <1>6, <1>8, <2>1, <2>2 DEF PathInv, Key
<1>10. KeysInv'
  <2>1. Submitted' = Submitted
    BY <1>4, SameCall DEF Submitted, runVars, callVars
  <2> QED BY <1>1, <1>4, <1>8, <2>1 DEF KeysInv, Key
<1> QED BY <1>4, <1>9, <1>10

\* New messages have numbers of their own.
LEMMA QueuedFlight ==
    ASSUME BagsInv, PathInv, KeysInv, NEW S, \A c \in S : Triple(c),
           posting' = posting (+) SetToBag(S), UNCHANGED <<late, cq, reaped>>,
           pc \in InCall, pc' \in InCall,
           Submitted \subseteq Submitted',
           \A c \in S : Key(c) \in Submitted' /\ Key(c) \notin Submitted,
           \A c, d \in S : Key(c) = Key(d) => c = d
    PROVE  PathInv' /\ KeysInv'
<1>1. /\ \A c \in InFlight : Key(c) \in Submitted
      /\ \A c \in DOMAIN reaped : Key(c) \in Submitted
      /\ \A c \in InFlight, d \in DOMAIN reaped : Key(c) # Key(d)
  BY DEF KeysInv
<1>2. S \cap InFlight = {}
  BY <1>1
<1>3. /\ DOMAIN posting' = DOMAIN posting \cup S
      /\ \A c \in DOMAIN posting' : posting'[c] = 1
  <2>1. DOMAIN posting \cap S = {}
    BY <1>2 DEF InFlight
  <2>2. \A c \in DOMAIN posting : posting[c] = 1
    BY DEF PathInv
  <2> QED BY <2>1, <2>2, QueuedBags
<1>4. InFlight' = InFlight \cup S
  BY <1>3 DEF InFlight
<1>5. PathInv'
  <2>1. DOMAIN posting' \cap (DOMAIN cq.source' \cup DOMAIN cq.target') = {}
    BY <1>2, <1>3 DEF PathInv, InFlight
  <2>2. \A c, d \in InFlight \cup S : Key(c) = Key(d) => c = d
    BY <1>1 DEF PathInv
  <2> QED BY <1>3, <1>4, <2>1, <2>2 DEF PathInv, Key
<1>6. KeysInv'
  <2>1. \A c \in InFlight \cup S : Key(c) \in Submitted'
    BY <1>1
  <2>2. \A c \in InFlight \cup S, d \in DOMAIN reaped : Key(c) # Key(d)
    BY <1>1
  <2> QED BY <1>1, <1>4, <2>1, <2>2 DEF KeysInv, Key
<1> QED BY <1>5, <1>6

LEMMA SubmitFlight ==
    PlaceInv /\ BagsInv /\ FlightInv /\ (SubmitBatch \/ SubmitReads) => FlightInv'
<1> SUFFICES ASSUME PlaceInv, BagsInv, FlightInv, SubmitBatch \/ SubmitReads, faults = 0
             PROVE  faults' = faults /\ PathInv' /\ KeysInv'
  BY DEF FlightInv, SubmitBatch, SubmitReads
<1>1. /\ UNCHANGED <<run, call, batch, late, cq, reaped, faults>> /\ batch \in Nat
      /\ \/ SubmitBatch /\ pc = "batch" /\ pc' = "source"
         \/ SubmitReads /\ pc = "verify" /\ pc' = "reads"
  BY DEF SubmitBatch, SubmitReads, runVars, callVars, histVars, PlaceInv
<1>2. pc \in InCall /\ pc' \in InCall /\ pc \in Running
  BY <1>1 DEF InCall, InData, Running
<1>3. PathInv /\ KeysInv
  BY <1>2 DEF FlightInv
<1>4. Batches' = Batches
  BY <1>1, SameCall
<1>5. /\ \A tag : /\ Keys(tag, batch + 1) = Keys(tag, batch) \cup Batch(tag)
                  /\ Keys(tag, batch) \cap Batch(tag) = {}
      /\ \A tag, other, b : tag # other => Keys(tag, b) \cap Batch(other) = {}
  <2>1. \A tag : /\ Keys(tag, batch + 1) = Keys(tag, batch) \cup Batch(tag)
                 /\ Keys(tag, batch) \cap Batch(tag) = {}
    BY <1>1, MoreKeys DEF Batch
  <2>2. \A tag, other, b : tag # other => Keys(tag, b) \cap Batch(other) = {}
    BY DEF Keys, Batch
  <2> QED BY <2>1, <2>2
<1>6. CASE SubmitBatch
  <2>1. PICK slot \in Allocations :
           posting' = posting (+) SetToBag(UNION {Sent(s, slot[s]) : s \in Window})
    BY <1>6 DEF SubmitBatch
  <2> DEFINE S == UNION {Sent(s, slot[s]) : s \in Window}
  <2>2. /\ \A c \in S : Triple(c) /\ c[1] \in {"source", "target"} /\ c[2] \in Window
        /\ \A c, d \in S : Key(c) = Key(d) => c = d
    BY SentIs
  <2>3. posting' = posting (+) SetToBag(S)
    BY <2>1
  <2> HIDE DEF S
  <2>4. \A c \in S : Key(c) \in Batch("source") \cup Batch("target")
    BY <2>2 DEF Key, Batch
  <2>5. /\ Submitted = Keys("source", batch) \cup Keys("target", batch)
        /\ Submitted' = Submitted \cup Batch("source") \cup Batch("target")
        /\ Submitted \cap (Batch("source") \cup Batch("target")) = {}
    <3>1. pc = "batch" /\ pc' = "source" /\ batch' = batch
      BY <1>1, <1>6 DEF SubmitBatch
    <3>2. Submitted = Keys("source", batch) \cup Keys("target", batch)
      BY <3>1, SubmittedIs
    <3>3. Submitted' = Keys("source", batch + 1) \cup Keys("target", batch + 1)
      BY <3>1 DEF Submitted
    <3> QED BY <1>5, <3>2, <3>3
  <2> QED BY <1>1, <1>2, <1>3, <2>2, <2>3, <2>4, <2>5, QueuedFlight
<1>7. CASE SubmitReads
  <2> DEFINE S == {<<"verify", s, IF table[ReadSlot(s)] = "empty" THEN -1 ELSE 1>> : s \in Window}
             data == Keys("source", Batches) \cup Keys("target", Batches)
  <2>1. posting' = posting (+) SetToBag(S)
    BY <1>7 DEF SubmitReads
  <2>2. \A c \in S : Triple(c) /\ Key(c) \in Batch("verify")
    BY ReadsAre DEF Key, Batch
  <2>3. \A c, d \in S : Key(c) = Key(d) => c = d
    BY DEF Key
  <2> HIDE DEF S
  <2>4. /\ Submitted = data \cup Keys("verify", batch)
        /\ Submitted' = Submitted \cup Batch("verify")
        /\ Submitted \cap Batch("verify") = {}
    <3>1. pc = "verify" /\ pc' = "reads" /\ batch' = batch
      BY <1>1, <1>7 DEF SubmitReads
    <3>2. Submitted = data \cup Keys("verify", batch)
      BY <3>1, SubmittedIs
    <3>3. Submitted' = data \cup Keys("verify", batch + 1)
      BY <1>4, <3>1 DEF Submitted
    <3>4. data \cap Batch("verify") = {}
      BY <1>5
    <3> QED BY <1>5, <3>2, <3>3, <3>4
  <2> QED BY <1>1, <1>2, <1>3, <2>1, <2>2, <2>3, <2>4, QueuedFlight
<1> QED BY <1>1, <1>6, <1>7

\* What is drained is no longer under way.
LEMMA DrainFlight ==
    PlaceInv /\ BagsInv /\ FlightInv /\ (DrainSource \/ DrainTarget \/ DrainReads)
      => FlightInv'
<1> SUFFICES ASSUME PlaceInv, BagsInv, FlightInv, DrainSource \/ DrainTarget \/ DrainReads,
                    faults = 0
             PROVE  faults' = faults /\ PathInv' /\ KeysInv'
  BY DEF FlightInv, DrainSource, DrainTarget, DrainReads
<1>1. /\ UNCHANGED <<run, call, posting, late, faults>> /\ batch \in Nat
      /\ \/ /\ pc = "source" /\ pc' \in {"target", "reap"} /\ batch' = batch
            /\ Reap("source", "source")
         \/ pc = "reap" /\ pc' = "batch" /\ batch' = batch + 1 /\ Reap("target", "target")
         \/ pc = "reads" /\ pc' = "verify" /\ batch' = batch + 1 /\ Reap("target", "verify")
  BY DEF DrainSource, DrainTarget, DrainReads, runVars, PlaceInv, AfterSource
<1>2. pc \in InCall /\ pc \in Running
  BY <1>1 DEF InCall, InData, Running
<1>3. PathInv /\ KeysInv
  BY <1>2 DEF FlightInv
<1>4. Submitted' = Submitted
  <2>1. Batches' = Batches
    BY <1>1, SameCall
  <2> QED BY <1>1, <2>1 DEF Submitted
<1>5. PICK ring \in {"source", "target"}, tag \in {"source", "target", "verify"} : Reap(ring, tag)
  BY <1>1
<1>6. /\ reaped' = reaped (+) cq[ring] /\ DOMAIN reaped' = DOMAIN reaped \cup DOMAIN cq[ring]
      /\ DOMAIN cq[ring] \subseteq InFlight
  BY <1>5, PlusBag DEF Reap, InFlight
<1>7. /\ ring = "source" => cq.target' = cq.target /\ DOMAIN cq.source' = {}
      /\ ring = "target" => cq.source' = cq.source /\ DOMAIN cq.target' = {}
  BY <1>1, <1>5, DrainBags
<1>8. InFlight' \subseteq InFlight \ DOMAIN cq[ring]
  <2>1. DOMAIN cq.source \cap DOMAIN cq.target = {}
    BY <1>3 DEF PathInv
  <2>2. DOMAIN posting \cap DOMAIN cq[ring] = {}
    BY <1>3 DEF PathInv
  <2> QED BY <1>1, <1>7, <2>1, <2>2 DEF InFlight
<1>9. PathInv'
  BY <1>1, <1>3, <1>7, <1>8 DEF PathInv, Key
<1>10. KeysInv'
  <2>1. /\ \A c \in InFlight : Key(c) \in Submitted
        /\ \A c \in DOMAIN reaped : Key(c) \in Submitted
        /\ \A c \in InFlight, d \in DOMAIN reaped : Key(c) # Key(d)
    BY <1>2, <1>3 DEF KeysInv
  <2>2. \A c, d \in InFlight : Key(c) = Key(d) => c = d
    BY <1>3 DEF PathInv
  <2>3. \A c \in InFlight', d \in DOMAIN reaped' : Key(c) # Key(d)
    BY <1>6, <1>8, <2>1, <2>2
  <2>4. \A c \in InFlight' : Key(c) \in Submitted
    BY <1>8, <2>1
  <2>5. \A c \in DOMAIN reaped' : Key(c) \in Submitted
    BY <1>6, <2>1
  <2> QED BY <1>4, <2>3, <2>4, <2>5 DEF KeysInv, Key
<1> QED BY <1>1, <1>9, <1>10

\* All that was submitted was read, so that nothing is left for the next round.
LEMMA ReturnFlight ==
    PlaceInv /\ ExitInv /\ BagsInv /\ ReadInv /\ FlightInv /\ (Verdict \/ Out) => FlightInv'
<1> SUFFICES ASSUME PlaceInv, ExitInv, BagsInv, ReadInv, FlightInv, Verdict \/ Out
             PROVE  FlightInv'
  OBVIOUS
<1>1. pc \in {"verdict", "out"} /\ pc \in Running /\ pc \in InCall /\ reaped' = reaped
  BY DEF Verdict, Out, histVars, Running, InCall, InData
<1>2. /\ PlaceInv' /\ pc' \in {"call", "cleanup"}
      /\ pc' = "call" => ret /\ SemanticPass
  <2>1. PICK pass \in BOOLEAN : ReturnFrom(pass) /\ (pass => ret /\ SemanticPass)
    <3>1. CASE Verdict
      <4>1. ret /\ SemanticPass \in BOOLEAN
        BY <3>1 DEF ExitInv, Verdict, Running, InCall, InData, SemanticPass
      <4> QED BY <3>1, <4>1 DEF Verdict
    <3>2. CASE Out
      <4>1. PICK ok : ReturnFrom(ret /\ ok /\ SemanticPass)
        BY <3>2 DEF Out
      <4>2. (ret /\ ok /\ SemanticPass) \in BOOLEAN
        OBVIOUS
      <4> QED BY <4>1, <4>2
    <3> QED BY <3>1, <3>2
  <2>2. batch' = batch
    BY DEF Verdict, Out, callVars
  <2> QED BY <1>1, <2>1, <2>2, ReturnPlace DEF ReturnFrom, Continues
<1>3. faults' \in Nat /\ (faults' = 0 => faults = 0)
  <2>1. faults' \in {faults, faults + 1}
    BY DEF Verdict, Out, Unregister, kernVars
  <2> QED BY <2>1 DEF FlightInv
<1>4. InFlight' \subseteq InFlight /\ (DOMAIN late = {} => DOMAIN late' = {})
  <2>1. CASE Verdict
    BY <2>1 DEF Verdict, kernVars, InFlight
  <2>2. CASE Out
    <3>1. cq' = [source |-> cq.source, target |-> EmptyBag]
      BY <2>2 DEF Out, BagsInv
    <3>2. DOMAIN posting' \subseteq DOMAIN posting /\ (DOMAIN late = {} => DOMAIN late' = {})
      BY <2>2 DEF Out
    <3> QED BY <3>1, <3>2, NoBag DEF InFlight
  <2> QED BY <2>1, <2>2
<1> SUFFICES ASSUME faults' = 0, pc' \in Running PROVE PathInv' /\ KeysInv'
  BY <1>3 DEF FlightInv
<1>5. pc' = "call" /\ pc' \notin InCall /\ ret /\ Clean /\ PathInv /\ KeysInv
  BY <1>1, <1>2, <1>3 DEF Running, InCall, InData, SemanticPass, Clean, FlightInv
<1>6. OnceEach(reaped, Submitted)
  <2>1. Drained = Submitted
    BY <1>1 DEF Drained, Submitted
  <2> QED BY <1>1, <1>5, <2>1 DEF ReadInv
<1>7. InFlight = {}
  BY <1>1, <1>5, <1>6 DEF KeysInv, OnceEach
<1>8. InFlight' = {} /\ DOMAIN late' = {}
  BY <1>4, <1>5, <1>7 DEF PathInv
<1> QED BY <1>5, <1>8 DEF PathInv, KeysInv, InFlight

LEMMA FlightKept ==
    PlaceInv /\ ExitInv /\ BagsInv /\ ReadInv /\ FlightInv /\ [Next]_vars => FlightInv'
<1> SUFFICES ASSUME PlaceInv, ExitInv, BagsInv, ReadInv, FlightInv, [Next]_vars
             PROVE  FlightInv'
  OBVIOUS
<1>1. CASE SetupFails \/ OpenTargetFails \/ SubmitFails \/ KernelFault
  <2>1. faults' = faults + 1
    BY <1>1 DEF SetupFails, OpenTargetFails, SubmitFails, KernelFault
  <2> QED BY <2>1 DEF FlightInv
<1>2. CASE TargetTimesOut \/ Cleanup
  <2>1. faults' \in {faults, faults + 1}
    BY <1>2 DEF TargetTimesOut, Cleanup, Unregister, kernVars
  <2>2. pc' \in {"cleanup", "exited"}
    BY <1>2 DEF TargetTimesOut, Cleanup, Abort, ReturnFrom, Continues, PlaceInv
  <2> QED BY <2>1, <2>2 DEF FlightInv, Running, InCall, InData
<1>3. CASE Exited \/ UNCHANGED vars
  <2>1. UNCHANGED vars
    BY <1>3 DEF Exited
  <2>2. Submitted' = Submitted /\ UNCHANGED <<pc, posting, late, cq, reaped, faults>>
    BY <2>1, SameCall DEF vars, callVars, runVars, kernVars, histVars, Submitted
  <2> QED BY <2>2 DEF FlightInv, PathInv, KeysInv, InFlight, Key
<1> QED BY <1>1, <1>2, <1>3, QuietFlight, BeginFlight, PostFlight, SubmitFlight, DrainFlight,
        ReturnFlight DEF Next, Program

-----------------------------------------------------------------------------
(* The theorems                                                            *)

LEMMA StartInv == Init => IInv
<1> SUFFICES ASSUME Init PROVE IInv
  OBVIOUS
<1>1. ControlInv
  BY ControlInit
<1>2. BagsInv
  BY NoBag DEF Init, BagsInv, EmptyCqs
<1>3. FlagsInv
  BY DEF Init, FlagsInv, ZeroResult
<1>4. ReadInv /\ TableInv
  BY DEF Init, ReadInv, TableInv, InCall, InData
<1>5. FlightInv
  <2>1. InFlight = {} /\ DOMAIN late = {} /\ pc \notin InCall
    BY NoBag DEF Init, InFlight, EmptyCqs, InCall, InData
  <2>2. 0 \in Nat
    OBVIOUS
  <2> QED BY <2>1, <2>2 DEF Init, FlightInv, PathInv, KeysInv, InFlight
<1> QED BY <1>1, <1>2, <1>3, <1>4, <1>5 DEF ControlInv, IInv

LEMMA StepInv == IInv /\ [Next]_vars => IInv'
<1> SUFFICES ASSUME IInv, [Next]_vars PROVE IInv'
  OBVIOUS
<1>1. ControlInv'
  BY ControlKeeps DEF ControlInv, IInv
<1>2. BagsInv'
  <2>1. UNCHANGED vars => BagsInv'
    BY DEF IInv, BagsInv, vars, kernVars
  <2> QED BY <2>1, BagsKept DEF IInv
<1>3. FlagsInv'
  <2>1. UNCHANGED vars => FlagsInv'
    BY DEF IInv, FlagsInv, vars, callVars
  <2> QED BY <2>1, FlagsKept DEF IInv
<1>4. ReadInv' /\ TableInv' /\ FlightInv'
  BY ReadKept, TableKept, FlightKept DEF IInv
<1> QED BY <1>1, <1>2, <1>3, <1>4 DEF ControlInv, IInv

\* A passing row is earned (RowEarned): every message of the round was read exactly
\* once on each side, in the batch that sent it, with its value or with a slot no
\* other message got, f0's slots were read back, and nothing else was read;
\* whatever the kernel doubled, lost, delayed, misaddressed or answered wrongly.
THEOREM RowsEarned == Spec => RowEarned
<1>1. IInv /\ [Next]_vars => [PassingRow => Earned]_vars
  BY PassingIs, DataEarned, SendFdEarned DEF IInv
<1> QED BY <1>1, StartInv, StepInv, PTL DEF Spec, RowEarned

\* When a row of f0 passes, every slot of the target's table holds the file that
\* was sent (SlotsHoldTheFile): the reads cover all slots, and the table does not
\* change between the first of them and the verdict.
THEOREM SlotsHold == Spec => SlotsHoldTheFile
<1> DEFINE Held == PassingRow /\ profile = "f0" => \A s \in Slots : table[s] = "sentinel"
<1>1. IInv /\ [Next]_vars => Held
  <2> SUFFICES ASSUME IInv, [Next]_vars, PassingRow, profile = "f0"
               PROVE  \A s \in Slots : table[s] = "sentinel"
    OBVIOUS
  <2>1. pc = "out" /\ ret /\ SemanticPass
    BY PassingIs DEF IInv
  <2> QED BY <2>1 DEF IInv, TableInv, Clean, SemanticPass
<1>2. IInv /\ [Next]_vars => [Held]_vars
  BY <1>1
<1> QED BY <1>2, StartInv, StepInv, PTL DEF Spec, SlotsHoldTheFile

\* While no fault has occurred, a round begins with nothing under way and nothing
\* unread (StartsClean), whichever waits timed out: a round that left something
\* behind did not pass, and ended the run.
THEOREM CleanCalls == Spec => []StartsClean
<1>1. IInv => StartsClean
  <2> SUFFICES ASSUME IInv, pc = "call", faults = 0 PROVE posting = EmptyBag /\ cq = EmptyCqs
    BY DEF StartsClean
  <2>1. KeysInv /\ BagsInv
    BY DEF IInv, FlightInv, Running
  <2>2. InFlight = {}
    BY <2>1, SubmittedIs DEF KeysInv
  <2>3. \A B : IsBag(B) /\ DOMAIN B = {} => B = EmptyBag
    BY NoBag DEF IsBag
  <2>4. posting = EmptyBag /\ cq.source = EmptyBag /\ cq.target = EmptyBag
    BY <2>1, <2>2, <2>3 DEF BagsInv, InFlight
  <2> QED BY <2>1, <2>4 DEF BagsInv, EmptyCqs
<1> QED BY <1>1, StartInv, StepInv, PTL DEF Spec
=============================================================================
