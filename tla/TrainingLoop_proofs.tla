------------------------- MODULE TrainingLoop_proofs -------------------------
(***************************************************************************)
(* Proofs about the synchronous training loops, for every configuration,   *)
(* length of the data and number of restarts.                              *)
(***************************************************************************)
EXTENDS TrainingLoop, SequenceTheorems, WellFoundedInduction, TLAPS

LEMMA ConstantTypes ==
    /\ DataLen \in Nat /\ DataLen >= 1
    /\ Prompts \in Nat /\ Prompts >= 1
  BY LoopAssumption

LEMMA ConfigTypes ==
  ASSUME NEW c \in Configs
  PROVE  c.kind \in Kinds /\ (c.kvScales => c.kind = "grpo")
  BY LoopAssumption DEF ConfigType

-----------------------------------------------------------------------------
(* Types, as far as the proofs need them.                                  *)

Answered == [prompt : Int, version : Int]

CheckpointType ==
    /\ saved.total \in Nat /\ saved.step \in Nat /\ saved.epoch \in Nat
    /\ saved.learned \in Seq(Int)
    /\ saved.loader \in [pass : Nat, pos : 0 .. DataLen]

LoopType ==
    /\ conf \in Configs
    /\ total \in Nat /\ step \in Nat /\ epoch \in Nat
    /\ learned \in Seq(Int)
    /\ loader \in [pass : Nat, pos : 0 .. DataLen]
    /\ cache \in Seq(Answered)
    /\ group \in Seq(Int)
    /\ pc = "train" => Len(group) = Prompts
    /\ engine \in Int
    /\ CheckpointType

LEMMA InitLoopType == Init => LoopType
  BY ConstantTypes DEF Init, LoopType, CheckpointType, NoCheckpoint, NoVersion

LEMMA PromptIdType ==
  ASSUME NEW l \in [pass : Nat, pos : 0 .. DataLen], NEW j \in Int
  PROVE  PromptId(l, j) \in Int
  <1> DEFINE n == l.pass * DataLen + l.pos - 1
  <1>1. l.pass * DataLen \in Int
    BY ConstantTypes
  <1>2. n \in Int
    BY <1>1, ConstantTypes
  <1> HIDE DEF n
  <1>3. n * Prompts \in Int
    BY <1>2, ConstantTypes
  <1> QED
    BY <1>3 DEF PromptId, n

(* The batches of supervised training, and of the two that generate.       *)
LEMMA BatchTypes ==
  ASSUME LoopType, LoopStep
  PROVE  /\ cache' \in Seq(Answered)
         /\ group' \in Seq(Int)
         /\ pc' = "train" => Len(group') = Prompts
         /\ loader' \in [pass : Nat, pos : 0 .. DataLen]
  <1> USE ConstantTypes DEF LoopType
  <1>1. CASE NextBatch
    <2>1. loader' \in [pass : Nat, pos : 0 .. DataLen] /\ cache' = cache
      <3>1. /\ loader' = [loader EXCEPT !.pos = @ + 1] /\ cache' = cache
            /\ loader.pos < DataLen
        BY <1>1, Zenon DEF NextBatch
      <3>2. loader \in [pass : Nat, pos : 0 .. DataLen]
        OBVIOUS
      <3>3. loader.pos + 1 \in 0 .. DataLen /\ loader.pass \in Nat
        BY <3>1, <3>2
      <3>4. [loader EXCEPT !.pos = @ + 1] \in [pass : Nat, pos : 0 .. DataLen]
        BY <3>2, <3>3
      <3> QED
        BY <3>1, <3>4
    <2>2. CASE Generates
      BY <1>1, <2>1, <2>2 DEF NextBatch
    <2>3. CASE ~Generates
      <3>1. group' = [j \in 1 .. Prompts |-> PromptId(loader', j)]
        BY <1>1, <2>3 DEF NextBatch
      <3>2. \A j \in 1 .. Prompts : PromptId(loader', j) \in Int
        BY <2>1, PromptIdType
      <3>3. group' \in [1 .. Prompts -> Int]
        BY <3>1, <3>2
      <3>4. group' \in Seq(Int) /\ Len(group') = Prompts
        BY <3>3
      <3> QED
        BY <2>1, <3>4
    <2> QED
      BY <2>2, <2>3
  <1>2. CASE Rollout
    <2>1. PICK at \in Choices :
             cache' = cache \o [i \in DOMAIN at |->
                         [prompt |-> PromptId(loader, at[i]), version |-> engine]]
      BY <1>2 DEF Rollout
    <2>2. PICK n \in 0 .. Prompts : at \in [1 .. n -> 1 .. Prompts]
      BY DEF Choices
    <2>3. \A i \in 1 .. n : PromptId(loader, at[i]) \in Int
      BY <2>2, PromptIdType
    <2>4. [i \in DOMAIN at |-> [prompt |-> PromptId(loader, at[i]),
                                version |-> engine]] \in [1 .. n -> Answered]
      BY <2>2, <2>3 DEF Answered
    <2>5. cache' \in Seq(Answered)
      BY <2>1, <2>4
    <2> QED
      BY <1>2, <2>5 DEF Rollout
  <1>3. CASE BatchComplete
    <2>1. \A j \in 1 .. Prompts : cache[j].prompt \in Int
      <3>1. Prompts <= Len(cache) /\ cache \in Seq(Answered)
        BY <1>3 DEF BatchComplete
      <3> TAKE j \in 1 .. Prompts
      <3>2. cache[j] \in Answered
        BY <3>1
      <3> QED
        BY <3>2 DEF Answered
    <2>2. group' \in [1 .. Prompts -> Int]
      BY <1>3, <2>1 DEF BatchComplete
    <2>3. group' \in Seq(Int) /\ Len(group') = Prompts
      BY <2>2
    <2> QED
      BY <1>3, <2>3 DEF BatchComplete
  <1>4. CASE EndOfEpoch
    BY <1>4 DEF EndOfEpoch, sampling
  <1>5. CASE EnterEpoch \/ Advance
    <2>1. /\ cache' = <<>> /\ pc' # "train"
          /\ UNCHANGED <<group, loader>>
      BY <1>5 DEF EnterEpoch, Advance
    <2>2. <<>> \in Seq(Answered)
      OBVIOUS
    <2> QED
      BY <2>1, <2>2
  <1>6. CASE ~NextBatch /\ ~Rollout /\ ~BatchComplete /\ ~EndOfEpoch
             /\ ~EnterEpoch /\ ~Advance
    <2>1. UNCHANGED <<cache, group, loader>> /\ pc' # "train"
      BY <1>6 DEF LoopStep, SkipStartValidation, StartValidation,
            EndStartValidation, LeaveLoop, PrepareGRPORollouts,
            PrepareDistillationRollouts, DrawMore, TooManyBatches, Learn,
            Supervised, TrainSFT, TrainDPO, TrainRM, TrainDistillation,
            TrainGRPO, SkipValidation, ValidateSupervised, PrepareValidation,
            EndValidation, CheckSave, SaveCheckpoint, SkipSave, sampling
    <2> QED
      BY <2>1
  <1> QED
    BY <1>1, <1>2, <1>3, <1>4, <1>5, <1>6

LEMMA NextLoopType == LoopType /\ [Next]_vars => LoopType'
  <1> SUFFICES ASSUME LoopType, [Next]_vars PROVE LoopType'
    OBVIOUS
  <1> USE ConstantTypes
  <1>1. CASE LoopStep
    <2>1. conf' = conf
      BY <1>1 DEF LoopStep, SkipStartValidation, StartValidation,
            EndStartValidation, EnterEpoch, LeaveLoop, NextBatch, EndOfEpoch,
            PrepareGRPORollouts, PrepareDistillationRollouts, Rollout,
            DrawMore, TooManyBatches, BatchComplete, Supervised, TrainSFT,
            TrainDPO, TrainRM, TrainDistillation, TrainGRPO, SkipValidation,
            ValidateSupervised, PrepareValidation, EndValidation, CheckSave,
            SaveCheckpoint, SkipSave, Advance, outside
    <2>2. total' \in Nat /\ step' \in Nat /\ epoch' \in Nat
      <3>1. /\ total' \in {total, total + 1} /\ step' \in {step, step + 1, 0}
            /\ epoch' \in {epoch, epoch + 1}
        BY <1>1 DEF LoopStep, SkipStartValidation, StartValidation,
              EndStartValidation, EnterEpoch, LeaveLoop, NextBatch, EndOfEpoch,
              PrepareGRPORollouts, PrepareDistillationRollouts, Rollout,
              DrawMore, TooManyBatches, BatchComplete, Supervised, TrainSFT,
              TrainDPO, TrainRM, TrainDistillation, TrainGRPO, SkipValidation,
              ValidateSupervised, PrepareValidation, EndValidation, CheckSave,
              SaveCheckpoint, SkipSave, Advance, counters
      <3> QED
        BY <3>1 DEF LoopType
    <2>3. learned' \in Seq(Int)
      <3>1. learned' = learned \/ learned' = learned \o group
        BY <1>1 DEF LoopStep, SkipStartValidation, StartValidation,
              EndStartValidation, EnterEpoch, LeaveLoop, NextBatch, EndOfEpoch,
              PrepareGRPORollouts, PrepareDistillationRollouts, Rollout,
              DrawMore, TooManyBatches, BatchComplete, Learn, Supervised,
              TrainSFT, TrainDPO, TrainRM, TrainDistillation, TrainGRPO,
              SkipValidation, ValidateSupervised, PrepareValidation,
              EndValidation, CheckSave, SaveCheckpoint, SkipSave, Advance
      <3>2. learned \in Seq(Int) /\ group \in Seq(Int)
        BY DEF LoopType
      <3> QED
        BY <3>1, <3>2, ConcatProperties
    <2>4. engine' \in Int
      <3>1. engine' \in {engine, Version}
        BY <1>1 DEF LoopStep, SkipStartValidation, StartValidation,
              EndStartValidation, EnterEpoch, LeaveLoop, NextBatch, EndOfEpoch,
              PrepareGRPORollouts, PrepareDistillationRollouts, Rollout,
              DrawMore, TooManyBatches, BatchComplete, Supervised, TrainSFT,
              TrainDPO, TrainRM, TrainDistillation, TrainGRPO, SkipValidation,
              ValidateSupervised, PrepareValidation, EndValidation, CheckSave,
              SaveCheckpoint, SkipSave, Advance, generation,
              PrepareGeneration, Refit, WakeUp
      <3> QED
        BY <3>1 DEF LoopType, Version
    <2>5. CheckpointType'
      <3>1. CASE SaveCheckpoint
        <4>1. SaveState.step \in Nat
          <5>1. (step + 1) % DataLen \in Nat /\ step + 1 \in Nat
            BY DEF LoopType
          <5>2. conf.kind \in Kinds
            BY ConfigTypes DEF LoopType
          <5> QED
            BY <5>1, <5>2 DEF SaveState, SFTState, DPOState, RMState,
                  DistillationState, GRPOState, Kinds
        <4> QED
          BY <3>1, <4>1 DEF SaveCheckpoint, LoopType, CheckpointType
      <3>2. CASE ~SaveCheckpoint
        <4>1. saved' = saved
          BY <1>1, <3>2 DEF LoopStep, SkipStartValidation, StartValidation,
              EndStartValidation, EnterEpoch, LeaveLoop, NextBatch, EndOfEpoch,
              PrepareGRPORollouts, PrepareDistillationRollouts, Rollout,
              DrawMore, TooManyBatches, BatchComplete, Supervised, TrainSFT,
              TrainDPO, TrainRM, TrainDistillation, TrainGRPO, SkipValidation,
              ValidateSupervised, PrepareValidation, EndValidation, CheckSave,
              SkipSave, Advance, outside
        <4> QED
          BY <4>1 DEF LoopType, CheckpointType
      <3> QED
        BY <3>1, <3>2
    <2> QED
      BY <1>1, <2>1, <2>2, <2>3, <2>4, <2>5, BatchTypes DEF LoopType
  <1>2. CASE Resubmit
    BY <1>2 DEF Resubmit, StartFrom, LoopType, CheckpointType, NoVersion
  <1>3. CASE UNCHANGED vars
    BY <1>3 DEF vars, LoopType, CheckpointType
  <1> QED
    BY <1>1, <1>2, <1>3 DEF Next

-----------------------------------------------------------------------------
(* The engine and the policy take turns.                                   *)

Generating == pc \in {"first validation", "rollout", "validation"}

TurnsInv ==
    /\ engineMem \in {"awake", "asleep"}
    /\ engineMem = "awake" <=> Generating
    /\ Generating => ~stale
    /\ ~stale => Generates /\ engine = Version
    /\ TakeTurns

LEMMA InitTurnsInv == Init => TurnsInv
  BY DEF Init, TurnsInv, Generating, TakeTurns

LEMMA NextTurnsInv == LoopType /\ TurnsInv /\ [Next]_vars => TurnsInv'
  <1> SUFFICES ASSUME LoopType, TurnsInv, [Next]_vars PROVE TurnsInv'
    OBVIOUS
  <1> USE DEF TurnsInv, Generating, TakeTurns
  <1>1. ASSUME NEW ks, PrepareGeneration(ks), Generates,
               UNCHANGED <<conf, learned>>,
               pc' \in {"first validation", "rollout", "validation"}
        PROVE  TurnsInv'
    <2>1. Generates' /\ Version' = Version
      BY <1>1 DEF Generates, Version
    <2>2. engineMem' = "awake" /\ ~stale' /\ engine' = Version
      <3>1. CASE stale /\ Refit(ks)
        BY <3>1, Zenon DEF Refit
      <3>2. CASE ~stale /\ WakeUp
        BY <3>2, Zenon DEF WakeUp
      <3> QED
        BY <1>1, <3>1, <3>2, Zenon DEF PrepareGeneration
    <2>3. conf.kind = "grpo" /\ conf.colocated => policyMem' = "none"
      BY <1>1 DEF PrepareGeneration, Refit, WakeUp
    <2> QED
      BY <1>1, <2>1, <2>2, <2>3
  <1>2. CASE StartValidation
    <2>1. CASE Generates
      BY <1>1, <1>2, <2>1 DEF StartValidation, outside
    <2>2. CASE ~Generates
      BY <1>2, <2>2 DEF StartValidation, outside, memory, Version, Generates
    <2> QED
      BY <2>1, <2>2
  <1>3. CASE PrepareGRPORollouts \/ PrepareDistillationRollouts \/ PrepareValidation
    <2>1. /\ \E ks : PrepareGeneration(ks)
          /\ Generates /\ UNCHANGED <<conf, learned>>
          /\ pc' \in {"first validation", "rollout", "validation"}
      BY <1>3 DEF PrepareGRPORollouts, PrepareDistillationRollouts,
             PrepareValidation, Generates, outside
    <2> QED
      BY <1>1, <2>1
  <1>4. CASE EndStartValidation \/ Rollout \/ EndValidation
    BY <1>4 DEF EndStartValidation, Rollout, EndValidation, outside, Version,
           Generates
  <1>5. CASE TrainSFT \/ TrainDPO \/ TrainRM
    <2>1. /\ ~Generates /\ pc = "train" /\ pc' = "trained"
          /\ UNCHANGED <<conf, generation>>
      BY <1>5 DEF TrainSFT, TrainDPO, TrainRM, Supervised, Learn, Generates,
             outside
    <2> QED
      BY <2>1 DEF generation, memory, Generates
  <1>6. CASE TrainDistillation \/ TrainGRPO
    <2>1. /\ Generates /\ stale' = TRUE /\ pc = "train" /\ pc' = "trained"
          /\ UNCHANGED <<conf, engineMem>>
      BY <1>6 DEF TrainDistillation, TrainGRPO, Learn, Generates, outside
    <2> QED
      BY <2>1 DEF Generates
  <1>7. CASE BatchComplete \/ SaveCheckpoint
    BY <1>7 DEF BatchComplete, SaveCheckpoint, Generates, Version, outside
  <1>8. CASE Resubmit
    BY <1>8 DEF Resubmit, StartFrom
  <1>9. CASE LoopStep /\ ~(StartValidation \/ PrepareGRPORollouts
              \/ PrepareDistillationRollouts \/ PrepareValidation
              \/ EndStartValidation \/ Rollout \/ EndValidation \/ TrainSFT
              \/ TrainDPO \/ TrainRM \/ TrainDistillation \/ TrainGRPO
              \/ BatchComplete \/ SaveCheckpoint)
    <2>1. /\ UNCHANGED <<conf, learned, generation>>
          /\ ~Generating /\ ~Generating'
      BY <1>9 DEF LoopStep, SkipStartValidation, EnterEpoch, LeaveLoop, NextBatch, EndOfEpoch,
            DrawMore, TooManyBatches, SkipValidation,
            ValidateSupervised, CheckSave, SkipSave, Advance,
            Generating, outside
    <2> QED
      BY <2>1 DEF generation, memory, Version, Generates
  <1>10. CASE UNCHANGED vars
    BY <1>10 DEF vars, Version, Generates
  <1> QED
    BY <1>2, <1>3, <1>4, <1>5, <1>6, <1>7, <1>8, <1>9, <1>10 DEF Next, LoopStep

-----------------------------------------------------------------------------
(* What waits in the cache was answered by the present weights.            *)

CacheInv ==
    Generates /\ pc \in {"draw", "prepare", "rollout", "filter", "train"} =>
        \A i \in DOMAIN cache : cache[i].version = Version

LEMMA NextCacheInv ==
    LoopType /\ TurnsInv /\ CacheInv /\ [Next]_vars => CacheInv'
  <1> SUFFICES ASSUME LoopType, TurnsInv, CacheInv, [Next]_vars PROVE CacheInv'
    OBVIOUS
  <1> USE DEF CacheInv
  <1>1. CASE Rollout
    <2>1. PICK at \in Choices :
             cache' = cache \o [i \in DOMAIN at |->
                         [prompt |-> PromptId(loader, at[i]), version |-> engine]]
      BY <1>1 DEF Rollout
    <2>2. PICK n \in 0 .. Prompts : at \in [1 .. n -> 1 .. Prompts]
      BY DEF Choices
    <2> DEFINE more == [i \in DOMAIN at |->
                         [prompt |-> PromptId(loader, at[i]), version |-> engine]]
    <2>3. \A i \in 1 .. n : more[i] \in Answered /\ more[i].version = engine
      <3> TAKE i \in 1 .. n
      <3>1. PromptId(loader, at[i]) \in Int
        BY <2>2, PromptIdType DEF LoopType
      <3>2. more[i] = [prompt |-> PromptId(loader, at[i]), version |-> engine]
        BY <2>2
      <3> QED
        BY <3>1, <3>2 DEF Answered, LoopType
    <2>4. more \in [1 .. n -> Answered]
      BY <2>2, <2>3
    <2>5. more \in Seq(Answered) /\ Len(more) = n
      BY <2>4, ConstantTypes
    <2> HIDE DEF more
    <2>6. pc = "rollout" /\ UNCHANGED <<conf, learned>>
      BY <1>1 DEF Rollout, outside
    <2>7. Generates => engine = Version /\ \A i \in DOMAIN cache : cache[i].version = Version
      BY <2>6 DEF TurnsInv, Generating
    <2>8. cache \in Seq(Answered) /\ cache' = cache \o more
      BY <2>1 DEF LoopType, more
    <2>9. Generates => \A i \in DOMAIN cache' : cache'[i].version = Version
      <3> SUFFICES ASSUME Generates, NEW i \in DOMAIN cache'
                   PROVE  cache'[i].version = Version
        OBVIOUS
      <3>1. i \in 1 .. Len(cache) + n
        BY <2>5, <2>8, ConcatProperties, LenProperties
      <3>2. CASE i <= Len(cache)
        <4>1. cache'[i] = cache[i] /\ i \in DOMAIN cache
          BY <2>5, <2>8, <3>1, <3>2, ConcatProperties, LenProperties
        <4> QED
          BY <2>7, <4>1
      <3>3. CASE ~(i <= Len(cache))
        <4>1. cache'[i] = more[i - Len(cache)] /\ i - Len(cache) \in 1 .. n
          BY <2>5, <2>8, <3>1, <3>3, ConcatProperties, LenProperties
        <4> QED
          BY <2>3, <2>7, <4>1
      <3> QED
        BY <3>2, <3>3
    <2> QED
      BY <2>6, <2>9 DEF Generates, Version
  <1>2. CASE EnterEpoch \/ Advance
    BY <1>2 DEF EnterEpoch, Advance
  <1>3. CASE Resubmit
    BY <1>3 DEF Resubmit, StartFrom
  <1>4. CASE LoopStep /\ ~Rollout /\ ~EnterEpoch /\ ~Advance
    <2>1. /\ UNCHANGED <<conf, cache>>
          /\ \/ pc' \notin {"draw", "prepare", "rollout", "filter", "train"}
             \/ /\ pc \in {"draw", "prepare", "rollout", "filter", "train"}
                /\ UNCHANGED learned
      BY <1>4 DEF LoopStep, SkipStartValidation, StartValidation, EndStartValidation,
            LeaveLoop, NextBatch, EndOfEpoch, PrepareGRPORollouts,
            PrepareDistillationRollouts, DrawMore, TooManyBatches,
            BatchComplete, TrainSFT, TrainDPO, TrainRM,
            TrainDistillation, TrainGRPO, SkipValidation,
            ValidateSupervised, PrepareValidation, EndValidation,
            CheckSave, SaveCheckpoint, SkipSave, Supervised, Learn,
            sampling, outside
    <2> QED
      BY <2>1 DEF Generates, Version
  <1>5. CASE UNCHANGED vars
    BY <1>5 DEF vars, Version, Generates
  <1> QED
    BY <1>1, <1>2, <1>3, <1>4, <1>5 DEF Next

-----------------------------------------------------------------------------
(* The validation metric and the step it belongs to.                       *)

MetricInv ==
    /\ pc \in {"prepare", "rollout", "filter", "train", "trained", "validation"}
            => valMetrics = NoMetric
    /\ pc \in {"check save", "save"} => valMetrics \in {NoMetric, total + 1}
    /\ conf.kind = "sft" /\ ~conf.byMetric
            => metric = NoMetric /\ saved.metric = NoMetric
    /\ MetricOfItsWeights

LEMMA NextMetricInv == LoopType /\ MetricInv /\ [Next]_vars => MetricInv'
  <1> SUFFICES ASSUME LoopType, MetricInv, [Next]_vars PROVE MetricInv'
    OBVIOUS
  <1> USE DEF MetricInv, MetricOfItsWeights
  <1>1. CASE SaveCheckpoint
    <2>1. /\ pc = "save" /\ pc' = "advance" /\ UNCHANGED <<conf, valMetrics>>
          /\ metric' = SaveState.metric
          /\ saved'.metric = SaveState.metric /\ saved'.total = total + 1
      BY <1>1 DEF SaveCheckpoint
    <2>2. conf.kind \in Kinds
      BY ConfigTypes DEF LoopType
    <2>3. SaveState.metric =
             IF conf.kind = "sft" /\ ~conf.byMetric THEN metric ELSE valMetrics
      BY <2>2 DEF SaveState, SFTState, DPOState, RMState, DistillationState,
             GRPOState, Kinds
    <2> QED
      BY <2>1, <2>3
  <1>2. CASE ValidateSupervised \/ EndValidation
    BY <1>2 DEF ValidateSupervised, EndValidation, counters, outside
  <1>3. CASE NextBatch
    BY <1>3 DEF NextBatch, counters, outside
  <1>4. CASE Resubmit
    BY <1>4 DEF Resubmit, StartFrom
  <1>5. CASE LoopStep /\ ~(SaveCheckpoint \/ ValidateSupervised
                           \/ EndValidation \/ NextBatch)
    <2>1. /\ UNCHANGED <<conf, saved, metric, valMetrics>>
          /\ pc' \in {"prepare", "rollout", "filter", "train", "trained", "validation"}
               => pc \in {"prepare", "rollout", "filter", "train", "trained"}
          /\ pc' \in {"check save", "save"} =>
                /\ pc \in {"trained", "check save"}
                /\ UNCHANGED total
      BY <1>5 DEF LoopStep, SkipStartValidation, StartValidation, EndStartValidation,
            EnterEpoch, LeaveLoop, EndOfEpoch, PrepareGRPORollouts,
            PrepareDistillationRollouts, Rollout, DrawMore,
            TooManyBatches, BatchComplete, TrainSFT, TrainDPO,
            TrainRM, TrainDistillation, TrainGRPO, SkipValidation,
            PrepareValidation, CheckSave, SkipSave, Advance,
            Supervised, Learn, counters, outside
    <2> QED
      BY <2>1
  <1>6. CASE UNCHANGED vars
    BY <1>6 DEF vars
  <1> QED
    BY <1>1, <1>2, <1>3, <1>4, <1>5, <1>6 DEF Next

-----------------------------------------------------------------------------
(* The counters, the position in the data and the length of what was       *)
(* learned agree, also after a restart from a save state that counts the   *)
(* step modulo the length of an epoch.                                     *)

Between(s, l) == s = l.pos \/ (s = 0 /\ l.pos = DataLen)

BeforeBatch == pc \in {"start", "first validation", "guard", "draw"}
InStep == pc \in {"prepare", "rollout", "filter", "train"}
AfterUpdate == pc \in {"trained", "validation", "check save", "save", "advance"}

CountInv ==
    /\ BeforeBatch \/ InStep => total * Prompts = Len(learned)
    /\ AfterUpdate => (total + 1) * Prompts = Len(learned)
    /\ epoch = loader.pass
    /\ ~conf.dynamic =>
          /\ BeforeBatch => Between(step, loader)
          /\ InStep \/ AfterUpdate => step + 1 = loader.pos
          /\ pc = "filter" => Len(cache) >= Prompts
          /\ Between(saved.step, saved.loader)
    /\ saved.total * Prompts = Len(saved.learned)
    /\ saved.epoch = saved.loader.pass

LEMMA Remainders ==
  ASSUME NEW n \in Nat, NEW d \in Nat \ {0}
  PROVE  (n < d => n % d = n) /\ d % d = 0
  OBVIOUS

LEMMA OneMoreStep ==
  ASSUME NEW n \in Nat, NEW p \in Nat
  PROVE  (n + 1) * p = n * p + p
  OBVIOUS

LEMMA InitCountInv == Init => CountInv
  <1> SUFFICES ASSUME Init PROVE CountInv
    OBVIOUS
  <1>1. 0 * Prompts = 0
    BY ConstantTypes
  <1>2. /\ total * Prompts = Len(learned)
        /\ saved.total * Prompts = Len(saved.learned)
    BY <1>1 DEF Init, NoCheckpoint
  <1>3. /\ ~AfterUpdate
        /\ epoch = loader.pass /\ saved.epoch = saved.loader.pass
        /\ Between(step, loader) /\ Between(saved.step, saved.loader)
        /\ pc = "start"
    BY DEF Init, NoCheckpoint, Between, AfterUpdate
  <1> QED
    BY <1>2, <1>3 DEF CountInv, BeforeBatch, InStep

LEMMA NextCountInv == LoopType /\ CountInv /\ [Next]_vars => CountInv'
  <1> SUFFICES ASSUME LoopType, CountInv, [Next]_vars PROVE CountInv'
    OBVIOUS
  <1>1. CASE NextBatch
    <2>1. /\ pc = "draw" /\ loader.pos < DataLen
          /\ pc' = (IF Generates THEN "prepare" ELSE "train")
          /\ loader' = [loader EXCEPT !.pos = @ + 1]
          /\ UNCHANGED <<conf, epoch, step, total, learned, saved>>
      BY <1>1, Zenon DEF NextBatch, counters, outside
    <2>2. loader \in [pass : Nat, pos : 0 .. DataLen]
      BY DEF LoopType
    <2>3. loader'.pos = loader.pos + 1 /\ loader'.pass = loader.pass
      BY <2>1, <2>2
    <2>4. ~conf.dynamic => step = loader.pos
      BY <2>1, <2>2, ConstantTypes DEF Between, CountInv, BeforeBatch
    <2> QED
      BY <2>1, <2>3, <2>4
         DEF Between, CountInv, BeforeBatch, InStep, AfterUpdate
  <1>2. CASE EndOfEpoch
    <2>1. /\ pc = "draw" /\ pc' = "guard" /\ step' = 0 /\ epoch' = epoch + 1
          /\ loader'.pass = loader.pass + 1 /\ loader'.pos = 0
          /\ UNCHANGED <<conf, total, learned, saved>>
      BY <1>2 DEF EndOfEpoch, outside
    <2>2. total * Prompts = Len(learned) /\ epoch = loader.pass
      BY <2>1 DEF CountInv, BeforeBatch
    <2>3. total' * Prompts = Len(learned')
      BY <2>1, <2>2
    <2>4. Between(step', loader')
      BY <2>1 DEF Between
    <2>5. ~InStep' /\ ~AfterUpdate'
      BY <2>1 DEF InStep, AfterUpdate
    <2> QED
      BY <2>1, <2>2, <2>3, <2>4, <2>5 DEF CountInv
  <1>3. CASE Rollout
    <2>1. PICK at \in Choices :
             cache' = cache \o [i \in DOMAIN at |->
                         [prompt |-> PromptId(loader, at[i]), version |-> engine]]
      BY <1>3 DEF Rollout
    <2>2. /\ pc = "rollout" /\ pc' = "filter"
          /\ UNCHANGED <<conf, epoch, step, total, learned, saved, loader>>
      BY <1>3 DEF Rollout, counters, outside
    <2>3. ASSUME ~conf.dynamic PROVE Len(cache') >= Prompts
      <3> DEFINE more == [i \in DOMAIN at |->
                         [prompt |-> PromptId(loader, at[i]), version |-> engine]]
      <3>1. DOMAIN at = 1 .. Prompts
        BY <2>3 DEF Choices
      <3>2. PICK n \in 0 .. Prompts : at \in [1 .. n -> 1 .. Prompts]
        BY DEF Choices
      <3>3. \A i \in 1 .. Prompts : PromptId(loader, at[i]) \in Int
        <4>1. \A i \in DOMAIN at : at[i] \in Int
          BY <3>2
        <4>2. loader \in [pass : Nat, pos : 0 .. DataLen]
          BY DEF LoopType
        <4> QED
          BY <3>1, <4>1, <4>2, PromptIdType
      <3>4. more \in [1 .. Prompts -> Answered]
        BY <3>1, <3>3 DEF Answered, LoopType
      <3>5. more \in Seq(Answered) /\ Len(more) = Prompts
        BY <3>4, ConstantTypes
      <3> HIDE DEF more
      <3>6. cache \in Seq(Answered) /\ cache' = cache \o more
        BY <2>1 DEF LoopType, more
      <3>7. Len(cache') = Len(cache) + Prompts /\ Len(cache) \in Nat
        BY <3>5, <3>6, ConcatProperties, LenProperties
      <3> QED
        BY <3>7, ConstantTypes
    <2> QED
      BY <2>2, <2>3 DEF CountInv, BeforeBatch, InStep, AfterUpdate
  <1>4. CASE TrainSFT \/ TrainDPO \/ TrainRM \/ TrainDistillation \/ TrainGRPO
    <2>1. /\ pc = "train" /\ pc' = "trained" /\ learned' = learned \o group
          /\ UNCHANGED <<conf, epoch, step, total, saved, loader>>
      BY <1>4 DEF TrainSFT, TrainDPO, TrainRM, TrainDistillation, TrainGRPO,
             Supervised, Learn, counters, outside
    <2>2. /\ learned \in Seq(Int) /\ group \in Seq(Int) /\ Len(group) = Prompts
          /\ total \in Nat /\ Prompts \in Nat
      BY <2>1, ConstantTypes DEF LoopType
    <2>3. Len(learned') = Len(learned) + Prompts
      BY <2>1, <2>2, ConcatProperties
    <2>4. (total + 1) * Prompts = Len(learned')
      <3>1. total * Prompts = Len(learned)
        BY <2>1 DEF CountInv, InStep
      <3> QED
        BY <2>2, <2>3, <3>1, OneMoreStep
    <2> QED
      BY <2>1, <2>4 DEF CountInv, BeforeBatch, InStep, AfterUpdate
  <1>5. CASE SaveCheckpoint
    <2>1. /\ pc = "save" /\ pc' = "advance"
          /\ UNCHANGED <<conf, epoch, step, total, learned, loader>>
          /\ saved'.total = total + 1 /\ saved'.learned = learned
          /\ saved'.epoch = epoch /\ saved'.loader = loader
          /\ saved'.step = SaveState.step
      BY <1>5 DEF SaveCheckpoint, counters
    <2>2. conf.kind \in Kinds /\ step \in Nat /\ loader.pos \in 0 .. DataLen
      BY ConfigTypes DEF LoopType
    <2>3. SaveState.step \in {step + 1, (step + 1) % DataLen}
      BY <2>2 DEF SaveState, SFTState, DPOState, RMState, DistillationState,
             GRPOState, Kinds
    <2>4. ASSUME ~conf.dynamic PROVE Between(saved'.step, saved'.loader)
      <3>1. step + 1 = loader.pos /\ step + 1 \in Nat /\ step + 1 <= DataLen
        BY <2>1, <2>2, <2>4, ConstantTypes DEF CountInv, AfterUpdate
      <3>2. \/ (step + 1) % DataLen = step + 1
            \/ step + 1 = DataLen /\ (step + 1) % DataLen = 0
        <4>1. CASE step + 1 < DataLen
          BY <3>1, <4>1, Remainders, ConstantTypes
        <4>2. CASE step + 1 = DataLen
          BY <3>1, <4>2, Remainders, ConstantTypes
        <4> QED
          BY <3>1, <4>1, <4>2, ConstantTypes
      <3>3. \/ saved'.step = loader.pos
            \/ saved'.step = 0 /\ loader.pos = DataLen
        <4> DEFINE r == (step + 1) % DataLen
        <4>1. r = step + 1 \/ (step + 1 = DataLen /\ r = 0)
          BY <3>2
        <4>2. saved'.step \in {step + 1, r}
          BY <2>1, <2>3
        <4> HIDE DEF r
        <4> QED
          BY <3>1, <4>1, <4>2
      <3> QED
        BY <2>1, <3>3 DEF Between
    <2>5. total' = total /\ (total + 1) * Prompts = Len(learned)
      BY <2>1 DEF CountInv, AfterUpdate
    <2> QED
      BY <2>1, <2>4, <2>5 DEF CountInv, BeforeBatch, InStep, AfterUpdate
  <1>6. CASE Advance
    <2>1. /\ pc = "advance" /\ pc' \in {"done", "draw"}
          /\ step' = step + 1 /\ total' = total + 1
          /\ UNCHANGED <<conf, epoch, learned, saved, loader>>
      BY <1>6 DEF Advance, outside
    <2>2. total' * Prompts = Len(learned')
      <3>1. (total + 1) * Prompts = Len(learned)
        BY <2>1 DEF CountInv, AfterUpdate
      <3> QED
        BY <2>1, <3>1
    <2>3. ~conf.dynamic => Between(step', loader')
      BY <2>1 DEF Between, CountInv, AfterUpdate
    <2>4. ~InStep' /\ ~AfterUpdate'
      BY <2>1 DEF InStep, AfterUpdate
    <2> QED
      BY <2>1, <2>2, <2>3, <2>4 DEF CountInv
  <1>7. CASE DrawMore
    <2>1. /\ pc = "filter" /\ pc' = "draw" /\ Len(cache) < Prompts
          /\ UNCHANGED <<conf, epoch, step, total, learned, saved, loader>>
      BY <1>7 DEF DrawMore, counters, outside
    <2>2. conf.dynamic
      <3>1. Len(cache) \in Nat /\ Prompts \in Nat
        BY ConstantTypes, LenProperties DEF LoopType
      <3> QED
        BY <2>1, <3>1 DEF CountInv
    <2> QED
      BY <2>1, <2>2 DEF CountInv, BeforeBatch, InStep, AfterUpdate
  <1>8. CASE Resubmit
    BY <1>8 DEF Resubmit, StartFrom, CountInv, BeforeBatch, InStep, AfterUpdate
  <1>9. CASE LoopStep /\ ~(NextBatch \/ EndOfEpoch \/ Rollout \/ TrainSFT
              \/ TrainDPO \/ TrainRM \/ TrainDistillation \/ TrainGRPO
              \/ SaveCheckpoint \/ Advance \/ DrawMore)
    <2>1. /\ UNCHANGED <<conf, epoch, step, total, learned, saved, loader>>
          /\ BeforeBatch' => BeforeBatch
          /\ InStep' => InStep /\ pc' # "filter"
          /\ AfterUpdate' => AfterUpdate
      BY <1>9 DEF LoopStep, SkipStartValidation, StartValidation, EndStartValidation,
            EnterEpoch, LeaveLoop, PrepareGRPORollouts,
            PrepareDistillationRollouts, TooManyBatches,
            BatchComplete, SkipValidation, ValidateSupervised,
            PrepareValidation, EndValidation, CheckSave, SkipSave,
            BeforeBatch, InStep, AfterUpdate, counters, outside
    <2> QED
      BY <2>1 DEF CountInv, BeforeBatch, InStep, AfterUpdate
  <1>10. CASE UNCHANGED vars
    BY <1>10 DEF vars, CountInv, BeforeBatch, InStep, AfterUpdate
  <1> QED
    BY <1>1, <1>2, <1>3, <1>4, <1>5, <1>6, <1>7, <1>8, <1>9, <1>10 DEF Next

-----------------------------------------------------------------------------
(* The scales of an FP8 engine, when it has GPUs of its own and nothing is *)
(* validated before the first step: those two refits carry no scales.      *)

ScalesInv ==
    conf.kvScales =>
        /\ scales \in {NoVersion, Version}
        /\ pc = "trained" => scales = Version
        /\ ~stale => engineScales = engine

LEMMA NextScalesInv ==
  ASSUME \A c \in Configs : c.kvScales => ~c.colocated /\ ~c.valAtStart,
         LoopType, TurnsInv, ScalesInv, [Next]_vars
  PROVE  ScalesInv'
  <1> USE DEF ScalesInv
  <1>1. conf.kvScales => ~conf.colocated /\ ~conf.valAtStart /\ conf.kind = "grpo"
    BY ConfigTypes DEF LoopType
  <1>2. ASSUME conf.kvScales, PrepareGeneration(Version),
               UNCHANGED <<conf, learned>>, scales' = Version, pc' # "trained"
        PROVE  ScalesInv'
    <2>1. Version' = Version
      BY <1>2 DEF Version
    <2>2. ~stale' /\ engineScales' = engine'
      <3>1. CASE stale /\ Refit(Version)
        BY <1>1, <1>2, <3>1 DEF Refit
      <3>2. CASE ~stale /\ WakeUp
        BY <1>2, <3>2 DEF WakeUp
      <3> QED
        BY <1>2, <3>1, <3>2 DEF PrepareGeneration
    <2> QED
      BY <1>2, <2>1, <2>2
  <1>3. CASE PrepareGRPORollouts
    <2>1. /\ UNCHANGED <<conf, learned>> /\ pc' = "rollout"
          /\ scales' = IF conf.kvScales /\ stale /\ scales = NoVersion
                       THEN Version ELSE scales
          /\ PrepareGeneration(IF conf.kvScales THEN scales' ELSE NoVersion)
      BY <1>3, Zenon DEF PrepareGRPORollouts, outside
    <2>2. CASE ~conf.kvScales
      BY <2>1, <2>2
    <2>3. CASE conf.kvScales /\ stale
      <3>1. scales' = Version
        BY <2>1, <2>3
      <3>2. PrepareGeneration(Version)
        BY <2>1, <2>3, <3>1
      <3> QED
        BY <1>2, <2>1, <2>3, <3>1, <3>2
    <2>4. CASE conf.kvScales /\ ~stale
      <3>1. WakeUp /\ scales' = scales
        BY <2>1, <2>4 DEF PrepareGeneration
      <3> QED
        BY <2>1, <2>4, <3>1 DEF WakeUp, Version
    <2> QED
      BY <2>2, <2>3, <2>4
  <1>4. CASE PrepareValidation
    <2>1. /\ UNCHANGED <<conf, learned, scales>> /\ pc = "trained" /\ pc' = "validation"
          /\ PrepareGeneration(IF conf.kvScales THEN scales ELSE NoVersion)
      BY <1>4, Zenon DEF PrepareValidation, outside
    <2>2. CASE ~conf.kvScales
      BY <2>1, <2>2
    <2>3. CASE conf.kvScales
      <3>1. scales = Version /\ PrepareGeneration(Version)
        BY <2>1, <2>3
      <3> QED
        BY <1>2, <2>1, <2>3, <3>1
    <2> QED
      BY <2>2, <2>3
  <1>5. CASE TrainGRPO
    <2>1. /\ UNCHANGED conf /\ stale' = TRUE
          /\ conf.kvScales => scales' = Len(learned')
      BY <1>5 DEF TrainGRPO, outside
    <2> QED
      BY <2>1 DEF Version
  <1>6. CASE StartValidation \/ PrepareDistillationRollouts \/ TrainSFT
             \/ TrainDPO \/ TrainRM \/ TrainDistillation
    <2>1. conf' = conf /\ ~conf.kvScales
      BY <1>1, <1>6 DEF StartValidation, PrepareDistillationRollouts, TrainSFT,
            TrainDPO, TrainRM, TrainDistillation, Supervised,
            ValidatesAtStart, outside
    <2> QED
      BY <2>1
  <1>7. CASE Resubmit
    BY <1>7 DEF Resubmit, StartFrom
  <1>8. CASE LoopStep /\ ~(PrepareGRPORollouts \/ PrepareValidation
              \/ TrainGRPO \/ StartValidation \/ PrepareDistillationRollouts
              \/ TrainSFT \/ TrainDPO \/ TrainRM \/ TrainDistillation)
    <2>1. /\ UNCHANGED <<conf, learned, stale, engine, scales, engineScales>>
          /\ pc' # "trained"
      BY <1>8 DEF LoopStep, SkipStartValidation, EndStartValidation, EnterEpoch, LeaveLoop,
            NextBatch, EndOfEpoch, Rollout, DrawMore,
            TooManyBatches, BatchComplete, SkipValidation,
            ValidateSupervised, EndValidation, CheckSave,
            SaveCheckpoint, SkipSave, Advance, generation, outside
    <2> QED
      BY <2>1 DEF Version
  <1>9. CASE UNCHANGED vars
    BY <1>9 DEF vars, Version
  <1> QED
    BY <1>3, <1>4, <1>5, <1>6, <1>7, <1>8, <1>9 DEF Next, LoopStep

-----------------------------------------------------------------------------
LoopInv == LoopType /\ TurnsInv /\ CacheInv /\ MetricInv /\ CountInv

LEMMA LoopInvInvariant == Spec => []LoopInv
  <1>1. Init => LoopInv
    <2>1. Init => CacheInv /\ MetricInv
      BY DEF Init, CacheInv, MetricInv, MetricOfItsWeights, NoCheckpoint
    <2> QED
      BY <2>1, InitLoopType, InitTurnsInv, InitCountInv DEF LoopInv
  <1>2. LoopInv /\ [Next]_vars => LoopInv'
    BY NextLoopType, NextTurnsInv, NextCacheInv, NextMetricInv, NextCountInv
       DEF LoopInv
  <1> QED
    BY <1>1, <1>2, PTL DEF Spec

(* What a resumed run restores, and the loop goes on with, means the same  *)
(* as before: epoch, step and total count the passes, the batches and the  *)
(* updates, with either way of counting at the end of an epoch.            *)
THEOREM CountersStayTrue == Spec => []CountersTrue
  <1>1. LoopInv => CountersTrue
    BY DEF LoopInv, CountInv, CountersTrue, BeforeBatch, InStep
  <1> QED
    BY <1>1, LoopInvInvariant, PTL

(* A checkpoint is never found by the metric of other weights.             *)
THEOREM MetricsBelong == Spec => []MetricOfItsWeights
  <1>1. LoopInv => MetricOfItsWeights
    BY DEF LoopInv, MetricInv
  <1> QED
    BY <1>1, LoopInvInvariant, PTL

(* Rollouts and validation use the policy's present weights.               *)
THEOREM EngineIsLatest == Spec => []GeneratesWithLatest
  <1>1. LoopInv => GeneratesWithLatest
    BY DEF LoopInv, TurnsInv, Generating, GeneratesWithLatest
  <1> QED
    BY <1>1, LoopInvInvariant, PTL

(* Also with dynamic sampling, which collects a batch from several, GRPO   *)
(* trains on answers of the weights it trains.                             *)
THEOREM TrainsOnPolicy == Spec => []OnPolicy
  <1>1. LoopInv => OnPolicy
    BY DEF LoopInv, CacheInv, OnPolicy
  <1> QED
    BY <1>1, LoopInvInvariant, PTL

(* The policy and an engine on its GPUs are never both in memory.          *)
THEOREM TheyTakeTurns == Spec => []TakeTurns
  <1>1. LoopInv => TakeTurns
    BY DEF LoopInv, TurnsInv
  <1> QED
    BY <1>1, LoopInvInvariant, PTL

(* The scales in the engine are those of its weights, where both refits    *)
(* that forget them are excluded.                                          *)
THEOREM ScalesBelong ==
  ASSUME \A c \in Configs : c.kvScales => ~c.colocated /\ ~c.valAtStart
  PROVE  Spec => []ScalesOfTheWeights
  <1>1. Init => ScalesInv
    BY DEF Init, ScalesInv
  <1>2. LoopInv /\ ScalesInv /\ [Next]_vars => ScalesInv'
    BY NextScalesInv DEF LoopInv
  <1>3. LoopInv /\ ScalesInv => ScalesOfTheWeights
    BY DEF LoopInv, TurnsInv, Generating, ScalesInv, ScalesOfTheWeights
  <1> QED
    BY <1>1, <1>2, <1>3, LoopInvInvariant, PTL DEF Spec

-----------------------------------------------------------------------------
(* The stream of prompts.                                                  *)

LoaderType == [pass : Nat, pos : 0 .. DataLen]

(* The prompts that a dataloader in state l has given out.                 *)
Drawn(l) == (l.pass * DataLen + l.pos) * Prompts

LEMMA OneMoreTime ==
  ASSUME NEW n \in Int, NEW p \in Int
  PROVE  /\ n * p \in Int
         /\ (n + 1) * p = n * p + p
         /\ (n - 1) * p = n * p - p
  OBVIOUS

LEMMA DrawnType ==
  ASSUME NEW l \in LoaderType
  PROVE  l.pass * DataLen \in Int /\ l.pos \in Int /\ Drawn(l) \in Int
  <1>1. l.pass \in Int /\ l.pos \in Int
    BY DEF LoaderType
  <1>2. l.pass * DataLen \in Int
    BY <1>1, ConstantTypes
  <1> DEFINE n == l.pass * DataLen + l.pos
  <1>3. n \in Int
    BY <1>1, <1>2
  <1> HIDE DEF n
  <1>4. n * Prompts \in Int
    BY <1>3, ConstantTypes
  <1> QED
    BY <1>1, <1>2, <1>4 DEF Drawn, n

(* The batch drawn last has the last prompts, in order.                    *)
LEMMA LastDrawn ==
  ASSUME NEW l \in LoaderType, NEW j \in Int
  PROVE  PromptId(l, j) = Drawn(l) - Prompts + j
  <1> DEFINE n == l.pass * DataLen + l.pos
  <1>1. n \in Int
    BY DrawnType
  <1>2. PromptId(l, j) = (n - 1) * Prompts + j
    <2>1. l.pass * DataLen + l.pos - 1 = n - 1
      BY DrawnType
    <2> QED
      BY <2>1, Zenon DEF PromptId
  <1> HIDE DEF n
  <1>3. (n - 1) * Prompts = n * Prompts - Prompts
    BY <1>1, OneMoreTime, ConstantTypes
  <1> QED
    BY <1>2, <1>3 DEF Drawn, n

LEMMA DrawnByNextBatch ==
  ASSUME NEW l \in LoaderType, NEW m \in LoaderType,
         m.pass = l.pass, m.pos = l.pos + 1
  PROVE  Drawn(m) = Drawn(l) + Prompts
  <1> DEFINE n == l.pass * DataLen + l.pos
  <1>1. n \in Int
    BY DrawnType
  <1>2. m.pass * DataLen + m.pos = n + 1
    BY DrawnType
  <1> HIDE DEF n
  <1>3. (n + 1) * Prompts = n * Prompts + Prompts
    BY <1>1, OneMoreTime, ConstantTypes
  <1> QED
    BY <1>2, <1>3 DEF Drawn, n

LEMMA DrawnByNextPass ==
  ASSUME NEW l \in LoaderType, NEW m \in LoaderType,
         m.pass = l.pass + 1, m.pos = 0, l.pos = DataLen
  PROVE  Drawn(m) = Drawn(l)
  <1>1. l.pass \in Int
    BY DEF LoaderType
  <1>2. (l.pass + 1) * DataLen = l.pass * DataLen + DataLen
    BY <1>1, OneMoreTime, ConstantTypes
  <1>3. m.pass * DataLen + m.pos = l.pass * DataLen + l.pos
    BY <1>2, DrawnType
  <1> QED
    BY <1>3 DEF Drawn

-----------------------------------------------------------------------------
(* Sequences of prompts in ascending order, none beyond n.                 *)

Ordered(s, n) ==
    /\ \A i, j \in DOMAIN s : i < j => s[i] < s[j]
    /\ \A i \in DOMAIN s : s[i] <= n

LEMMA OrderedConcat ==
  ASSUME NEW s \in Seq(Int), NEW t \in Seq(Int), NEW n \in Int, NEW m \in Int,
         Ordered(s, n), Ordered(t, m), n <= m, \A i \in DOMAIN t : n < t[i]
  PROVE  Ordered(s \o t, m)
  <1>1. /\ s \o t \in Seq(Int)
        /\ DOMAIN (s \o t) = 1 .. Len(s) + Len(t)
        /\ Len(s) \in Nat /\ Len(t) \in Nat
        /\ DOMAIN s = 1 .. Len(s) /\ DOMAIN t = 1 .. Len(t)
    BY ConcatProperties, LenProperties
  <1>2. \A i \in DOMAIN (s \o t) :
           \/ i \in DOMAIN s /\ (s \o t)[i] = s[i]
           \/ i - Len(s) \in DOMAIN t /\ (s \o t)[i] = t[i - Len(s)] /\ i > Len(s)
    BY <1>1, ConcatProperties
  <1>3. \A i \in DOMAIN s : s[i] \in Int
    BY ElementOfSeq, <1>1
  <1>4. \A i \in DOMAIN t : t[i] \in Int
    BY ElementOfSeq, <1>1
  <1>5. ASSUME NEW i \in DOMAIN (s \o t) PROVE (s \o t)[i] <= m
    <2>1. CASE i \in DOMAIN s /\ (s \o t)[i] = s[i]
      BY <2>1, <1>3 DEF Ordered
    <2>2. CASE i - Len(s) \in DOMAIN t /\ (s \o t)[i] = t[i - Len(s)]
      BY <2>2 DEF Ordered
    <2> QED
      BY <1>2, <2>1, <2>2
  <1>6. ASSUME NEW i \in DOMAIN (s \o t), NEW j \in DOMAIN (s \o t), i < j
        PROVE  (s \o t)[i] < (s \o t)[j]
    <2>1. CASE j \in DOMAIN s /\ (s \o t)[j] = s[j]
      <3>1. i \in DOMAIN s /\ (s \o t)[i] = s[i]
        BY <1>1, <1>2, <1>6, <2>1
      <3> QED
        BY <1>6, <2>1, <3>1 DEF Ordered
    <2>2. CASE j - Len(s) \in DOMAIN t /\ (s \o t)[j] = t[j - Len(s)] /\ j > Len(s)
      <3>1. CASE i \in DOMAIN s /\ (s \o t)[i] = s[i]
        BY <1>3, <1>4, <2>2, <3>1 DEF Ordered
      <3>2. CASE i - Len(s) \in DOMAIN t /\ (s \o t)[i] = t[i - Len(s)]
        <4>1. i - Len(s) < j - Len(s)
          BY <1>1, <1>6
        <4> QED
          BY <2>2, <3>2, <4>1 DEF Ordered
      <3> QED
        BY <1>2, <3>1, <3>2
    <2> QED
      BY <1>2, <2>1, <2>2
  <1> QED
    BY <1>5, <1>6 DEF Ordered

(* What comes first of such a sequence, and what is allowed to go further. *)
LEMMA OrderedPrefix ==
  ASSUME NEW s, NEW t, NEW n, Ordered(s, n),
         DOMAIN t \subseteq DOMAIN s, \A i \in DOMAIN t : t[i] = s[i]
  PROVE  Ordered(t, n)
  BY DEF Ordered

LEMMA OrderedFurther ==
  ASSUME NEW s \in Seq(Int), NEW n \in Int, NEW m \in Int, n <= m, Ordered(s, n)
  PROVE  Ordered(s, m)
  <1>1. \A i \in DOMAIN s : s[i] \in Int
    BY ElementOfSeq, LenProperties
  <1> QED
    BY <1>1 DEF Ordered

(* One batch of the dataloader, or what is kept of it.                     *)
LEMMA BatchOrdered ==
  ASSUME NEW l \in LoaderType, NEW k \in 0 .. Prompts,
         NEW at \in [1 .. k -> 1 .. Prompts],
         \A i, j \in 1 .. k : i < j => at[i] < at[j],
         NEW s \in [1 .. k -> Int], \A i \in 1 .. k : s[i] = PromptId(l, at[i])
  PROVE  /\ s \in Seq(Int) /\ Len(s) = k
         /\ Ordered(s, Drawn(l))
         /\ \A i \in DOMAIN s : Drawn(l) - Prompts < s[i]
  <1>1. \A i \in 1 .. k : s[i] = Drawn(l) - Prompts + at[i] /\ at[i] \in 1 .. Prompts
    BY LastDrawn
  <1>2. Drawn(l) \in Int /\ Prompts \in Int
    BY DrawnType, ConstantTypes
  <1>3. s \in Seq(Int) /\ Len(s) = k /\ DOMAIN s = 1 .. k
    BY ConstantTypes
  <1>4. \A i \in 1 .. k : Drawn(l) - Prompts < s[i] /\ s[i] <= Drawn(l)
    BY <1>1, <1>2
  <1>5. \A i, j \in 1 .. k : i < j => s[i] < s[j]
    BY <1>1, <1>2
  <1> QED
    BY <1>3, <1>4, <1>5 DEF Ordered

(* What of the batch is kept, in full: every prompt of it.  A strictly     *)
(* ascending choice of n out of n leaves none out.                         *)
LEMMA NatSets ==
  ASSUME NEW S \in SUBSET Nat, 0 \in S, \A n \in S : n + 1 \in S
  PROVE  S = Nat
  <1> DEFINE T == Nat \ S
             R == OpToRel(<, Nat)
  <1>1. R = {ss \in Nat \X Nat : ss[1] < ss[2]}
    BY DEF OpToRel
  <1>2. IsWellFoundedOn(R, Nat)
    BY NatLessThanWellFounded DEF OpToRel
  <1> SUFFICES ASSUME T # {} PROVE FALSE
    OBVIOUS
  <1>3. PICK x \in T : \A y \in T : ~(<<y, x>> \in R)
    <2> HIDE DEF R, T
    <2>1. T \subseteq Nat
      BY DEF T
    <2> QED
      BY <1>2, <2>1, WFMin
  <1> HIDE DEF R
  <1>4. \A y \in T : ~(y < x)
    BY <1>1, <1>3
  <1>5. x # 0 /\ x - 1 \in Nat /\ x - 1 < x
    OBVIOUS
  <1>6. x - 1 \in S
    BY <1>4, <1>5
  <1> QED
    BY <1>5, <1>6

LEMMA AscendingIsAll ==
  ASSUME NEW n \in Nat, NEW at \in [1 .. n -> 1 .. n],
         \A i, j \in 1 .. n : i < j => at[i] < at[j]
  PROVE  \A i \in 1 .. n : at[i] = i
  <1> DEFINE Up == {k \in Nat : k \in 1 .. n => at[k] >= k}
             Down == {k \in Nat : k < n => at[n - k] <= n - k}
  <1>1. Up = Nat
    <2>1. \A k \in Up : k + 1 \in Up
      <3> SUFFICES ASSUME NEW k \in Up, k + 1 \in 1 .. n PROVE at[k + 1] >= k + 1
        OBVIOUS
      <3>1. CASE k = 0
        BY <3>1
      <3>2. CASE k # 0
        <4>1. k \in 1 .. n /\ k < k + 1
          BY <3>2
        <4>2. at[k] < at[k + 1] /\ at[k] >= k
          BY <4>1
        <4> QED
          BY <4>1, <4>2
      <3> QED
        BY <3>1, <3>2
    <2>2. 0 \in Up /\ Up \subseteq Nat
      OBVIOUS
    <2> HIDE DEF Up
    <2> QED
      BY <2>1, <2>2, NatSets
  <1>2. Down = Nat
    <2>1. \A k \in Down : k + 1 \in Down
      <3> SUFFICES ASSUME NEW k \in Down, k + 1 < n
                   PROVE  at[n - (k + 1)] <= n - (k + 1)
        OBVIOUS
      <3>1. n - (k + 1) \in 1 .. n /\ n - k \in 1 .. n /\ n - (k + 1) < n - k
        OBVIOUS
      <3>2. at[n - (k + 1)] < at[n - k] /\ at[n - k] <= n - k
        BY <3>1
      <3> QED
        BY <3>1, <3>2
    <2>2. 0 \in Down /\ Down \subseteq Nat
      OBVIOUS
    <2> HIDE DEF Down
    <2> QED
      BY <2>1, <2>2, NatSets
  <1>3. ASSUME NEW i \in 1 .. n PROVE at[i] = i
    <2> DEFINE k == n - i
    <2>1. i \in Nat /\ k \in Nat /\ k < n /\ n - k = i
      OBVIOUS
    <2> HIDE DEF k
    <2>2. \A u \in Nat : u \in 1 .. n => at[u] >= u
      BY <1>1, Zenon
    <2>3. \A d \in Nat : d < n => at[n - d] <= n - d
      BY <1>2, Zenon
    <2> HIDE DEF Up, Down
    <2>4. at[i] >= i
      BY <2>1, <2>2
    <2>5. at[i] <= i
      BY <2>1, <2>3
    <2> QED
      BY <2>4, <2>5
  <1> QED
    BY <1>3

-----------------------------------------------------------------------------
(* Where in the stream the weights, the cache and the batch are: what was  *)
(* learned, then what waits in the cache, ascends; nothing of the batch at *)
(* hand is in it before its rollouts.                                      *)

Answers(c) == [i \in 1 .. Len(c) |-> c[i].prompt]

Awaited == pc \in {"prepare", "rollout"}

AscendInv ==
    /\ Ordered(learned, Drawn(loader))
    /\ pc \in {"draw", "filter"} => Ordered(learned \o Answers(cache), Drawn(loader))
    /\ Awaited => Ordered(learned \o Answers(cache), Drawn(loader) - Prompts)
    /\ pc = "train" => Ordered(learned \o group, Drawn(loader))
    /\ Ordered(saved.learned, Drawn(saved.loader))

LEMMA AnswersType ==
  ASSUME NEW c \in Seq(Answered)
  PROVE  /\ Answers(c) \in Seq(Int) /\ Len(Answers(c)) = Len(c)
         /\ DOMAIN Answers(c) = 1 .. Len(c)
         /\ \A i \in 1 .. Len(c) : Answers(c)[i] = c[i].prompt
  <1>1. \A i \in 1 .. Len(c) : c[i] \in Answered
    BY ElementOfSeq
  <1>2. Len(c) \in Nat
    BY LenProperties
  <1>3. Answers(c) \in [1 .. Len(c) -> Int]
    BY <1>1 DEF Answers, Answered
  <1> QED
    BY <1>2, <1>3 DEF Answers

LEMMA ConcatOfInts ==
  ASSUME NEW r \in Seq(Int), NEW s \in Seq(Int), NEW t \in Seq(Int)
  PROVE  /\ (r \o s) \o t = r \o (s \o t)
         /\ r \o s \in Seq(Int) /\ Len(r \o s) = Len(r) + Len(s)
  BY ConcatAssociative, ConcatProperties

LEMMA AnswersConcat ==
  ASSUME NEW c \in Seq(Answered), NEW d \in Seq(Answered)
  PROVE  Answers(c \o d) = Answers(c) \o Answers(d)
  <1>1. /\ c \o d \in Seq(Answered) /\ Len(c \o d) = Len(c) + Len(d)
        /\ Len(c) \in Nat /\ Len(d) \in Nat
    BY ConcatProperties, LenProperties
  <1>2. /\ Answers(c \o d) \in Seq(Int) /\ Answers(c) \o Answers(d) \in Seq(Int)
        /\ Len(Answers(c \o d)) = Len(c) + Len(d)
        /\ Len(Answers(c) \o Answers(d)) = Len(c) + Len(d)
    <2>1. /\ Answers(c) \in Seq(Int) /\ Answers(d) \in Seq(Int)
          /\ Len(Answers(c)) = Len(c) /\ Len(Answers(d)) = Len(d)
          /\ Answers(c \o d) \in Seq(Int) /\ Len(Answers(c \o d)) = Len(c \o d)
      BY <1>1, AnswersType
    <2> QED
      BY <1>1, <2>1, ConcatOfInts
  <1>3. \A i \in 1 .. Len(c) + Len(d) :
           Answers(c \o d)[i] = (Answers(c) \o Answers(d))[i]
    <2> TAKE i \in 1 .. Len(c) + Len(d)
    <2>1. Answers(c \o d)[i] = (c \o d)[i].prompt
      BY <1>1, AnswersType
    <2>2. CASE i <= Len(c)
      <3>1. (c \o d)[i] = c[i] /\ i \in 1 .. Len(c)
        BY <1>1, <2>2, ConcatProperties
      <3>2. (Answers(c) \o Answers(d))[i] = Answers(c)[i]
        BY <1>1, <2>2, AnswersType, ConcatProperties
      <3> QED
        BY <2>1, <3>1, <3>2, AnswersType
    <2>3. CASE ~(i <= Len(c))
      <3>1. (c \o d)[i] = d[i - Len(c)] /\ i - Len(c) \in 1 .. Len(d)
        BY <1>1, <2>3, ConcatProperties
      <3>2. (Answers(c) \o Answers(d))[i] = Answers(d)[i - Len(c)]
        BY <1>1, <2>3, AnswersType, ConcatProperties
      <3> QED
        BY <2>1, <3>1, <3>2, AnswersType
    <2> QED
      BY <2>2, <2>3
  <1> QED
    BY <1>1, <1>2, <1>3, SeqEqual

(* A rollout adds what is kept of the batch drawn last.                    *)
LEMMA RolloutAdds ==
  ASSUME LoopType, Rollout
  PROVE  \E k \in 0 .. Prompts : \E at \in [1 .. k -> 1 .. Prompts] :
           \E more \in Seq(Answered) :
            /\ \A i, j \in 1 .. k : i < j => at[i] < at[j]
            /\ ~conf.dynamic => k = Prompts
            /\ cache' = cache \o more
            /\ Answers(more) = [i \in 1 .. k |-> PromptId(loader, at[i])]
  <1>1. PICK at \in Choices :
           cache' = cache \o [i \in DOMAIN at |->
                       [prompt |-> PromptId(loader, at[i]), version |-> engine]]
    BY DEF Rollout
  <1>2. PICK k \in 0 .. Prompts : at \in [1 .. k -> 1 .. Prompts]
    BY DEF Choices
  <1>3. /\ \A i, j \in 1 .. k : i < j => at[i] < at[j]
        /\ conf.dynamic \/ 1 .. k = 1 .. Prompts
    BY <1>2 DEF Choices
  <1>4. ~conf.dynamic => k = Prompts
    BY <1>3, ConstantTypes
  <1> DEFINE more == [i \in 1 .. k |->
                       [prompt |-> PromptId(loader, at[i]), version |-> engine]]
  <1>5. \A i \in 1 .. k : PromptId(loader, at[i]) \in Int
    BY <1>2, PromptIdType DEF LoopType
  <1>6. more \in [1 .. k -> Answered]
    BY <1>5 DEF Answered, LoopType
  <1>7. more \in Seq(Answered) /\ Len(more) = k
    BY <1>6, ConstantTypes
  <1>8. Answers(more) = [i \in 1 .. k |-> PromptId(loader, at[i])]
    BY <1>7 DEF Answers
  <1>9. cache' = cache \o more
    BY <1>1, <1>2
  <1> HIDE DEF more
  <1> QED
    BY <1>2, <1>3, <1>4, <1>7, <1>8, <1>9

-----------------------------------------------------------------------------
(* The steps that move prompts; the others leave them where they are.      *)
Train == TrainSFT \/ TrainDPO \/ TrainRM \/ TrainDistillation \/ TrainGRPO

MovesPrompts ==
    NextBatch \/ EndOfEpoch \/ Rollout \/ BatchComplete \/ Train
    \/ SaveCheckpoint \/ EnterEpoch \/ Advance

LEMMA OtherSteps ==
  ASSUME LoopStep, ~MovesPrompts
  PROVE  /\ UNCHANGED <<conf, learned, saved, loader, cache, group>>
         /\ pc' \in {"draw", "filter"} => pc = "filter" /\ DrawMore
         /\ Awaited' => Awaited
         /\ InStep' => InStep /\ pc' # "train"
         /\ pc' \in {"prepare", "rollout", "filter", "draw"} =>
              pc \in {"prepare", "rollout", "filter", "draw"}
         /\ BeforeBatch' => BeforeBatch \/ DrawMore
         /\ AfterUpdate' => AfterUpdate
  BY DEF MovesPrompts, Train, LoopStep, SkipStartValidation, StartValidation,
        EndStartValidation, LeaveLoop, PrepareGRPORollouts,
        PrepareDistillationRollouts, DrawMore, TooManyBatches, SkipValidation,
        ValidateSupervised, PrepareValidation, EndValidation, CheckSave,
        SkipSave, sampling, outside, Awaited, InStep, BeforeBatch, AfterUpdate

LEMMA TrainStep ==
  ASSUME Train
  PROVE  /\ pc = "train" /\ pc' = "trained" /\ learned' = learned \o group
         /\ UNCHANGED <<conf, total, saved, loader, cache, group>>
  BY DEF Train, TrainSFT, TrainDPO, TrainRM, TrainDistillation, TrainGRPO,
        Supervised, Learn, counters, sampling, outside

LEMMA NextBatchStep ==
  ASSUME LoopType, NextBatch
  PROVE  /\ pc = "draw" /\ pc' = (IF Generates THEN "prepare" ELSE "train")
         /\ UNCHANGED <<conf, learned, saved, cache>>
         /\ loader \in LoaderType /\ loader' \in LoaderType
         /\ Drawn(loader') = Drawn(loader) + Prompts
         /\ ~Generates => group' = [j \in 1 .. Prompts |-> PromptId(loader', j)]
  <1>1. /\ loader' = [loader EXCEPT !.pos = @ + 1] /\ loader.pos < DataLen
        /\ pc = "draw" /\ pc' = (IF Generates THEN "prepare" ELSE "train")
        /\ UNCHANGED <<conf, learned, saved, cache>>
        /\ ~Generates => group' = [j \in 1 .. Prompts |-> PromptId(loader', j)]
    BY Zenon DEF NextBatch, outside
  <1>2. loader \in LoaderType
    BY DEF LoopType, LoaderType
  <1>3. loader.pos + 1 \in 0 .. DataLen /\ loader.pass \in Nat
    BY <1>1, <1>2, ConstantTypes DEF LoaderType
  <1>4. /\ loader' \in LoaderType
        /\ loader'.pass = loader.pass /\ loader'.pos = loader.pos + 1
    BY <1>1, <1>2, <1>3 DEF LoaderType
  <1>5. Drawn(loader') = Drawn(loader) + Prompts
    BY <1>2, <1>4, DrawnByNextBatch
  <1> QED
    BY <1>1, <1>2, <1>4, <1>5

LEMMA EndOfEpochStep ==
  ASSUME LoopType, EndOfEpoch
  PROVE  /\ pc = "draw" /\ pc' = "guard"
         /\ UNCHANGED <<conf, learned, saved, cache, group>>
         /\ Drawn(loader') = Drawn(loader)
  <1>1. /\ loader' = [pass |-> loader.pass + 1, pos |-> 0] /\ loader.pos = DataLen
        /\ pc = "draw" /\ pc' = "guard"
        /\ UNCHANGED <<conf, learned, saved, cache, group>>
    BY DEF EndOfEpoch, sampling, outside
  <1>2. loader \in LoaderType
    BY DEF LoopType, LoaderType
  <1>3. loader' \in LoaderType
    BY <1>1, <1>2, ConstantTypes DEF LoaderType
  <1>4. Drawn(loader') = Drawn(loader)
    BY <1>1, <1>2, <1>3, DrawnByNextPass
  <1> QED
    BY <1>1, <1>4

(* A whole batch, as the supervised loops take it.                         *)
LEMMA WholeBatch ==
  ASSUME NEW l \in LoaderType, NEW s, s = [j \in 1 .. Prompts |-> PromptId(l, j)]
  PROVE  /\ s \in Seq(Int) /\ Len(s) = Prompts
         /\ Ordered(s, Drawn(l))
         /\ \A i \in DOMAIN s : Drawn(l) - Prompts < s[i]
  <1> DEFINE at == [j \in 1 .. Prompts |-> j]
  <1>1. /\ at \in [1 .. Prompts -> 1 .. Prompts] /\ Prompts \in 0 .. Prompts
        /\ \A i, j \in 1 .. Prompts : i < j => at[i] < at[j]
    BY ConstantTypes
  <1>2. \A i \in 1 .. Prompts : PromptId(l, i) \in Int
    BY PromptIdType DEF LoaderType
  <1>3. /\ s \in [1 .. Prompts -> Int]
        /\ \A i \in 1 .. Prompts : s[i] = PromptId(l, at[i])
    BY <1>2
  <1> HIDE DEF at
  <1> QED
    BY <1>1, <1>3, BatchOrdered

(* What comes first of an ordered sequence is ordered.                     *)
LEMMA OrderedShorter ==
  ASSUME NEW r \in Seq(Int), NEW s \in Seq(Int), NEW t \in Seq(Int), NEW n,
         Len(t) <= Len(s), \A j \in 1 .. Len(t) : t[j] = s[j],
         Ordered(r \o s, n)
  PROVE  Ordered(r \o t, n)
  <1>1. /\ DOMAIN (r \o s) = 1 .. Len(r) + Len(s)
        /\ DOMAIN (r \o t) = 1 .. Len(r) + Len(t)
        /\ Len(r) \in Nat /\ Len(s) \in Nat /\ Len(t) \in Nat
    BY ConcatProperties, LenProperties
  <1>2. 1 .. Len(r) + Len(t) \subseteq 1 .. Len(r) + Len(s)
    BY <1>1
  <1>3. ASSUME NEW i \in 1 .. Len(r) + Len(t)
        PROVE  (r \o t)[i] = (r \o s)[i]
    <2>1. i \in 1 .. Len(r) + Len(s) /\ i \in Int
      BY <1>1
    <2>2. CASE i <= Len(r)
      BY <2>1, <2>2, ConcatProperties
    <2>3. CASE ~(i <= Len(r))
      <3>1. i - Len(r) \in 1 .. Len(t)
        BY <1>1, <2>1, <2>3
      <3>2. (r \o t)[i] = t[i - Len(r)] /\ (r \o s)[i] = s[i - Len(r)]
        BY <2>1, <2>3, ConcatProperties
      <3> QED
        BY <3>1, <3>2
    <2> QED
      BY <2>2, <2>3
  <1> QED
    BY <1>1, <1>2, <1>3, OrderedPrefix

(* What is kept of the batch at hand goes behind what waits in the cache.  *)
LEMMA OrderedRollout ==
  ASSUME NEW l \in LoaderType, NEW r \in Seq(Int),
         NEW c \in Seq(Answered), NEW d \in Seq(Answered),
         NEW k \in 0 .. Prompts, NEW at \in [1 .. k -> 1 .. Prompts],
         \A i, j \in 1 .. k : i < j => at[i] < at[j],
         Answers(d) = [i \in 1 .. k |-> PromptId(l, at[i])],
         Ordered(r \o Answers(c), Drawn(l) - Prompts)
  PROVE  Ordered(r \o Answers(c \o d), Drawn(l))
  <1>1. /\ Answers(d) \in [1 .. k -> Int]
        /\ \A i \in 1 .. k : Answers(d)[i] = PromptId(l, at[i])
    <2>1. \A i \in 1 .. k : PromptId(l, at[i]) \in Int
      BY PromptIdType DEF LoaderType
    <2> QED
      BY <2>1
  <1>2. /\ Answers(d) \in Seq(Int)
        /\ Ordered(Answers(d), Drawn(l))
        /\ \A i \in DOMAIN Answers(d) : Drawn(l) - Prompts < Answers(d)[i]
    BY <1>1, BatchOrdered
  <1>3. Answers(c) \in Seq(Int) /\ r \o Answers(c) \in Seq(Int)
    BY AnswersType, ConcatOfInts
  <1>4. Answers(c \o d) = Answers(c) \o Answers(d)
    BY AnswersConcat
  <1>5. (r \o Answers(c)) \o Answers(d) = r \o (Answers(c) \o Answers(d))
    BY <1>2, <1>3, ConcatOfInts
  <1>6. /\ Drawn(l) \in Int /\ Drawn(l) - Prompts \in Int
        /\ Drawn(l) - Prompts <= Drawn(l)
    BY DrawnType, ConstantTypes
  <1>7. Ordered((r \o Answers(c)) \o Answers(d), Drawn(l))
    BY <1>2, <1>3, <1>6, OrderedConcat
  <1> QED
    BY <1>4, <1>5, <1>7

LEMMA InitAscendInv == Init => AscendInv
  <1> SUFFICES ASSUME Init PROVE AscendInv
    OBVIOUS
  <1>1. /\ learned = <<>> /\ saved.learned = <<>> /\ pc = "start"
    BY DEF Init, NoCheckpoint
  <1>2. \A n : Ordered(<<>>, n)
    BY DEF Ordered
  <1> QED
    BY <1>1, <1>2 DEF AscendInv, Awaited

LEMMA NextAscendInv == LoopType /\ AscendInv /\ [Next]_vars => AscendInv'
  <1> SUFFICES ASSUME LoopType, AscendInv, [Next]_vars PROVE AscendInv'
    OBVIOUS
  <1>1. /\ loader \in LoaderType /\ saved.loader \in LoaderType
        /\ learned \in Seq(Int) /\ cache \in Seq(Answered) /\ group \in Seq(Int)
    BY DEF LoopType, CheckpointType, LoaderType
  <1>2. /\ Drawn(loader) \in Int /\ Prompts \in Int /\ Prompts >= 1
        /\ Answers(cache) \in Seq(Int)
        /\ learned \o Answers(cache) \in Seq(Int)
    BY <1>1, DrawnType, AnswersType, ConcatOfInts, ConstantTypes
  <1>3. CASE NextBatch
    <2>1. /\ pc = "draw" /\ pc' = (IF Generates THEN "prepare" ELSE "train")
          /\ UNCHANGED <<conf, learned, saved, cache>>
          /\ loader' \in LoaderType
          /\ Drawn(loader') = Drawn(loader) + Prompts
          /\ ~Generates => group' = [j \in 1 .. Prompts |-> PromptId(loader', j)]
      BY <1>3, NextBatchStep
    <2>2. Ordered(learned, Drawn(loader'))
      BY <1>1, <1>2, <2>1, OrderedFurther DEF AscendInv
    <2>3. ASSUME ~Generates PROVE Ordered(learned \o group', Drawn(loader'))
      <3>1. /\ group' \in Seq(Int) /\ Ordered(group', Drawn(loader'))
            /\ \A i \in DOMAIN group' : Drawn(loader) < group'[i]
        BY <1>2, <2>1, <2>3, WholeBatch
      <3>2. Ordered(learned, Drawn(loader))
        BY DEF AscendInv
      <3> QED
        BY <1>1, <1>2, <2>1, <3>1, <3>2, OrderedConcat
    <2>4. Drawn(loader') - Prompts = Drawn(loader)
      BY <1>2, <2>1
    <2> QED
      BY <2>1, <2>2, <2>3, <2>4 DEF AscendInv, Awaited
  <1>4. CASE EndOfEpoch
    BY <1>4, EndOfEpochStep DEF AscendInv, Awaited
  <1>5. CASE Rollout
    <2>1. /\ pc = "rollout" /\ pc' = "filter"
          /\ UNCHANGED <<conf, learned, saved, loader>>
      BY <1>5 DEF Rollout, outside
    <2>2. PICK k \in 0 .. Prompts : \E at \in [1 .. k -> 1 .. Prompts] :
            \E more \in Seq(Answered) :
             /\ \A i, j \in 1 .. k : i < j => at[i] < at[j]
             /\ cache' = cache \o more
             /\ Answers(more) = [i \in 1 .. k |-> PromptId(loader, at[i])]
      BY <1>5, RolloutAdds
    <2>3. PICK at \in [1 .. k -> 1 .. Prompts], more \in Seq(Answered) :
             /\ \A i, j \in 1 .. k : i < j => at[i] < at[j]
             /\ cache' = cache \o more
             /\ Answers(more) = [i \in 1 .. k |-> PromptId(loader, at[i])]
      BY <2>2
    <2>4. Ordered(learned \o Answers(cache), Drawn(loader) - Prompts)
      BY <2>1 DEF AscendInv, Awaited
    <2>5. Ordered(learned \o Answers(cache'), Drawn(loader))
      BY <1>1, <2>3, <2>4, OrderedRollout
    <2> QED
      BY <2>1, <2>5 DEF AscendInv, Awaited
  <1>6. CASE BatchComplete
    <2>1. /\ pc = "filter" /\ pc' = "train" /\ Len(cache) >= Prompts
          /\ UNCHANGED <<conf, learned, saved, loader, cache>>
          /\ group' = [j \in 1 .. Prompts |-> cache[j].prompt]
      BY <1>6 DEF BatchComplete, outside
    <2>2. /\ Len(Answers(cache)) = Len(cache) /\ Len(cache) \in Nat
          /\ \A j \in 1 .. Prompts : Answers(cache)[j] = cache[j].prompt
      <3>1. Len(cache) \in Nat
        BY <1>1, LenProperties
      <3>2. \A j \in 1 .. Prompts : j \in 1 .. Len(cache)
        BY <1>2, <2>1, <3>1
      <3> QED
        BY <1>1, <3>1, <3>2, AnswersType
    <2>3. group' \in [1 .. Prompts -> Int]
      <3>1. \A j \in 1 .. Prompts : Answers(cache)[j] \in Int
        BY <1>2, <2>1, <2>2, ElementOfSeq
      <3> QED
        BY <2>1, <2>2, <3>1
    <2>4. group' \in Seq(Int) /\ Len(group') = Prompts
      BY <2>3, ConstantTypes
    <2>5. \A j \in 1 .. Prompts : group'[j] = Answers(cache)[j]
      BY <2>1, <2>2
    <2>6. Ordered(learned \o group', Drawn(loader))
      <3>1. Ordered(learned \o Answers(cache), Drawn(loader))
        BY <2>1 DEF AscendInv
      <3>2. /\ Len(group') <= Len(Answers(cache))
            /\ \A j \in 1 .. Len(group') : group'[j] = Answers(cache)[j]
        BY <1>2, <2>1, <2>2, <2>4, <2>5
      <3>3. /\ learned \in Seq(Int) /\ Answers(cache) \in Seq(Int)
            /\ group' \in Seq(Int)
        BY <1>1, <1>2, <2>4
      <3> QED
        BY <3>1, <3>2, <3>3, OrderedShorter
    <2> QED
      BY <2>1, <2>6 DEF AscendInv, Awaited
  <1>7. CASE Train
    BY <1>7, TrainStep DEF AscendInv, Awaited
  <1>8. CASE SaveCheckpoint
    <2>1. /\ pc' = "advance" /\ UNCHANGED <<conf, learned, loader>>
          /\ saved'.learned = learned /\ saved'.loader = loader
      BY <1>8 DEF SaveCheckpoint
    <2> QED
      BY <2>1 DEF AscendInv, Awaited
  <1>9. CASE EnterEpoch \/ Advance
    <2>1. /\ pc' \in {"draw", "done"} /\ cache' = <<>>
          /\ UNCHANGED <<conf, learned, loader, saved>>
      BY <1>9 DEF EnterEpoch, Advance, outside
    <2>2. Answers(<<>>) = <<>>
      BY DEF Answers
    <2>3. learned \o <<>> = learned
      BY <1>1, ConcatEmptySeq
    <2> QED
      BY <2>1, <2>2, <2>3 DEF AscendInv, Awaited
  <1>10. CASE Resubmit
    BY <1>10 DEF Resubmit, StartFrom, AscendInv, Awaited
  <1>11. CASE LoopStep /\ ~MovesPrompts
    <2>1. /\ UNCHANGED <<conf, learned, saved, loader, cache, group>>
          /\ pc' \in {"draw", "filter"} => pc = "filter"
          /\ Awaited' => Awaited
          /\ pc' # "train"
      BY <1>11, OtherSteps DEF InStep
    <2> QED
      BY <2>1 DEF AscendInv
  <1>12. CASE UNCHANGED vars
    BY <1>12 DEF vars, AscendInv, Awaited
  <1> QED
    BY <1>3, <1>4, <1>5, <1>6, <1>7, <1>8, <1>9, <1>10, <1>11, <1>12
       DEF Next, MovesPrompts

(* Without dynamic sampling nothing is left out: the weights have learned  *)
(* from all that was drawn, but for the batch of the present step.         *)
Unbroken(s) == \A i \in DOMAIN s : s[i] = i

UnbrokenInv ==
    ~conf.dynamic =>
        /\ Unbroken(learned)
        /\ BeforeBatch \/ AfterUpdate => Len(learned) = Drawn(loader)
        /\ InStep => Len(learned) = Drawn(loader) - Prompts
        /\ Generates /\ pc \in {"draw", "prepare", "rollout"} => cache = <<>>
        /\ pc = "filter" => \A j \in 1 .. Prompts : cache[j].prompt = PromptId(loader, j)
        /\ pc = "train" => \A j \in 1 .. Prompts : group[j] = PromptId(loader, j)
        /\ Unbroken(saved.learned) /\ Len(saved.learned) = Drawn(saved.loader)

LEMMA UnbrokenConcat ==
  ASSUME NEW s \in Seq(Int), NEW t \in Seq(Int), Unbroken(s),
         \A j \in 1 .. Len(t) : t[j] = Len(s) + j
  PROVE  Unbroken(s \o t)
  <1>1. /\ DOMAIN (s \o t) = 1 .. Len(s) + Len(t)
        /\ Len(s) \in Nat /\ Len(t) \in Nat /\ DOMAIN s = 1 .. Len(s)
    BY ConcatProperties, LenProperties
  <1>2. ASSUME NEW i \in 1 .. Len(s) + Len(t) PROVE (s \o t)[i] = i
    <2>1. CASE i <= Len(s)
      <3>1. (s \o t)[i] = s[i] /\ i \in DOMAIN s
        BY <1>1, <2>1, ConcatProperties
      <3> QED
        BY <3>1 DEF Unbroken
    <2>2. CASE ~(i <= Len(s))
      <3>1. i - Len(s) \in 1 .. Len(t) /\ Len(s) + (i - Len(s)) = i
        BY <1>1, <2>2
      <3>2. (s \o t)[i] = t[i - Len(s)]
        BY <1>1, <2>2, ConcatProperties
      <3> QED
        BY <3>1, <3>2
    <2> QED
      BY <2>1, <2>2
  <1> QED
    BY <1>1, <1>2 DEF Unbroken

LEMMA InitUnbrokenInv == Init => UnbrokenInv
  <1> SUFFICES ASSUME Init PROVE UnbrokenInv
    OBVIOUS
  <1>1. /\ learned = <<>> /\ saved.learned = <<>> /\ pc = "start" /\ cache = <<>>
        /\ loader = [pass |-> 0, pos |-> 0] /\ saved.loader = [pass |-> 0, pos |-> 0]
    BY DEF Init, NoCheckpoint
  <1>2. Drawn([pass |-> 0, pos |-> 0]) = 0
    <2>1. 0 * DataLen + 0 = 0
      BY ConstantTypes
    <2>2. 0 * Prompts = 0
      BY ConstantTypes
    <2> QED
      BY <2>1, <2>2 DEF Drawn
  <1> QED
    BY <1>1, <1>2 DEF UnbrokenInv, Unbroken, InStep

LEMMA NextUnbrokenInv ==
    LoopInv /\ UnbrokenInv /\ [Next]_vars => UnbrokenInv'
  <1> SUFFICES ASSUME LoopType, TurnsInv, CountInv, UnbrokenInv, [Next]_vars
               PROVE  UnbrokenInv'
    BY DEF LoopInv
  <1> USE DEF InStep, BeforeBatch, AfterUpdate
  <1>1. /\ loader \in LoaderType /\ saved.loader \in LoaderType
        /\ learned \in Seq(Int) /\ cache \in Seq(Answered) /\ group \in Seq(Int)
    BY DEF LoopType, CheckpointType, LoaderType
  <1>2. Drawn(loader) \in Int /\ Prompts \in Int /\ Prompts >= 1
    BY <1>1, DrawnType, ConstantTypes
  <1>3. CASE NextBatch
    <2>1. /\ pc = "draw" /\ pc' = (IF Generates THEN "prepare" ELSE "train")
          /\ UNCHANGED <<conf, learned, saved, cache>>
          /\ Drawn(loader') = Drawn(loader) + Prompts
          /\ ~Generates => group' = [j \in 1 .. Prompts |-> PromptId(loader', j)]
      BY <1>3, NextBatchStep
    <2>2. Drawn(loader') - Prompts = Drawn(loader)
      BY <1>2, <2>1
    <2>3. Generates' = Generates
      BY <2>1 DEF Generates
    <2>4. ~Generates => \A j \in 1 .. Prompts : group'[j] = PromptId(loader', j)
      BY <2>1
    <2> QED
      BY <2>1, <2>2, <2>3, <2>4 DEF UnbrokenInv
  <1>4. CASE EndOfEpoch
    BY <1>4, EndOfEpochStep DEF UnbrokenInv
  <1>5. CASE Rollout
    <2>1. /\ pc = "rollout" /\ pc' = "filter"
          /\ UNCHANGED <<conf, learned, saved, loader>>
      BY <1>5 DEF Rollout, outside
    <2>2. ASSUME ~conf.dynamic
          PROVE  \A j \in 1 .. Prompts : cache'[j].prompt = PromptId(loader, j)
      <3>1. PICK k \in 0 .. Prompts : \E at \in [1 .. k -> 1 .. Prompts] :
              \E more \in Seq(Answered) :
                /\ \A i, j \in 1 .. k : i < j => at[i] < at[j]
                /\ k = Prompts
                /\ cache' = cache \o more
                /\ Answers(more) = [i \in 1 .. k |-> PromptId(loader, at[i])]
        BY <1>5, <2>2, RolloutAdds
      <3>2. PICK at \in [1 .. Prompts -> 1 .. Prompts], more \in Seq(Answered) :
                /\ \A i, j \in 1 .. Prompts : i < j => at[i] < at[j]
                /\ cache' = cache \o more
                /\ Answers(more) = [i \in 1 .. Prompts |-> PromptId(loader, at[i])]
        BY <3>1
      <3>3. cache = <<>>
        <4>1. Generates
          BY <2>1 DEF TurnsInv, Generating
        <4> QED
          BY <2>1, <2>2, <4>1 DEF UnbrokenInv
      <3>4. cache' = more
        BY <3>2, <3>3, ConcatEmptySeq
      <3>5. \A j \in 1 .. Prompts : at[j] = j
        BY <3>2, ConstantTypes, AscendingIsAll
      <3>6. DOMAIN Answers(more) = 1 .. Prompts /\ DOMAIN Answers(more) = 1 .. Len(more)
        BY <3>2, AnswersType
      <3>7. \A j \in 1 .. Prompts : Answers(more)[j] = more[j].prompt
        BY <3>6, AnswersType
      <3> QED
        BY <3>2, <3>4, <3>5, <3>7
    <2> QED
      BY <2>1, <2>2 DEF UnbrokenInv
  <1>6. CASE BatchComplete
    <2>1. /\ pc = "filter" /\ pc' = "train"
          /\ UNCHANGED <<conf, learned, saved, loader, cache>>
          /\ group' = [j \in 1 .. Prompts |-> cache[j].prompt]
      BY <1>6 DEF BatchComplete, outside
    <2> QED
      BY <2>1 DEF UnbrokenInv
  <1>7. CASE Train
    <2>1. /\ pc = "train" /\ pc' = "trained" /\ learned' = learned \o group
          /\ UNCHANGED <<conf, saved, loader, cache>>
          /\ Len(group) = Prompts
      BY <1>7, TrainStep DEF LoopType
    <2>2. ASSUME ~conf.dynamic
          PROVE  Unbroken(learned') /\ Len(learned') = Drawn(loader)
      <3>1. /\ Len(learned) = Drawn(loader) - Prompts /\ Unbroken(learned)
            /\ \A j \in 1 .. Prompts : group[j] = PromptId(loader, j)
        BY <2>1, <2>2 DEF UnbrokenInv
      <3>2. \A j \in 1 .. Len(group) : group[j] = Len(learned) + j
        BY <1>1, <2>1, <3>1, LastDrawn
      <3>3. Len(learned \o group) = Len(learned) + Len(group)
        BY <1>1, ConcatOfInts
      <3>4. Unbroken(learned \o group)
        BY <1>1, <3>1, <3>2, UnbrokenConcat
      <3> QED
        BY <1>2, <2>1, <3>1, <3>3, <3>4
    <2> QED
      BY <2>1, <2>2 DEF UnbrokenInv
  <1>8. CASE SaveCheckpoint
    <2>1. /\ pc = "save" /\ pc' = "advance" /\ UNCHANGED <<conf, learned, loader>>
          /\ saved'.learned = learned /\ saved'.loader = loader
      BY <1>8 DEF SaveCheckpoint
    <2> QED
      BY <2>1 DEF UnbrokenInv
  <1>9. CASE EnterEpoch \/ Advance
    <2>1. /\ pc' \in {"draw", "done"} /\ cache' = <<>>
          /\ pc \in {"guard", "advance"}
          /\ UNCHANGED <<conf, learned, loader, saved>>
      BY <1>9 DEF EnterEpoch, Advance, outside
    <2> QED
      BY <2>1 DEF UnbrokenInv
  <1>10. CASE Resubmit
    BY <1>10 DEF Resubmit, StartFrom, UnbrokenInv
  <1>11. CASE LoopStep /\ ~MovesPrompts
    <2>1. /\ UNCHANGED <<conf, learned, saved, loader, cache, group>>
          /\ pc' \in {"draw", "filter"} => pc = "filter" /\ DrawMore
          /\ Awaited' => Awaited
          /\ InStep' => InStep /\ pc' # "train"
          /\ BeforeBatch' => BeforeBatch \/ DrawMore
          /\ AfterUpdate' => AfterUpdate
      BY <1>11, OtherSteps
    <2>2. ASSUME ~conf.dynamic PROVE ~DrawMore
      <3>1. pc = "filter" => Len(cache) >= Prompts
        BY <2>2 DEF CountInv
      <3>2. Len(cache) \in Nat
        BY <1>1, LenProperties
      <3> QED
        BY <1>2, <3>1, <3>2 DEF DrawMore
    <2>3. ASSUME ~conf.dynamic
          PROVE  /\ pc' \notin {"draw", "filter"} /\ (Awaited' => Awaited)
                 /\ InStep' => InStep /\ pc' # "train"
                 /\ BeforeBatch' => BeforeBatch
                 /\ AfterUpdate' => AfterUpdate
      BY <2>1, <2>2, <2>3
    <2>4. (conf.dynamic)' = conf.dynamic /\ Generates' = Generates
      BY <2>1 DEF Generates
    <2> HIDE DEF BeforeBatch, InStep, AfterUpdate
    <2>5. CASE conf.dynamic
      BY <2>4, <2>5 DEF UnbrokenInv
    <2>6. CASE ~conf.dynamic
      BY <2>1, <2>3, <2>4, <2>6 DEF UnbrokenInv, Awaited, InStep
    <2> QED
      BY <2>5, <2>6
  <1>12. CASE UNCHANGED vars
    BY <1>12 DEF vars, UnbrokenInv, Generates
  <1> QED
    BY <1>3, <1>4, <1>5, <1>6, <1>7, <1>8, <1>9, <1>10, <1>11, <1>12
       DEF Next, MovesPrompts

-----------------------------------------------------------------------------
(* The job keeps its promise about the data.                               *)

LEMMA ConfigIsBoolean ==
  ASSUME LoopType
  PROVE  conf.dynamic \in BOOLEAN
  BY LoopAssumption DEF LoopType, ConfigType

LEMMA StepKeepsOrder ==
    LoopInv /\ AscendInv /\ AscendInv' /\ UnbrokenInv' /\ [Next]_vars
        => [Promise!Next]_(Promise!streamVars)
  <1> SUFFICES ASSUME LoopInv, AscendInv', UnbrokenInv', [Next]_vars
               PROVE  [Promise!Next]_(Promise!streamVars)
    OBVIOUS
  <1> USE DEF Promise!Next, Promise!streamVars
  <1>1. CASE Train
    <2>1. /\ pc = "train" /\ learned' = learned \o group
          /\ UNCHANGED <<conf, saved>>
      BY <1>1, TrainStep
    <2>2. learned \in Seq(Int) /\ group \in Seq(Int) /\ Len(group) = Prompts
      BY <2>1 DEF LoopInv, LoopType
    <2>3. Len(learned') = Len(learned) + Prompts
      BY <2>1, <2>2, ConcatOfInts
    <2>4. SubSeq(learned', 1, Len(learned)) = learned
      <3>1. CASE Len(learned) = 0
        BY <2>2, <3>1, SubSeqEmpty, EmptySeq
      <3>2. CASE Len(learned) # 0
        <4>1. Len(learned) \in 1 .. Len(learned) /\ 1 \in 1 .. Len(learned)
          BY <2>2, <3>2, LenProperties
        <4> QED
          BY <2>1, <2>2, <4>1, SubSeqOfConcat1, SubSeqFull
      <3> QED
        BY <3>1, <3>2
    <2>5. Promise!Ascending(learned')
      BY DEF AscendInv, Ordered, Promise!Ascending
    <2>6. conf.dynamic \/ Promise!Unbroken(learned')
      BY <2>1 DEF UnbrokenInv, Unbroken, Promise!Unbroken
    <2> QED
      BY <2>1, <2>3, <2>4, <2>5, <2>6 DEF Promise!Update
  <1>2. CASE SaveCheckpoint
    <2>1. saved'.learned = learned /\ UNCHANGED <<learned, conf>>
      BY <1>2 DEF SaveCheckpoint
    <2> QED
      BY <2>1 DEF Promise!Persist
  <1>3. CASE Resubmit
    <2>1. learned' = saved.learned /\ UNCHANGED <<saved, conf>>
      BY <1>3 DEF Resubmit, StartFrom
    <2> QED
      BY <2>1 DEF Promise!Restart
  <1>4. CASE NextBatch \/ EndOfEpoch \/ Rollout \/ BatchComplete \/ EnterEpoch
             \/ Advance
    <2>1. UNCHANGED <<learned, conf, saved>>
      BY <1>4 DEF NextBatch, EndOfEpoch, Rollout, BatchComplete, EnterEpoch,
            Advance, outside
    <2> QED
      BY <2>1
  <1>5. CASE LoopStep /\ ~MovesPrompts
    <2>1. UNCHANGED <<learned, conf, saved>>
      BY <1>5, OtherSteps
    <2> QED
      BY <2>1
  <1>6. CASE UNCHANGED vars
    BY <1>6 DEF vars
  <1> QED
    BY <1>1, <1>2, <1>3, <1>4, <1>5, <1>6 DEF Next, MovesPrompts

(* Whatever the algorithm and however often the job is killed and started  *)
(* again: the weights have learned from the prompts in the order of the    *)
(* data, each once, and without a gap unless dynamic sampling leaves       *)
(* prompts out; what is durable is such a prefix, and a restart goes on    *)
(* from it.                                                                *)
THEOREM DataInOrder == Spec => KeepsOrder
  <1>1. Init => Promise!Init
    <2> SUFFICES ASSUME Init PROVE Promise!Init
      OBVIOUS
    <2>1. conf.dynamic \in BOOLEAN
      BY InitLoopType, ConfigIsBoolean
    <2> QED
      BY <2>1 DEF Init, NoCheckpoint, Promise!Init
  <1>2. Init => AscendInv /\ UnbrokenInv
    BY InitAscendInv, InitUnbrokenInv
  <1>3. LoopInv /\ AscendInv /\ UnbrokenInv /\ [Next]_vars
            => AscendInv' /\ UnbrokenInv'
    BY NextAscendInv, NextUnbrokenInv DEF LoopInv
  <1>4. LoopInv /\ AscendInv /\ AscendInv' /\ UnbrokenInv' /\ [Next]_vars
            => [Promise!Next]_(Promise!streamVars)
    BY StepKeepsOrder
  <1> QED
    BY <1>1, <1>2, <1>3, <1>4, LoopInvInvariant, PTL
       DEF Spec, KeepsOrder, Promise!Spec

-----------------------------------------------------------------------------
(* The time-out: what has elapsed is the sum of the iterations, and as     *)
(* long as the run goes on it leaves room for one more of average length,  *)
(* which is not less than what the next one takes.                         *)

ConfTimes ==
    /\ conf.deadline \in Nat /\ conf.stepTime \in Nat /\ conf.warmUp \in Nat
    /\ conf.stepTime >= 1

TimerInv ==
    /\ timer \in [elapsed : Nat, iterations : Nat, saved : BOOLEAN]
    /\ timer.saved => pc \in {"save", "advance", "done"}
    /\ timer.iterations = 0 => timer.elapsed = 0
    /\ timer.iterations # 0
          => timer.elapsed = timer.iterations * conf.stepTime + conf.warmUp
    /\ conf.deadline > 0 /\ timer.iterations > 0 /\ ~timer.saved =>
          timer.elapsed * (timer.iterations + 1) < conf.deadline * timer.iterations
    /\ MeetsDeadline

LEMMA ConfTimesType ==
  ASSUME LoopType
  PROVE  ConfTimes
  BY LoopAssumption DEF LoopType, ConfigType, ConfTimes

(* Room for one more iteration of average length is room for the next.     *)
LEMMA RoomForOneMore ==
  ASSUME NEW n \in Nat, n >= 1, NEW t \in Nat, NEW w \in Nat, NEW d \in Nat,
         NEW e \in Nat, e = n * t + w, e * (n + 1) < d * n
  PROVE  e + t <= d
  <1>1. e * (n + 1) = e * n + e
    OBVIOUS
  <1>2. (e + t) * n = e * n + t * n
    OBVIOUS
  <1>3. t * n = n * t /\ n * t \in Nat /\ e * n \in Nat
    OBVIOUS
  <1>4. (e + t) * n < d * n
    BY <1>1, <1>2, <1>3
  <1>5. ASSUME e + t > d PROVE FALSE
    <2>1. (e + t) * n >= d * n
      <3>1. PICK k \in Nat : e + t = d + k
        <4>1. e + t - d \in Nat /\ e + t = d + (e + t - d)
          BY <1>5
        <4> QED
          BY <4>1
      <3>2. (d + k) * n = d * n + k * n
        OBVIOUS
      <3>3. k * n \in Nat
        OBVIOUS
      <3>4. d * n \in Nat
        OBVIOUS
      <3> QED
        BY <3>1, <3>2, <3>3, <3>4
    <2>2. (e + t) * n \in Int /\ d * n \in Int
      OBVIOUS
    <2> QED
      BY <1>4, <2>1, <2>2
  <1> QED
    BY <1>5

LEMMA SumOfIterations ==
  ASSUME NEW n \in Nat, NEW t \in Nat, NEW w \in Nat
  PROVE  /\ (n * t + w) + t = (n + 1) * t + w
         /\ (0 + 1) * t + w = t + w
  OBVIOUS

LEMMA FreshTimer ==
  ASSUME LoopType, timer = NewTimer
  PROVE  TimerInv
  <1>1. /\ timer \in [elapsed : Nat, iterations : Nat, saved : BOOLEAN]
        /\ timer.elapsed = 0 /\ timer.iterations = 0 /\ timer.saved = FALSE
    BY DEF NewTimer
  <1>2. conf.deadline \in Nat
    BY ConfTimesType DEF ConfTimes
  <1> QED
    BY <1>1, <1>2 DEF TimerInv, MeetsDeadline

LEMMA InitTimerInv == Init => TimerInv
  BY InitLoopType, FreshTimer DEF Init

LEMMA NextTimerInv == LoopType /\ TimerInv /\ [Next]_vars => TimerInv'
  <1> SUFFICES ASSUME LoopType, TimerInv, [Next]_vars PROVE TimerInv'
    OBVIOUS
  <1>1. CASE CheckSave
    <2> DEFINE marked == [timer EXCEPT !.elapsed = @ + IterationTime,
                                       !.iterations = @ + 1]
    <2>1. /\ pc = "check save" /\ pc' = "save" /\ conf' = conf
          /\ timer' = [marked EXCEPT !.saved = @ \/ OutOfTime(marked)]
      BY <1>1, Zenon DEF CheckSave, outside
    <2>2. /\ ConfTimes
          /\ timer.elapsed \in Nat /\ timer.iterations \in Nat
          /\ timer.saved = FALSE
          /\ timer \in [elapsed : Nat, iterations : Nat, saved : BOOLEAN]
      BY <2>1, ConfTimesType DEF TimerInv
    <2>3. IterationTime \in Nat
      BY <2>2 DEF IterationTime, ConfTimes
    <2>4. /\ marked \in [elapsed : Nat, iterations : Nat, saved : BOOLEAN]
          /\ marked.elapsed = timer.elapsed + IterationTime
          /\ marked.iterations = timer.iterations + 1
          /\ marked.saved = FALSE
      <3> DEFINE more == [timer EXCEPT !.elapsed = @ + IterationTime]
      <3>1. timer.elapsed + IterationTime \in Nat /\ timer.iterations + 1 \in Nat
        BY <2>2, <2>3
      <3>2. /\ more \in [elapsed : Nat, iterations : Nat, saved : BOOLEAN]
            /\ more.elapsed = timer.elapsed + IterationTime
            /\ more.iterations = timer.iterations /\ more.saved = FALSE
        BY <2>2, <3>1
      <3>3. marked = [more EXCEPT !.iterations = timer.iterations + 1]
        BY <2>2, Zenon
      <3> HIDE DEF more, marked
      <3> QED
        BY <3>1, <3>2, <3>3
    <2> HIDE DEF marked
    <2>5. OutOfTime(marked) \in BOOLEAN
      BY DEF OutOfTime
    <2>6. /\ timer' \in [elapsed : Nat, iterations : Nat, saved : BOOLEAN]
          /\ timer'.elapsed = timer.elapsed + IterationTime
          /\ timer'.iterations = timer.iterations + 1
          /\ timer'.saved = OutOfTime(marked)
      BY <2>1, <2>4, <2>5
    <2>7. timer'.elapsed = timer'.iterations * conf.stepTime + conf.warmUp
      <3>1. CASE timer.iterations = 0
        BY <2>2, <2>6, <3>1, SumOfIterations DEF TimerInv, IterationTime, ConfTimes
      <3>2. CASE timer.iterations # 0
        <4>1. /\ timer.elapsed = timer.iterations * conf.stepTime + conf.warmUp
              /\ IterationTime = conf.stepTime
          BY <2>2, <3>2 DEF TimerInv, IterationTime, ConfTimes
        <4> QED
          BY <2>2, <2>6, <4>1, SumOfIterations DEF ConfTimes
      <3> QED
        BY <3>1, <3>2
    <2>8. conf.deadline > 0 /\ ~timer'.saved =>
            timer'.elapsed * (timer'.iterations + 1) < conf.deadline * timer'.iterations
      <3> DEFINE a == timer'.elapsed * (timer'.iterations + 1)
                 b == conf.deadline * timer'.iterations
      <3>1. a \in Int /\ b \in Int
        BY <2>2, <2>6 DEF ConfTimes
      <3>2. conf.deadline > 0 /\ ~timer'.saved => ~(a >= b)
        BY <2>4, <2>6 DEF OutOfTime
      <3> HIDE DEF a, b
      <3>3. conf.deadline > 0 /\ ~timer'.saved => a < b
        BY <3>1, <3>2
      <3> QED
        BY <3>3 DEF a, b
    <2>9. ASSUME conf.deadline > 0, conf.stepTime + conf.warmUp <= conf.deadline
          PROVE  timer'.elapsed <= conf.deadline
      <3>1. CASE timer.iterations = 0
        BY <2>2, <2>6, <2>9, <3>1 DEF TimerInv, IterationTime, ConfTimes
      <3>2. CASE timer.iterations # 0
        <4>1. /\ timer.elapsed = timer.iterations * conf.stepTime + conf.warmUp
              /\ timer.iterations >= 1
              /\ timer.elapsed * (timer.iterations + 1)
                     < conf.deadline * timer.iterations
              /\ IterationTime = conf.stepTime
          BY <2>2, <2>9, <3>2 DEF TimerInv, IterationTime, ConfTimes
        <4>2. timer.elapsed + conf.stepTime <= conf.deadline
          BY <2>2, <4>1, RoomForOneMore DEF ConfTimes
        <4> QED
          BY <2>6, <4>1, <4>2
      <3> QED
        BY <3>1, <3>2
    <2>10. timer'.iterations # 0
      BY <2>2, <2>6
    <2>11. timer'.elapsed = timer'.iterations * conf'.stepTime + conf'.warmUp
      BY <2>1, <2>7, Zenon
    <2>12. conf'.deadline > 0 /\ timer'.iterations > 0 /\ ~timer'.saved =>
              timer'.elapsed * (timer'.iterations + 1)
                 < conf'.deadline * timer'.iterations
      BY <2>1, <2>8, Zenon
    <2>13. MeetsDeadline'
      BY <2>1, <2>9, Zenon DEF MeetsDeadline
    <2> QED
      BY <2>1, <2>6, <2>10, <2>11, <2>12, <2>13, Zenon DEF TimerInv
  <1>2. CASE Resubmit
    <2>1. timer' = NewTimer /\ conf' = conf
      BY <1>2 DEF Resubmit, StartFrom
    <2>2. /\ timer' \in [elapsed : Nat, iterations : Nat, saved : BOOLEAN]
          /\ timer'.elapsed = 0 /\ timer'.iterations = 0 /\ timer'.saved = FALSE
      BY <2>1 DEF NewTimer
    <2>3. conf.deadline \in Nat
      BY ConfTimesType DEF ConfTimes
    <2> QED
      BY <2>1, <2>2, <2>3 DEF TimerInv, MeetsDeadline
  <1>3. CASE LoopStep /\ ~CheckSave
    <2>1. /\ UNCHANGED <<conf, timer>>
          /\ pc \in {"save", "advance", "done"} => pc' \in {"advance", "done"} \/ ~timer.saved
      BY <1>3 DEF LoopStep, SkipStartValidation, StartValidation,
            EndStartValidation, EnterEpoch, LeaveLoop, NextBatch, EndOfEpoch,
            PrepareGRPORollouts, PrepareDistillationRollouts, Rollout,
            DrawMore, TooManyBatches, BatchComplete, Learn, Supervised,
            TrainSFT, TrainDPO, TrainRM, TrainDistillation, TrainGRPO,
            SkipValidation, ValidateSupervised, PrepareValidation,
            EndValidation, SaveCheckpoint, SkipSave, Advance, outside
    <2> QED
      BY <2>1 DEF TimerInv, MeetsDeadline
  <1>4. CASE UNCHANGED vars
    BY <1>4 DEF vars, TimerInv, MeetsDeadline
  <1> QED
    BY <1>1, <1>2, <1>3, <1>4 DEF Next

(* A run that goes on meets its deadline, when its first and slowest       *)
(* iteration does: the average includes the warm-up, so that room for one  *)
(* more iteration of average length is room for the next.                  *)
THEOREM DeadlineMet == Spec => []MeetsDeadline
  <1>1. LoopInv /\ TimerInv /\ [Next]_vars => TimerInv'
    BY NextTimerInv DEF LoopInv
  <1>2. TimerInv => MeetsDeadline
    BY DEF TimerInv
  <1> QED
    BY <1>1, <1>2, InitTimerInv, LoopInvInvariant, PTL DEF Spec

-----------------------------------------------------------------------------
(* The last step: a run that ends has saved the weights it ends with.      *)

(* Nothing more is trained after n steps with the dataloader in state l of *)
(* epoch e.                                                                *)
AtEnd(n, e, l) ==
    \/ ~BelowLimit(n)
    \/ /\ ~conf.dynamic
       /\ \/ e >= conf.maxEpochs
          \/ e + 1 = conf.maxEpochs /\ l.pos = DataLen

Judged == conf.valAtEnd /\ conf.byMetric

(* The checkpoint is the weights at hand, after n steps; judged, it has    *)
(* the metric of their validation.                                         *)
IsSaved(n) == saved.exists /\ saved.learned = learned /\ saved.total = n

FinalInv ==
    /\ pc = "draw" \/ InStep \/ AfterUpdate =>
          epoch < conf.maxEpochs /\ BelowLimit(total)
    /\ pc \in {"check save", "save"} /\ conf.valAtEnd /\ IsLastStep
          => valMetrics = total + 1
    /\ saved.exists =>
          /\ saved.epoch < conf.maxEpochs
          /\ Judged /\ AtEnd(saved.total, saved.epoch, saved.loader)
                => saved.metric = saved.total
    /\ ~saved.exists => saved.total = 0
    /\ pc = "advance" /\ conf.checkpoints /\ SaveDue =>
          /\ IsSaved(total + 1)
          /\ Judged /\ IsLastStep => saved.metric = total + 1
    /\ BeforeBatch /\ conf.checkpoints /\ total > 0 /\ AtEnd(total, epoch, loader) =>
          /\ IsSaved(total)
          /\ Judged => saved.metric = total
    /\ LastStepSaved

(* The test for the last step is right: nothing more is trained after it.  *)
LEMMA LastStepIsLast ==
  ASSUME LoopType, FinalInv, CountInv, AfterUpdate
  PROVE  AtEnd(total + 1, epoch, loader) => IsLastStep
  <1>1. epoch < conf.maxEpochs /\ epoch \in Nat /\ conf.maxEpochs \in Nat
    BY LoopAssumption DEF FinalInv, LoopType, ConfigType
  <1>2. ~conf.dynamic => step + 1 = loader.pos
    BY DEF CountInv
  <1> QED
    BY <1>1, <1>2 DEF AtEnd, IsLastStep

LEMMA InitFinalInv == Init => FinalInv
  <1> SUFFICES ASSUME Init PROVE FinalInv
    OBVIOUS
  <1>1. /\ pc = "start" /\ saved.exists = FALSE /\ saved.total = 0 /\ total = 0
    BY DEF Init, NoCheckpoint
  <1>2. LastStepSaved
    BY <1>1 DEF LastStepSaved, FinalCheckpoint
  <1> QED
    BY <1>1, <1>2 DEF FinalInv, InStep, AfterUpdate

LEMMA NextFinalInv ==
    LoopInv /\ TimerInv /\ FinalInv /\ [Next]_vars => FinalInv'
  <1> SUFFICES ASSUME LoopType, CountInv, TimerInv, FinalInv, [Next]_vars
               PROVE  FinalInv'
    BY DEF LoopInv
  <1> USE DEF BeforeBatch, InStep, AfterUpdate
  <1>1. /\ total \in Nat /\ epoch \in Nat /\ step \in Nat
        /\ conf.maxEpochs \in Nat /\ conf.maxSteps \in Int
        /\ conf.kind \in Kinds
        /\ loader \in LoaderType
        /\ DataLen \in Nat /\ DataLen >= 1
    BY LoopAssumption, ConstantTypes
       DEF LoopType, ConfigType, LoaderType, Unlimited
  <1>2. CASE EnterEpoch
    <2>1. /\ pc = "guard" /\ pc' = "draw"
          /\ epoch < conf.maxEpochs /\ BelowLimit(total)
          /\ UNCHANGED <<conf, epoch, step, total, loader, learned, saved>>
      BY <1>2 DEF EnterEpoch, counters, outside
    <2> QED
      BY <2>1 DEF FinalInv, AtEnd, BelowLimit, IsSaved, Judged, LastStepSaved,
            FinalCheckpoint
  <1>3. CASE LeaveLoop
    <2>1. /\ pc = "guard" /\ pc' = "done"
          /\ ~(epoch < conf.maxEpochs /\ BelowLimit(total))
          /\ UNCHANGED <<conf, epoch, step, total, loader, learned, saved, timer>>
      BY <1>3 DEF LeaveLoop, counters, outside
    <2>2. (conf.dynamic /\ BelowLimit(total)) \/ AtEnd(total, epoch, loader)
      BY <1>1, <2>1 DEF AtEnd
    <2>3. LastStepSaved'
      BY <2>1, <2>2 DEF FinalInv, AtEnd, BelowLimit, IsSaved, Judged,
            LastStepSaved, FinalCheckpoint
    <2> QED
      BY <2>1, <2>3 DEF FinalInv, AtEnd, BelowLimit, Judged
  <1>4. CASE NextBatch
    <2>1. /\ pc = "draw" /\ pc' \in {"prepare", "train"}
          /\ UNCHANGED <<conf, epoch, step, total, learned, saved>>
      BY <1>4 DEF NextBatch, counters, outside
    <2> QED
      BY <2>1 DEF FinalInv, AtEnd, BelowLimit, IsSaved, Judged, LastStepSaved,
            FinalCheckpoint
  <1>5. CASE EndOfEpoch
    <2>1. /\ pc = "draw" /\ pc' = "guard" /\ loader.pos = DataLen
          /\ loader'.pos = 0 /\ epoch' = epoch + 1
          /\ UNCHANGED <<conf, total, learned, saved>>
      BY <1>5 DEF EndOfEpoch, outside
    <2>2. epoch < conf.maxEpochs /\ BelowLimit(total)
      BY <2>1 DEF FinalInv
    <2>3. AtEnd(total, epoch, loader)' => AtEnd(total, epoch, loader)
      BY <1>1, <2>1, <2>2 DEF AtEnd, BelowLimit
    <2> QED
      BY <2>1, <2>3 DEF FinalInv, AtEnd, BelowLimit, IsSaved, Judged,
            LastStepSaved, FinalCheckpoint
  <1>6. CASE SkipValidation \/ ValidateSupervised \/ EndValidation
    <2>1. /\ pc \in {"trained", "validation"} /\ pc' = "check save"
          /\ UNCHANGED <<conf, epoch, step, total, learned, saved>>
          /\ ~ValidationDue \/ valMetrics' = total + 1
      BY <1>6 DEF SkipValidation, ValidateSupervised, EndValidation, counters,
            outside
    <2> QED
      BY <2>1 DEF FinalInv, AtEnd, BelowLimit, IsSaved, Judged, LastStepSaved,
            FinalCheckpoint, ValidationDue, IsLastStep
  <1>7. CASE SaveCheckpoint
    <2>1. /\ pc = "save" /\ pc' = "advance"
          /\ UNCHANGED <<conf, epoch, step, total, learned, loader, timer>>
          /\ saved'.exists = TRUE /\ saved'.epoch = epoch
          /\ saved'.total = total + 1 /\ saved'.loader = loader
          /\ saved'.learned = learned /\ saved'.metric = SaveState.metric
      BY <1>7 DEF SaveCheckpoint, counters
    <2>2. epoch < conf.maxEpochs /\ BelowLimit(total)
      BY <2>1 DEF FinalInv
    <2>3. Judged => SaveState.metric = valMetrics
      BY <1>1 DEF Judged, SaveState, SFTState, DPOState, RMState,
            DistillationState, GRPOState, Kinds
    <2>4. Judged /\ IsLastStep => saved'.metric = total + 1
      BY <2>1, <2>3 DEF FinalInv, Judged
    <2>5. AtEnd(total + 1, epoch, loader) => IsLastStep
      BY <2>1, LastStepIsLast
    <2> QED
      BY <2>1, <2>2, <2>4, <2>5 DEF FinalInv, AtEnd, BelowLimit, IsSaved, Judged,
            IsLastStep, LastStepSaved, FinalCheckpoint
  <1>8. CASE SkipSave
    <2>1. /\ pc = "save" /\ pc' = "advance"
          /\ ~(conf.checkpoints /\ SaveDue)
          /\ UNCHANGED <<conf, epoch, step, total, learned, loader, timer, saved>>
      BY <1>8 DEF SkipSave, counters, outside
    <2> QED
      BY <2>1 DEF FinalInv, AtEnd, BelowLimit, IsSaved, Judged, SaveDue,
            IsLastStep, LastStepSaved, FinalCheckpoint
  <1>9. CASE Advance
    <2>1. /\ pc = "advance" /\ total' = total + 1 /\ step' = step + 1
          /\ pc' = (IF timer.saved \/ ~BelowLimit(total + 1) THEN "done" ELSE "draw")
          /\ UNCHANGED <<conf, epoch, loader, learned, saved, timer>>
      BY <1>9 DEF Advance, outside
    <2>2. epoch < conf.maxEpochs
      BY <2>1 DEF FinalInv
    <2>3. AtEnd(total + 1, epoch, loader) => IsLastStep
      BY <2>1, LastStepIsLast
    <2>4. CASE timer.saved \/ ~BelowLimit(total + 1)
      <3>1. /\ pc' = "done"
            /\ conf.checkpoints => SaveDue
            /\ ~timer.saved => IsLastStep
        BY <2>1, <2>4 DEF SaveDue, IsLastStep
      <3>2. LastStepSaved'
        BY <2>1, <3>1 DEF FinalInv, IsSaved, Judged, LastStepSaved, FinalCheckpoint
      <3> QED
        BY <2>1, <3>1, <3>2 DEF FinalInv, AtEnd, BelowLimit, Judged
    <2>5. CASE ~(timer.saved \/ ~BelowLimit(total + 1))
      <3>1. pc' = "draw" /\ BelowLimit(total + 1)
        BY <2>1, <2>5
      <3>2. AtEnd(total + 1, epoch, loader) => SaveDue /\ IsLastStep
        BY <2>3 DEF SaveDue
      <3>3. AtEnd(total, epoch, loader)' = AtEnd(total + 1, epoch, loader)
        BY <2>1 DEF AtEnd, BelowLimit
      <3>4. BelowLimit(total)'
        BY <2>1, <3>1 DEF BelowLimit
      <3>5. conf.checkpoints /\ AtEnd(total, epoch, loader)' =>
              IsSaved(total)' /\ (Judged' => saved'.metric = total')
        BY <2>1, <3>2, <3>3 DEF FinalInv, IsSaved, Judged
      <3>6. LastStepSaved'
        BY <3>1 DEF LastStepSaved, FinalCheckpoint
      <3> QED
        BY <2>1, <2>2, <3>1, <3>4, <3>5, <3>6 DEF FinalInv, AtEnd, BelowLimit, Judged
    <2> QED
      BY <2>4, <2>5
  <1>10. CASE Resubmit
    <2>1. /\ pc' = "start" /\ conf' = conf /\ saved' = saved
          /\ epoch' = saved.epoch /\ total' = saved.total
          /\ loader' = saved.loader /\ learned' = saved.learned
      BY <1>10 DEF Resubmit, StartFrom
    <2>2. AtEnd(total, epoch, loader)' => AtEnd(saved.total, saved.epoch, saved.loader)
      BY <2>1 DEF AtEnd, BelowLimit
    <2>3. (total > 0)' => saved.exists
      <3>1. ~saved.exists => saved.total = 0
        BY Zenon DEF FinalInv
      <3> QED
        BY <2>1, <3>1
    <2>4. (total > 0)' => IsSaved(total)'
      BY <2>1, <2>3 DEF IsSaved
    <2>5. AtEnd(total, epoch, loader)' /\ (total > 0)' /\ Judged' => saved'.metric = total'
      BY <2>1, <2>2, <2>3 DEF FinalInv, Judged
    <2>6. LastStepSaved'
      BY <2>1 DEF LastStepSaved, FinalCheckpoint
    <2>7. AtEnd(saved.total, saved.epoch, saved.loader)'
              = AtEnd(saved.total, saved.epoch, saved.loader)
      BY <2>1 DEF AtEnd, BelowLimit
    <2> QED
      BY <2>1, <2>4, <2>5, <2>6, <2>7 DEF FinalInv, Judged
  <1>11. CASE LoopStep /\ ~(EnterEpoch \/ LeaveLoop \/ NextBatch \/ EndOfEpoch
               \/ SkipValidation \/ ValidateSupervised \/ EndValidation
               \/ SaveCheckpoint \/ SkipSave \/ Advance \/ Train)
    <2>1. /\ UNCHANGED <<conf, epoch, step, total, loader, learned, saved>>
          /\ BeforeBatch' => BeforeBatch \/ (DrawMore /\ InStep)
          /\ pc' = "draw" => InStep
          /\ InStep' => InStep
          /\ AfterUpdate' => AfterUpdate /\ pc' # "advance"
          /\ pc' = "check save" => FALSE
          /\ pc' = "save" => pc = "check save" /\ UNCHANGED valMetrics
          /\ pc' # "done"
      BY <1>11 DEF LoopStep, SkipStartValidation, StartValidation,
            EndStartValidation, PrepareGRPORollouts,
            PrepareDistillationRollouts, Rollout, DrawMore, TooManyBatches,
            BatchComplete, Train, PrepareValidation, CheckSave, counters, outside
    <2>2. DrawMore => conf.dynamic
      <3>1. ~conf.dynamic /\ pc = "filter" => Len(cache) >= Prompts
        BY DEF CountInv
      <3>2. Len(cache) \in Nat /\ Prompts \in Nat
        BY ConstantTypes, LenProperties DEF LoopType
      <3> QED
        BY <3>1, <3>2 DEF DrawMore
    <2>3. /\ AtEnd(total, epoch, loader)' = AtEnd(total, epoch, loader)
          /\ AtEnd(saved.total, saved.epoch, saved.loader)'
                = AtEnd(saved.total, saved.epoch, saved.loader)
          /\ BelowLimit(total)' = BelowLimit(total)
          /\ IsLastStep' = IsLastStep /\ Judged' = Judged
          /\ IsSaved(total)' = IsSaved(total)
      BY <2>1 DEF AtEnd, BelowLimit, IsLastStep, Judged, IsSaved
    <2>4. BeforeBatch' /\ AtEnd(total, epoch, loader) => BeforeBatch
      <3>1. InStep => BelowLimit(total) /\ epoch < conf.maxEpochs
        BY DEF FinalInv
      <3> QED
        BY <2>1, <2>2, <3>1 DEF AtEnd
    <2>5. LastStepSaved'
      BY <2>1 DEF LastStepSaved, FinalCheckpoint
    <2> QED
      BY <2>1, <2>3, <2>4, <2>5 DEF FinalInv
  <1>12. CASE Train
    <2>1. /\ pc = "train" /\ pc' = "trained"
          /\ UNCHANGED <<conf, epoch, total, saved>>
      BY <1>12, TrainStep DEF Train, TrainSFT, TrainDPO, TrainRM,
            TrainDistillation, TrainGRPO, Supervised, counters
    <2> QED
      BY <2>1 DEF FinalInv, AtEnd, BelowLimit, Judged, LastStepSaved,
            FinalCheckpoint
  <1>13. CASE UNCHANGED vars
    <2>1. UNCHANGED <<conf, pc, epoch, step, total, loader, learned, valMetrics,
                      timer, saved>>
      BY <1>13 DEF vars
    <2>2. /\ AtEnd(total, epoch, loader)' = AtEnd(total, epoch, loader)
          /\ AtEnd(saved.total, saved.epoch, saved.loader)'
                = AtEnd(saved.total, saved.epoch, saved.loader)
          /\ BelowLimit(total)' = BelowLimit(total)
          /\ IsLastStep' = IsLastStep /\ Judged' = Judged /\ SaveDue' = SaveDue
          /\ IsSaved(total)' = IsSaved(total)
          /\ IsSaved(total + 1)' = IsSaved(total + 1)
          /\ LastStepSaved' = LastStepSaved
      BY <2>1 DEF AtEnd, BelowLimit, IsLastStep, Judged, IsSaved, SaveDue,
            LastStepSaved, FinalCheckpoint
    <2> QED
      BY <2>1, <2>2 DEF FinalInv
  <1> QED
    BY <1>2, <1>3, <1>4, <1>5, <1>6, <1>7, <1>8, <1>9, <1>10, <1>11, <1>12, <1>13
       DEF Next

(* The weights a run ends with, by the step limit, by the end of the last  *)
(* epoch, by the time-out, or at once because it was resumed at its end,   *)
(* are in its checkpoint, with the metric of their validation where the    *)
(* configuration asks for one; also across restarts.                       *)
THEOREM EndsSaved == Spec => []LastStepSaved
  <1>1. LoopInv /\ TimerInv /\ FinalInv /\ [Next]_vars => TimerInv' /\ FinalInv'
    BY NextTimerInv, NextFinalInv DEF LoopInv
  <1>2. FinalInv => LastStepSaved
    BY DEF FinalInv
  <1> QED
    BY <1>1, <1>2, InitTimerInv, InitFinalInv, LoopInvInvariant, PTL DEF Spec
=============================================================================
