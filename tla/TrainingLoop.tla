---------------------------- MODULE TrainingLoop ----------------------------
(***************************************************************************)
(* The synchronous training loops of nemo_rl/algorithms: supervised        *)
(* fine-tuning (sft.py), preference optimisation (dpo.py), reward models   *)
(* (rm.py), on-policy distillation (distillation.py) and synchronous GRPO  *)
(* with and without dynamic sampling (grpo.py).  A loop draws batches from *)
(* a stateful dataloader, trains, validates, saves and counts; it may be   *)
(* killed anywhere, and is started again from its last checkpoint.  The    *)
(* loops that generate also keep an inference engine up to date and, when  *)
(* it shares the policy's GPUs, take turns with it.                        *)
(*                                                                         *)
(* A configuration is a record chosen by Init, so that one run covers the  *)
(* combinations that matter.  Saving is one step here: CheckpointManager   *)
(* shows that a crash leaves the old or the new checkpoint.                *)
(***************************************************************************)
EXTENDS Integers, Sequences, FiniteSets

CONSTANTS DataLen,          \* len(dataloader): batches of one pass
          Prompts,          \* num_prompts_per_step, also the batch size
          MaxGenBatches,    \* dynamic_sampling_max_gen_batches
          Configs,          \* the configurations to consider
          MaxRestarts       \* bound: how often the job is started again

Kinds == {"sft", "dpo", "rm", "distillation", "grpo"}

\* maxSteps = Unlimited is the reward model's max_num_steps of -1, and
\* deadline = 0 stands for checkpoint_must_save_by: null.
Unlimited == -1

ConfigType ==
    [kind : Kinds, maxSteps : Nat \cup {Unlimited}, maxEpochs : Nat,
     savePeriod : Nat \ {0}, valPeriod : Nat, valAtStart : BOOLEAN,
     valAtEnd : BOOLEAN, checkpoints : BOOLEAN, byMetric : BOOLEAN,
     deadline : Nat, stepTime : Nat \ {0}, warmUp : Nat,
     dynamic : BOOLEAN, colocated : BOOLEAN, kvScales : BOOLEAN]

ASSUME LoopAssumption ==
    /\ DataLen \in Nat \ {0}
    /\ Prompts \in Nat \ {0}
    /\ MaxGenBatches \in Nat \ {0}
    /\ MaxRestarts \in Nat
    /\ Configs \subseteq ConfigType
    /\ \A c \in Configs :
          /\ c.maxSteps = Unlimited => c.kind = "rm"
          /\ c.dynamic \/ c.kvScales => c.kind = "grpo"

VARIABLES
    conf,           \* master_config
    pc,             \* position in the loop
    epoch, step, total,     \* current_epoch, current_step, total_steps
    loader,         \* the dataloader: pass over the data, batches drawn of it
    cache,          \* batch_cache: prompts with a spread of rewards
    genBatches,     \* dynamic_sampling_num_gen_batches
    group,          \* the prompts of the training batch
    learned,        \* the prompts the policy's weights have learned from
    stale,          \* POLICY_GENERATION_STALE
    engine,         \* updates in the weights the inference engine holds
    scales,         \* kv_scales_cache: the updates it was computed after
    engineScales,   \* the same for the scales the engine holds
    policyMem,      \* what of the policy is on the GPU
    engineMem,      \* the engine is "awake" or "asleep"
    valMetrics,     \* val_metrics: the step they belong to
    metric,         \* the validation metric in the save state, by step
    timer,          \* the TimeoutChecker
    saved,          \* the latest checkpoint
    restarts

counters == <<epoch, step, total>>
sampling == <<cache, genBatches, group>>
memory == <<policyMem, engineMem>>
generation == <<stale, engine, scales, engineScales, memory>>
outside == <<conf, saved, restarts>>

vars == <<conf, pc, epoch, step, total, loader, cache, genBatches, group,
          learned, stale, engine, scales, engineScales, policyMem, engineMem,
          valMetrics, metric, timer, saved, restarts>>

NoVersion == -1         \* no weights, no scales
NoMetric == 0

Generates == conf.kind \in {"grpo", "distillation"}

Version == Len(learned)

NoCheckpoint ==
    [exists |-> FALSE, epoch |-> 0, step |-> 0, total |-> 0,
     loader |-> [pass |-> 0, pos |-> 0], learned |-> <<>>, metric |-> NoMetric]

NewTimer == [elapsed |-> 0, iterations |-> 0, saved |-> FALSE]

PromptId(l, j) == (l.pass * DataLen + l.pos - 1) * Prompts + j

-----------------------------------------------------------------------------
\* mutant: the dataloader starts again.
StartFromTop(s) ==
    /\ pc' = "start"
    /\ epoch' = s.epoch /\ step' = s.step /\ total' = s.total
    /\ loader' = NoCheckpoint.loader
    /\ learned' = s.learned
    /\ metric' = s.metric
    /\ cache' = <<>> /\ genBatches' = 0 /\ group' = <<>>
    /\ stale' = TRUE
    /\ engine' = NoVersion /\ scales' = NoVersion /\ engineScales' = NoVersion
    /\ policyMem' = "all" /\ engineMem' = "asleep"
    /\ valMetrics' = NoMetric
    /\ timer' = NewTimer

\* What a process finds when it starts: the counters, the dataloader and the
\* weights of the checkpoint s, or nothing; the engine has dummy weights.
StartFrom(s) ==
    /\ pc' = "start"
    /\ epoch' = s.epoch /\ step' = s.step /\ total' = s.total
    /\ loader' = s.loader
    /\ learned' = s.learned
    /\ metric' = s.metric
    /\ cache' = <<>> /\ genBatches' = 0 /\ group' = <<>>
    /\ stale' = TRUE
    /\ engine' = NoVersion /\ scales' = NoVersion /\ engineScales' = NoVersion
    /\ policyMem' = "all" /\ engineMem' = "asleep"
    /\ valMetrics' = NoMetric
    /\ timer' = NewTimer

Init ==
    /\ conf \in Configs
    /\ pc = "start"
    /\ epoch = 0 /\ step = 0 /\ total = 0
    /\ loader = [pass |-> 0, pos |-> 0]
    /\ cache = <<>> /\ genBatches = 0 /\ group = <<>>
    /\ learned = <<>>
    /\ stale = TRUE
    /\ engine = NoVersion /\ scales = NoVersion /\ engineScales = NoVersion
    /\ policyMem = "all" /\ engineMem = "asleep"
    /\ valMetrics = NoMetric
    /\ metric = NoMetric
    /\ timer = NewTimer
    /\ saved = NoCheckpoint
    /\ restarts = 0

-----------------------------------------------------------------------------
\* Taking turns on the GPUs.

\* refit_policy_generation: the weights go to the engine.  With a colocated
\* engine the policy leaves the GPU, and the call that streams the weights
\* does not hand over the scales: the stream then carries 1.0 for each.
Refit(ks) ==
    /\ engine' = Version
    /\ engineScales' = IF conf.colocated THEN NoVersion ELSE ks
    /\ policyMem' = IF conf.colocated THEN "none" ELSE policyMem
    /\ engineMem' = "awake"
    /\ stale' = FALSE

\* mutant: the policy stays on the GPU.
WakeUpBeside ==
    /\ engineMem' = "awake"
    /\ policyMem' = policyMem
    /\ UNCHANGED <<engine, engineScales, stale>>

\* Only GRPO moves the policy away before it wakes an engine that is fresh.
WakeUp ==
    /\ engineMem' = "awake"
    /\ policyMem' = IF conf.kind = "grpo" /\ conf.colocated
                    THEN "none" ELSE policyMem
    /\ UNCHANGED <<engine, engineScales, stale>>

PrepareGeneration(ks) ==
    \/ stale /\ Refit(ks)
    \/ ~stale /\ WakeUp

-----------------------------------------------------------------------------
\* Before and around the epochs.

ValidatesAtStart ==
    /\ conf.valAtStart
    /\ IF conf.kind = "grpo" THEN step = 0 ELSE total = 0

SkipStartValidation ==
    /\ pc = "start"
    /\ ~ValidatesAtStart
    /\ pc' = "guard"
    /\ UNCHANGED <<counters, loader, sampling, learned, generation,
                   valMetrics, metric, timer, outside>>

\* The first refit carries no scales ("TODO: Add validation with kv scales").
StartValidation ==
    /\ pc = "start"
    /\ ValidatesAtStart
    /\ IF Generates
       THEN pc' = "first validation" /\ PrepareGeneration(NoVersion)
       ELSE pc' = "guard" /\ UNCHANGED <<stale, engine, engineScales, memory>>
    /\ UNCHANGED <<counters, loader, sampling, learned, scales, valMetrics,
                   metric, timer, outside>>

EndStartValidation ==
    /\ pc = "first validation"
    /\ engineMem' = "asleep"
    /\ pc' = "guard"
    /\ UNCHANGED <<counters, loader, sampling, learned, stale, engine, scales,
                   engineScales, policyMem, valMetrics, metric, timer, outside>>

BelowLimit(n) == conf.maxSteps = Unlimited \/ n < conf.maxSteps

EnterEpoch ==
    /\ pc = "guard"
    /\ epoch < conf.maxEpochs /\ BelowLimit(total)
    /\ pc' = "draw"
    /\ cache' = <<>> /\ genBatches' = 0
    /\ UNCHANGED <<counters, loader, group, learned, generation, valMetrics,
                   metric, timer, outside>>

LeaveLoop ==
    /\ pc = "guard"
    /\ ~(epoch < conf.maxEpochs /\ BelowLimit(total))
    /\ pc' = "done"
    /\ UNCHANGED <<counters, loader, sampling, learned, generation, valMetrics,
                   metric, timer, outside>>

\* The dataloader.  Its state, saved after the last batch of a pass, is one
\* that has nothing left: the next iteration ends at once, the one after it
\* makes a new pass.
NextBatch ==
    /\ pc = "draw"
    /\ loader.pos < DataLen
    /\ loader' = [loader EXCEPT !.pos = @ + 1]
    /\ valMetrics' = NoMetric
    /\ pc' = IF Generates THEN "prepare" ELSE "train"
    /\ group' = IF Generates THEN group
                ELSE [j \in 1 .. Prompts |-> PromptId(loader', j)]
    /\ UNCHANGED <<counters, cache, genBatches, learned, generation, metric,
                   timer, outside>>

\* mutant: the step counter is not reset.
EndOfEpochKeepsStep ==
    /\ pc = "draw"
    /\ loader.pos = DataLen
    /\ loader' = [pass |-> loader.pass + 1, pos |-> 0]
    /\ epoch' = epoch + 1
    /\ step' = step
    /\ pc' = "guard"
    /\ UNCHANGED <<total, sampling, learned, generation, valMetrics, metric,
                   timer, outside>>

\* mutant: tells the end of an epoch by the step counter.
EndOfEpochByCounter ==
    /\ pc = "draw"
    /\ step = DataLen
    /\ loader' = [pass |-> loader.pass + 1, pos |-> 0]
    /\ epoch' = epoch + 1
    /\ step' = 0
    /\ pc' = "guard"
    /\ UNCHANGED <<total, sampling, learned, generation, valMetrics, metric,
                   timer, outside>>

EndOfEpoch ==
    /\ pc = "draw"
    /\ loader.pos = DataLen
    /\ loader' = [pass |-> loader.pass + 1, pos |-> 0]
    /\ epoch' = epoch + 1
    /\ step' = 0
    /\ pc' = "guard"
    /\ UNCHANGED <<total, sampling, learned, generation, valMetrics, metric,
                   timer, outside>>

-----------------------------------------------------------------------------
\* Rollouts.

\* Scales are computed once before the first refit; later ones after training.
PrepareGRPORollouts ==
    /\ conf.kind = "grpo" /\ pc = "prepare"
    /\ scales' = IF conf.kvScales /\ stale /\ scales = NoVersion
                 THEN Version ELSE scales
    /\ PrepareGeneration(IF conf.kvScales THEN scales' ELSE NoVersion)
    /\ genBatches' = genBatches + 1
    /\ pc' = "rollout"
    /\ UNCHANGED <<counters, loader, cache, group, learned, valMetrics, metric,
                   timer, outside>>

PrepareDistillationRollouts ==
    /\ conf.kind = "distillation" /\ pc = "prepare"
    /\ PrepareGeneration(NoVersion)
    /\ pc' = "rollout"
    /\ UNCHANGED <<counters, loader, sampling, learned, scales, valMetrics,
                   metric, timer, outside>>

\* The ways to keep some of a batch's prompts, in their order.  Without
\* dynamic sampling all are kept.
Choices ==
    {at \in UNION {[1 .. n -> 1 .. Prompts] : n \in 0 .. Prompts} :
        /\ \A i, j \in DOMAIN at : i < j => at[i] < at[j]
        /\ conf.dynamic \/ DOMAIN at = 1 .. Prompts}

\* Rollouts of a batch.  With dynamic sampling only the prompts whose rewards
\* spread are kept, and they join the cache; each remembers which weights
\* answered it (the code does not).
Rollout ==
    /\ pc = "rollout"
    /\ \E at \in Choices :
          cache' = cache \o [i \in DOMAIN at |->
                      [prompt |-> PromptId(loader, at[i]), version |-> engine]]
    /\ engineMem' = "asleep"
    /\ pc' = "filter"
    /\ UNCHANGED <<counters, loader, genBatches, group, learned, stale, engine,
                   scales, engineScales, policyMem, valMetrics, metric, timer,
                   outside>>

\* Too few prompts: the loop draws another batch, ...
DrawMore ==
    /\ pc = "filter"
    /\ Len(cache) < Prompts
    /\ genBatches <= MaxGenBatches
    /\ pc' = "draw"
    /\ UNCHANGED <<counters, loader, sampling, learned, generation, valMetrics,
                   metric, timer, outside>>

\* ... or gives up, one batch later than the limit says.
TooManyBatches ==
    /\ pc = "filter"
    /\ Len(cache) < Prompts
    /\ genBatches > MaxGenBatches
    /\ pc' = "raised"
    /\ UNCHANGED <<counters, loader, sampling, learned, generation, valMetrics,
                   metric, timer, outside>>

\* Enough: the surplus is discarded.  GRPO brings the model back to the GPU
\* for log-probabilities; the student of a distillation stays away.
BatchComplete ==
    /\ pc = "filter"
    /\ Len(cache) >= Prompts
    /\ group' = [j \in 1 .. Prompts |-> cache[j].prompt]
    /\ policyMem' = IF conf.kind = "grpo" THEN "model" ELSE policyMem
    /\ pc' = "train"
    /\ UNCHANGED <<counters, loader, cache, genBatches, learned, stale, engine,
                   scales, engineScales, engineMem, valMetrics, metric, timer,
                   outside>>

-----------------------------------------------------------------------------
\* One step of training.

Learn ==
    /\ pc = "train"
    /\ learned' = learned \o group
    /\ pc' = "trained"

\* Supervised training keeps the policy on the GPU throughout.
Supervised(kind) ==
    /\ conf.kind = kind
    /\ Learn
    /\ UNCHANGED <<counters, loader, sampling, generation, valMetrics, metric,
                   timer, outside>>

TrainSFT == Supervised("sft")

TrainDPO == Supervised("dpo")

TrainRM == Supervised("rm")

\* mutant: the engine is not marked stale.
TrainDistillationFresh ==
    /\ conf.kind = "distillation"
    /\ Learn
    /\ stale' = stale
    /\ policyMem' = "all"
    /\ UNCHANGED <<counters, loader, sampling, engine, scales, engineScales,
                   engineMem, valMetrics, metric, timer, outside>>

TrainDistillation ==
    /\ conf.kind = "distillation"
    /\ Learn
    /\ stale' = TRUE
    /\ policyMem' = "all"
    /\ UNCHANGED <<counters, loader, sampling, engine, scales, engineScales,
                   engineMem, valMetrics, metric, timer, outside>>

\* mutant: scales are not computed again.
TrainGRPOOldScales ==
    /\ conf.kind = "grpo"
    /\ Learn
    /\ stale' = TRUE
    /\ policyMem' = "all"
    /\ scales' = scales
    /\ UNCHANGED <<counters, loader, sampling, engine, engineScales, engineMem,
                   valMetrics, metric, timer, outside>>

\* After the update the scales are computed again, for the new weights.
TrainGRPO ==
    /\ conf.kind = "grpo"
    /\ Learn
    /\ stale' = TRUE
    /\ policyMem' = "all"
    /\ scales' = IF conf.kvScales THEN Len(learned') ELSE scales
    /\ UNCHANGED <<counters, loader, sampling, engine, engineScales, engineMem,
                   valMetrics, metric, timer, outside>>

\* mutant: the last step of the last epoch is not one.
IsLastStepByLimit == ~BelowLimit(total + 1)

IsLastStep ==
    \/ ~BelowLimit(total + 1)
    \/ epoch + 1 = conf.maxEpochs /\ step + 1 = DataLen

ValidationDue ==
    \/ conf.valPeriod > 0 /\ (total + 1) % conf.valPeriod = 0
    \/ conf.valAtEnd /\ IsLastStep

SkipValidation ==
    /\ pc = "trained"
    /\ ~ValidationDue
    /\ pc' = "check save"
    /\ UNCHANGED <<counters, loader, sampling, learned, generation, valMetrics,
                   metric, timer, outside>>

ValidateSupervised ==
    /\ pc = "trained"
    /\ ValidationDue /\ ~Generates
    /\ valMetrics' = total + 1
    /\ pc' = "check save"
    /\ UNCHANGED <<counters, loader, sampling, learned, generation, metric,
                   timer, outside>>

\* Validation by generation wants an engine with the weights just trained.
PrepareValidation ==
    /\ pc = "trained"
    /\ ValidationDue /\ Generates
    /\ PrepareGeneration(IF conf.kvScales THEN scales ELSE NoVersion)
    /\ pc' = "validation"
    /\ UNCHANGED <<counters, loader, sampling, learned, scales, valMetrics,
                   metric, timer, outside>>

EndValidation ==
    /\ pc = "validation"
    /\ valMetrics' = total + 1
    /\ engineMem' = "asleep"
    /\ pc' = "check save"
    /\ UNCHANGED <<counters, loader, sampling, learned, stale, engine, scales,
                   engineScales, policyMem, metric, timer, outside>>

-----------------------------------------------------------------------------
\* Saving.

\* mark_iteration and check_save of the TimeoutChecker: the run must end when
\* what has elapsed and one more iteration of average length reach the
\* deadline.  It says so once.
IterationTime ==
    conf.stepTime + (IF timer.iterations = 0 THEN conf.warmUp ELSE 0)

\* mutant: no time is left for another iteration.
OutOfTimeAtDeadline(t) ==
    /\ ~t.saved
    /\ conf.deadline > 0
    /\ t.elapsed >= conf.deadline

OutOfTime(t) ==
    /\ ~t.saved
    /\ conf.deadline > 0
    /\ \/ t.elapsed * (t.iterations + 1) >= conf.deadline * t.iterations
       \/ t.elapsed >= conf.deadline

CheckSave ==
    /\ pc = "check save"
    /\ LET marked == [timer EXCEPT !.elapsed = @ + IterationTime,
                                   !.iterations = @ + 1]
       IN  timer' = [marked EXCEPT !.saved = @ \/ OutOfTime(marked)]
    /\ pc' = "save"
    /\ UNCHANGED <<counters, loader, sampling, learned, generation, valMetrics,
                   metric, outside>>

SaveDue == IsLastStep \/ (total + 1) % conf.savePeriod = 0 \/ timer.saved

\* mutant: an old metric is not removed.
SFTStateKeepsMetric ==
    [step |-> (step + 1) % DataLen,
     metric |-> IF conf.byMetric /\ valMetrics # NoMetric
                THEN valMetrics ELSE metric]

\* The save state of each algorithm.  The first three count the step modulo
\* the length of an epoch, without counting the epoch; what remains is a
\* pass that is at its end.
SFTState ==
    [step |-> (step + 1) % DataLen,
     metric |-> IF conf.byMetric THEN valMetrics ELSE metric]

DPOState ==
    [step |-> (step + 1) % DataLen, metric |-> valMetrics]

RMState ==
    [step |-> (step + 1) % DataLen, metric |-> valMetrics]

DistillationState ==
    [step |-> step + 1, metric |-> valMetrics]

GRPOState ==
    [step |-> step + 1, metric |-> valMetrics]

SaveState ==
    CASE conf.kind = "sft" -> SFTState
      [] conf.kind = "dpo" -> DPOState
      [] conf.kind = "rm" -> RMState
      [] conf.kind = "distillation" -> DistillationState
      [] conf.kind = "grpo" -> GRPOState

SaveCheckpoint ==
    /\ pc = "save"
    /\ conf.checkpoints /\ SaveDue
    /\ policyMem' = "all"
    /\ metric' = SaveState.metric
    /\ saved' = [exists |-> TRUE, epoch |-> epoch, step |-> SaveState.step,
                 total |-> total + 1, loader |-> loader, learned |-> learned,
                 metric |-> SaveState.metric]
    /\ pc' = "advance"
    /\ UNCHANGED <<counters, loader, sampling, learned, stale, engine, scales,
                   engineScales, engineMem, valMetrics, timer, conf, restarts>>

SkipSave ==
    /\ pc = "save"
    /\ ~(conf.checkpoints /\ SaveDue)
    /\ pc' = "advance"
    /\ UNCHANGED <<counters, loader, sampling, learned, generation, valMetrics,
                   metric, timer, outside>>

\* mutant: the cache is not reset after a step.
AdvanceKeepsCache ==
    /\ pc = "advance"
    /\ step' = step + 1 /\ total' = total + 1
    /\ cache' = cache /\ genBatches' = 0
    /\ pc' = IF timer.saved \/ ~BelowLimit(total + 1) THEN "done" ELSE "draw"
    /\ UNCHANGED <<epoch, loader, group, learned, generation, valMetrics,
                   metric, timer, outside>>

\* The end of a step: a time-out or the last step ends the run.
Advance ==
    /\ pc = "advance"
    /\ step' = step + 1 /\ total' = total + 1
    /\ cache' = <<>> /\ genBatches' = 0
    /\ pc' = IF timer.saved \/ ~BelowLimit(total + 1) THEN "done" ELSE "draw"
    /\ UNCHANGED <<epoch, loader, group, learned, generation, valMetrics,
                   metric, timer, outside>>

\* The job is killed, or has ended, and is submitted again.
Resubmit ==
    /\ pc # "start"
    /\ restarts < MaxRestarts
    /\ restarts' = restarts + 1
    /\ StartFrom(saved)
    /\ UNCHANGED <<conf, saved>>

LoopStep ==
    \/ SkipStartValidation \/ StartValidation \/ EndStartValidation
    \/ EnterEpoch \/ LeaveLoop \/ NextBatch \/ EndOfEpoch
    \/ PrepareGRPORollouts \/ PrepareDistillationRollouts \/ Rollout
    \/ DrawMore \/ TooManyBatches \/ BatchComplete
    \/ TrainSFT \/ TrainDPO \/ TrainRM \/ TrainDistillation \/ TrainGRPO
    \/ SkipValidation \/ ValidateSupervised \/ PrepareValidation
    \/ EndValidation \/ CheckSave \/ SaveCheckpoint \/ SkipSave \/ Advance

Next == LoopStep \/ Resubmit

Spec == Init /\ [][Next]_vars

\* The loop is one process that nothing blocks; nobody need resubmit it.
FairSpec == Spec /\ WF_vars(LoopStep)

-----------------------------------------------------------------------------
\* Properties.

\* The counters mean what the tests for the last step take them to mean: the
\* epoch is the pass over the data, the step the batch of it, and the total
\* number of steps the updates the weights have had.  This is what a resumed
\* run has to restore, with two ways of counting at the end of an epoch
\* (sft.py:526, grpo.py:1965).  Dynamic sampling counts batches it trained on.
CountersTrue ==
    /\ pc = "train" =>
          /\ total * Prompts = Len(learned)
          /\ epoch = loader.pass
          /\ ~conf.dynamic => step + 1 = loader.pos
    /\ pc \in {"draw", "guard"} => total * Prompts = Len(learned)

\* What docs say of val_at_end: the final checkpoint is the last weights, and
\* has the metrics of their validation (grpo.py:145).
FinalCheckpoint ==
    pc = "done" /\ conf.checkpoints /\ total > 0 =>
        /\ saved.exists
        /\ saved.learned = learned /\ saved.total = total
        /\ (conf.valAtEnd /\ conf.byMetric /\ ~timer.saved)
               => saved.metric = total

\* It is so unless dynamic sampling runs out of epochs: its step counts the
\* batches trained on, so that the test for the last step (grpo.py:1834) never
\* sees the end of the last epoch.
LastStepSaved == (conf.dynamic /\ BelowLimit(total)) \/ FinalCheckpoint

\* The metric in a checkpoint, by which the best one is found, was measured
\* on its weights: an earlier validation's is removed from the save state.
MetricOfItsWeights == saved.metric \in {NoMetric, saved.total}

\* What generates rollouts or validation answers is the policy as it is now
\* (POLICY_GENERATION_STALE).
GeneratesWithLatest ==
    pc \in {"first validation", "rollout", "validation"}
        => engine = Version /\ engineMem = "awake"

\* Every prompt of a training batch was answered by the weights about to be
\* trained, also those that waited in the cache while other batches were
\* generated; so none of them has been trained on before.
OnPolicy ==
    pc = "train" /\ Generates =>
        \A i \in DOMAIN cache : cache[i].version = Version

\* The engine's FP8 scales were computed for the weights it holds ("force
\* refit with new scales", grpo.py:1828).
ScalesOfTheWeights ==
    pc \in {"rollout", "validation"} /\ conf.kvScales
        => engineScales = engine

\* A colocated engine is awake only when the policy has left the GPUs
\* ("unload optimizer to make space for generation", grpo.py:1500).
TakeTurns ==
    conf.kind = "grpo" /\ conf.colocated /\ engineMem = "awake"
        => policyMem = "none"

\* If the first iteration, which may be slower than the others, fits before
\* checkpoint_must_save_by, a run that goes on does so in time: the iteration
\* it begins also ends before.
MeetsDeadline ==
    conf.deadline > 0 /\ conf.stepTime + conf.warmUp <= conf.deadline
        => timer.elapsed <= conf.deadline

\* What the loop promises about its data.
Promise == INSTANCE TrainingStream
    WITH GroupSize <- Prompts, durable <- saved.learned,
         selective <- conf.dynamic

KeepsOrder == Promise!Spec

\* Every run ends, with or without an error: dynamic sampling gives up, a
\* reward model without step limit runs out of epochs.
Ends == <>[](pc \in {"done", "raised"})
=============================================================================
