--------------------------- MODULE MCTrainingLoop ---------------------------
(***************************************************************************)
(* Configurations of TrainingLoop that TLC considers.  The two passes over *)
(* two batches make every boundary of an epoch meet a boundary of saving   *)
(* (every second step), of validation and of the step limit.               *)
(***************************************************************************)
EXTENDS TrainingLoop

Plain ==
    [kind |-> "sft", maxSteps |-> 3, maxEpochs |-> 2, savePeriod |-> 2,
     valPeriod |-> 2, valAtStart |-> FALSE, valAtEnd |-> TRUE,
     checkpoints |-> TRUE, byMetric |-> TRUE, deadline |-> 0, stepTime |-> 1,
     warmUp |-> 0, dynamic |-> FALSE, colocated |-> TRUE, kvScales |-> FALSE]

\* Each algorithm, ended by steps or by epochs, with saves that fall on and
\* beside the end of an epoch and validations that fall on and beside saves.
Ordinary ==
    {[Plain EXCEPT !.kind = k, !.maxSteps = n, !.savePeriod = s,
                   !.valPeriod = v, !.valAtEnd = v # 3, !.byMetric = m] :
        k \in Kinds, n \in {3, 9}, s \in {1, 2, 3}, v \in {0, 2, 3},
        m \in BOOLEAN}

\* A reward model without a step limit; a run that saves nothing.
Unbounded ==
    {[Plain EXCEPT !.kind = "rm", !.maxSteps = Unlimited, !.maxEpochs = 3],
     [Plain EXCEPT !.checkpoints = FALSE, !.deadline = 2]}

\* Deadlines, with steps and a first iteration of different length.
Timed ==
    {[Plain EXCEPT !.kind = k, !.maxSteps = 9, !.maxEpochs = 3,
                   !.savePeriod = 9, !.deadline = d, !.stepTime = t,
                   !.warmUp = w] :
        k \in {"dpo", "grpo"}, d \in 1 .. 9, t \in 1 .. 2, w \in 0 .. 2}

\* Engines: colocated or not, validation before the first step, scales.
Engines ==
    {[Plain EXCEPT !.kind = k, !.colocated = c, !.valAtStart = v] :
        k \in {"sft", "distillation", "grpo"}, c \in BOOLEAN, v \in BOOLEAN}
    \cup {[Plain EXCEPT !.kind = "grpo", !.colocated = FALSE, !.kvScales = TRUE,
                        !.savePeriod = 1]}

\* Dynamic sampling, ended by the step limit.
Selective ==
    {[Plain EXCEPT !.kind = "grpo", !.dynamic = TRUE, !.maxSteps = 2,
                   !.maxEpochs = 3, !.savePeriod = s, !.valPeriod = 0] :
        s \in {1, 2}}

MCConfigs == Ordinary \cup Unbounded \cup Timed \cup Engines \cup Selective
=============================================================================
