-------------------------- MODULE BoundedStaleness --------------------------
(***************************************************************************)
(* What asynchronous GRPO promises (docs/guides/async-grpo.md): a learner  *)
(* and a sampler run side by side, the learner trains on whole batches of  *)
(* groups whose weights are at most MaxAge steps behind its own, every     *)
(* group is used at most once, and the sampler receives each new version   *)
(* of the weights before the learner takes its next batch.                 *)
(*                                                                         *)
(* The first batches may hold groups born from Dummy weights, those the    *)
(* engine has before its first refit: the collector is started before it.  *)
(***************************************************************************)
EXTENDS Integers, FiniteSets

CONSTANTS NumPrompts, MaxAge, StartStep, MaxSteps, GroupIds, Dummy

VARIABLES
    learner,        \* weights the learner has produced
    sampler,        \* weights the sampler generates with
    begun,          \* groups whose rollout has begun, or never will
    rolling,        \* rollouts in progress: [id, born]
    pool,           \* groups ready to be trained on
    batch           \* groups in training

vars == <<learner, sampler, begun, rolling, pool, batch>>

Init ==
    /\ learner = StartStep
    /\ sampler = Dummy
    /\ begun = {} /\ rolling = {} /\ pool = {} /\ batch = {}

(* A rollout begins with the weights the sampler has at that moment.       *)
Begin ==
    \E id \in GroupIds \ begun :
        /\ begun' = begun \union {id}
        /\ rolling' = rolling \union {[id |-> id, born |-> sampler]}
        /\ UNCHANGED <<learner, sampler, pool, batch>>

(* Prompts that are drawn and given up.                                    *)
Skip ==
    \E S \in SUBSET (GroupIds \ begun) :
        /\ begun' = begun \union S
        /\ UNCHANGED <<learner, sampler, rolling, pool, batch>>

Finish(g) ==
    /\ rolling' = rolling \ {g}
    /\ pool' = pool \union {g}
    /\ UNCHANGED <<learner, sampler, begun, batch>>

Lose(g) ==
    /\ rolling' = rolling \ {g}
    /\ UNCHANGED <<learner, sampler, begun, pool, batch>>

Usable(g) == \/ learner - MaxAge <= g.born /\ g.born <= learner
             \/ g.born = Dummy /\ learner <= StartStep + MaxAge

TakeBatch ==
    /\ batch = {} /\ sampler = learner /\ learner < MaxSteps
    /\ \E T \in SUBSET {g \in pool : Usable(g)} :
          /\ Cardinality(T) = NumPrompts
          /\ batch' = T
          /\ pool' = pool \ T
    /\ UNCHANGED <<learner, sampler, begun, rolling>>

Learn ==
    /\ batch # {}
    /\ batch' = {}
    /\ learner' = learner + 1
    /\ UNCHANGED <<sampler, begun, rolling, pool>>

Synchronise ==
    /\ batch = {} /\ sampler # learner
    /\ sampler' = learner
    /\ UNCHANGED <<learner, begun, rolling, pool, batch>>

Next ==
    \/ Begin \/ Skip
    \/ \E g \in rolling : Finish(g) \/ Lose(g)
    \/ TakeBatch \/ Learn \/ Synchronise

Spec == Init /\ [][Next]_vars
=============================================================================
