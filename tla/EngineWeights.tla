---------------------------- MODULE EngineWeights ----------------------------
(***************************************************************************)
(* What the two ways of carrying weights from the policy to the inference  *)
(* engine have in common: the tensors and what the engine has loaded.      *)
(***************************************************************************)
EXTENDS Integers, Sequences

CONSTANTS Ranks,        \* the ranks of the inference engine
          TensorSizes   \* the models considered: sequences of sizes in bytes

ASSUME WeightsAssumption == TensorSizes \subseteq Seq(Nat \ {0})

VARIABLES
    tensors,    \* the sizes of the policy's tensors, in order
    loaded,     \* for each rank, the tensors loaded into its model, in turn
    faults      \* bound: errors and time-outs still to come

WeightsInit ==
    /\ tensors \in TensorSizes
    /\ loaded = [r \in Ranks |-> <<>>]
=============================================================================
