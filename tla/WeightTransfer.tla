--------------------------- MODULE WeightTransfer ---------------------------
(***************************************************************************)
(* What a refit promises, whatever carries the weights: every rank of the  *)
(* inference engine loads each tensor of the policy at most once, and the  *)
(* refit succeeds only when every rank has loaded all of them.             *)
(***************************************************************************)
EXTENDS Naturals, Sequences, SequencesExt

CONSTANT Ranks          \* the ranks of the inference engine

VARIABLES tensors,      \* the sizes of the policy's tensors, in order
          loaded,       \* for each rank the tensors loaded, in turn
          result        \* "none" until the refit has ended

transferVars == <<tensors, loaded, result>>

Init ==
    /\ tensors \in Seq(Nat)
    /\ loaded = [r \in Ranks |-> <<>>]
    /\ result = "none"

AllLoaded == \A r \in Ranks : Range(loaded[r]) = DOMAIN tensors

\* A rank loads some tensors it has not loaded yet; loading the last ones may
\* end the refit.  After a failure loads under way still take place.
Load(r) ==
    /\ result # "success"
    /\ loaded' = [loaded EXCEPT ![r] = loaded'[r]]
    /\ IsStrictPrefix(loaded[r], loaded'[r])
    /\ IsInjective(loaded'[r])
    /\ Range(loaded'[r]) \subseteq DOMAIN tensors
    /\ \/ result' = result
       \/ result = "none" /\ AllLoaded' /\ result' = "success"
    /\ UNCHANGED tensors

Succeed ==
    /\ result = "none"
    /\ AllLoaded
    /\ result' = "success"
    /\ UNCHANGED <<tensors, loaded>>

Fail ==
    /\ result = "none"
    /\ result' = "failure"
    /\ UNCHANGED <<tensors, loaded>>

Next == (\E r \in Ranks : Load(r)) \/ Succeed \/ Fail

Spec == Init /\ [][Next]_transferVars
=============================================================================
