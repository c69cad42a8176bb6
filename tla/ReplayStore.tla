---------------------------- MODULE ReplayStore ----------------------------
(***************************************************************************)
(* The replay buffer of asynchronous GRPO as its clients see it            *)
(* (nemo_rl/algorithms/async_utils.py, class ReplayBuffer): a bounded      *)
(* first-in-first-out store of prompt groups.  The buffer is a Ray actor   *)
(* that runs one call at a time under its own lock, so every operation is  *)
(* one step.                                                               *)
(*                                                                         *)
(* The Python object keeps three parallel lists.  Here an entry is one     *)
(* record and the list order is the order of arrival, kept in the field    *)
(* "at".  Module ReplayBuffer has the three lists and is shown to          *)
(* implement this module.                                                  *)
(***************************************************************************)
EXTENDS Integers, FiniteSets

CONSTANTS
    NumPrompts,     \* grpo.num_prompts_per_step: groups that make one step
    MaxAge,         \* grpo.async_grpo.max_trajectory_age_steps
    MaxSize         \* capacity, fixed when the buffer is created

ASSUME StoreAssumption ==
    /\ NumPrompts \in Nat \ {0}
    /\ MaxAge \in Nat
    /\ MaxSize \in Nat \ {0}

VARIABLES
    entries,        \* the groups held: [item, gen, tgt, at]
    arrivals,       \* pushes accepted so far, the source of the field "at"
    lastTarget      \* last_target_weight_already_generated

storeVars == <<entries, arrivals, lastTarget>>

StoreInit ==
    /\ entries = {}
    /\ arrivals = 0
    /\ lastTarget = -1

Full == Cardinality(entries) >= MaxSize

(* push_with_wait_signal answering "success": the group goes to the end of *)
(* the list and the highest target pushed so far is remembered.  When the  *)
(* buffer is full the call answers "full" and changes nothing.             *)
Push(item, g, t) ==
    /\ ~Full
    /\ entries' = entries \union
                    {[item |-> item, gen |-> g, tgt |-> t, at |-> arrivals + 1]}
    /\ arrivals' = arrivals + 1
    /\ lastTarget' = IF t > lastTarget THEN t ELSE lastTarget

MinValidVersion(cur) == IF cur > MaxAge THEN cur - MaxAge ELSE 0

(* sample() raises ValueError when any entry, wanted or not, is this old.  *)
Expired(cur) == \E e \in entries : e.gen < MinValidVersion(cur)

IntendedAnyTarget(cur) ==                               \* mutant
    {e \in entries : MinValidVersion(cur) <= e.gen /\ e.gen <= cur}

Intended(cur) ==
    {e \in entries : /\ MinValidVersion(cur) <= e.gen
                     /\ e.gen <= cur
                     /\ e.tgt = cur}

(* T is the first NumPrompts members of S in order of arrival.             *)
FirstOf(T, S) ==
    /\ Cardinality(T) = NumPrompts
    /\ \A x \in T, y \in S \ T : x.at < y.at

CanSample(cur) == ~Expired(cur) /\ Cardinality(Intended(cur)) >= NumPrompts

SampleKeeps(cur, T) ==                                  \* mutant
    /\ CanSample(cur)
    /\ T \in SUBSET Intended(cur)
    /\ FirstOf(T, Intended(cur))
    /\ UNCHANGED storeVars

(* sample() answering a batch: the first NumPrompts groups meant for the   *)
(* step cur leave the buffer together.                                     *)
Sample(cur, T) ==
    /\ CanSample(cur)
    /\ T \in SUBSET Intended(cur)
    /\ FirstOf(T, Intended(cur))
    /\ entries' = entries \ T
    /\ UNCHANGED <<arrivals, lastTarget>>

(* clear() empties the lists and keeps lastTarget.                         *)
Clear ==
    /\ entries' = {}
    /\ UNCHANGED <<arrivals, lastTarget>>
=============================================================================
