---------------------------- MODULE ReplayBuffer ----------------------------
(***************************************************************************)
(* The actor ReplayBuffer as it is written                                 *)
(* (nemo_rl/algorithms/async_utils.py): three parallel lists, filtered by  *)
(* index and emptied by popping indices.  Every call holds the lock from   *)
(* beginning to end and the actor is single-threaded, so a call is a step. *)
(* A trajectory is known by the number of its push.                        *)
(***************************************************************************)
EXTENDS Integers, Sequences, SequencesExt

CONSTANTS
    NumPrompts, MaxAge, MaxSize,    \* as in ReplayStore
    Versions,                       \* weight versions the clients name
    MaxPushes                       \* bound on the pushes that succeed

ASSUME BufferAssumption ==
    /\ NumPrompts \in Nat \ {0} /\ MaxAge \in Nat /\ MaxSize \in Nat \ {0}
    /\ Versions \subseteq Nat
    /\ MaxPushes \in Nat

VARIABLES
    trajectories, trajectoryVersions, targetWeightVersions,     \* the lists
    lastTarget,     \* last_target_weight_already_generated
    pushed,         \* pushes that succeeded
    answer          \* what the last call returned or raised

lists == <<trajectories, trajectoryVersions, targetWeightVersions>>
vars == <<lists, lastTarget, pushed, answer>>

Init ==
    /\ trajectories = <<>> /\ trajectoryVersions = <<>>
    /\ targetWeightVersions = <<>>
    /\ lastTarget = -1
    /\ pushed = 0
    /\ answer = <<"none">>

Size == Len(trajectories)

(* max(last_target_weight_already_generated, target_weight_version)        *)
Highest(t) == IF t > lastTarget THEN t ELSE lastTarget

PushSuccess(g, t) ==
    /\ Size < MaxSize /\ pushed < MaxPushes
    /\ trajectories' = Append(trajectories, pushed + 1)
    /\ trajectoryVersions' = Append(trajectoryVersions, g)
    /\ targetWeightVersions' = Append(targetWeightVersions, t)
    /\ lastTarget' = Highest(t)
    /\ pushed' = pushed + 1
    /\ answer' = <<"success">>

PushFull ==
    /\ Size >= MaxSize
    /\ answer' = <<"full">>
    /\ UNCHANGED <<lists, lastTarget, pushed>>

MinValidTooOld(cur) ==                                  \* mutant
    IF cur > MaxAge + 1 THEN cur - MaxAge - 1 ELSE 0

MinValid(cur) == IF cur > MaxAge THEN cur - MaxAge ELSE 0

(* [i for i in range(size) if i is chosen]                                 *)
InOrder(size, chosen) ==
    LET kept[n \in 0 .. size] ==
            IF n = 0 THEN <<>>
            ELSE IF n \in chosen THEN Append(kept[n - 1], n) ELSE kept[n - 1]
    IN  kept[size]

OldIndices(cur) ==
    InOrder(Size, {i \in 1 .. Size : trajectoryVersions[i] < MinValid(cur)})

ValidIndices(cur) ==
    InOrder(Size, {i \in 1 .. Size : /\ MinValid(cur) <= trajectoryVersions[i]
                                     /\ trajectoryVersions[i] <= cur})

IntendedIndices(cur) ==
    InOrder(Size, {i \in ToSet(ValidIndices(cur)) : targetWeightVersions[i] = cur})

PopAscending(selected) == selected                      \* mutant

(* The order in which the selected indices are popped: from the last one   *)
(* to the first, so that no pop moves an element still to be popped.       *)
PopOrder(selected) == Reverse(selected)

PopAll(list, order) ==
    LET popped[n \in 0 .. Len(order)] ==
            IF n = 0 THEN list ELSE RemoveAt(popped[n - 1], order[n])
    IN  popped[Len(order)]

SampleRaises(cur) ==
    /\ Size > 0 /\ OldIndices(cur) # <<>>
    /\ answer' = <<"ValueError">>
    /\ UNCHANGED <<lists, lastTarget, pushed>>

(* The buffer is empty, or too few groups are valid, or too few of those   *)
(* are intended for this step.                                             *)
SampleNone(cur) ==
    /\ \/ Size = 0
       \/ /\ OldIndices(cur) = <<>>
          /\ \/ Len(ValidIndices(cur)) < NumPrompts
             \/ Len(IntendedIndices(cur)) < NumPrompts
    /\ answer' = <<"None">>
    /\ UNCHANGED <<lists, lastTarget, pushed>>

SampleBatch(cur) ==
    /\ Size > 0 /\ OldIndices(cur) = <<>>
    /\ Len(ValidIndices(cur)) >= NumPrompts
    /\ Len(IntendedIndices(cur)) >= NumPrompts
    /\ LET selected == SubSeq(IntendedIndices(cur), 1, NumPrompts)
           order == PopOrder(selected)
       IN  /\ answer' = <<"batch">> \o
                  [k \in 1 .. NumPrompts |-> trajectories[selected[k]]]
           /\ trajectories' = PopAll(trajectories, order)
           /\ trajectoryVersions' = PopAll(trajectoryVersions, order)
           /\ targetWeightVersions' = PopAll(targetWeightVersions, order)
    /\ UNCHANGED <<lastTarget, pushed>>

Clear ==
    /\ trajectories' = <<>> /\ trajectoryVersions' = <<>>
    /\ targetWeightVersions' = <<>>
    /\ answer' = <<"cleared">>
    /\ UNCHANGED <<lastTarget, pushed>>

Next ==
    \/ \E g, t \in Versions : PushSuccess(g, t)
    \/ PushFull
    \/ \E cur \in Versions :
          SampleRaises(cur) \/ SampleNone(cur) \/ SampleBatch(cur)
    \/ Clear

Spec == Init /\ [][Next]_vars

-----------------------------------------------------------------------------
(* A batch handed out is gone from the buffer and no other entry is: each  *)
(* trajectory is sampled at most once.                                     *)
SampledLeave ==
    [][ answer'[1] = "batch" =>
          ToSet(trajectories) = ToSet(trajectories') \union ToSet(Tail(answer'))
          /\ ToSet(trajectories') \intersect ToSet(Tail(answer')) = {} ]_vars

(* The three lists are the store of ReplayStore, entry for entry.          *)
Store == INSTANCE ReplayStoreSpec WITH
    entries <- {[item |-> trajectories[i], gen |-> trajectoryVersions[i],
                 tgt |-> targetWeightVersions[i], at |-> trajectories[i]] :
                    i \in 1 .. Size},
    arrivals <- pushed

ImplementsStore == Store!StoreSpec
=============================================================================
