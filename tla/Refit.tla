-------------------------------- MODULE Refit --------------------------------
(***************************************************************************)
(* refit_policy_generation (algorithms/grpo.py): the inference engine gets *)
(* the policy's weights.  An engine on the policy's own GPUs is woken in   *)
(* two parts, and streamed to (IPCStream) in between; the policy leaves    *)
(* the GPUs in two parts as well.  An engine elsewhere is broadcast to     *)
(* (PackedBroadcast).                                                      *)
(***************************************************************************)
EXTENDS IPCStream, PackedBroadcast

CONSTANTS Leaders,      \* ranks whose result stands for their engine's
          MaxFaults     \* bound: errors and time-outs

ASSUME RefitAssumption ==
    /\ Leaders \subseteq Ranks
    /\ MaxFaults \in Nat
    /\ Source \notin Ranks

VARIABLES
    colocated,      \* colocated_inference
    phase,          \* position in refit_policy_generation
    policyOn,       \* what of the policy is on the GPUs
    engineOn,       \* what of the engine is on them
    outcome         \* update_success, once it is known

controlVars == <<colocated, phase, policyOn, engineOn, outcome>>
refitVars == <<tensors, loaded, faults, ipcVars, broadcastVars, controlVars>>

\* After training all of the policy is on its GPUs; a colocated engine sleeps.
RefitInit ==
    /\ WeightsInit /\ IPCInit /\ BroadcastInit
    /\ faults = MaxFaults
    /\ colocated \in BOOLEAN
    /\ phase = "start"
    /\ policyOn = {"model", "optimizer"}
    /\ engineOn = IF colocated THEN {} ELSE {"weights", "kv_cache"}
    /\ outcome = "none"

TransferIdle == UNCHANGED <<tensors, loaded, faults, ipcVars, broadcastVars>>

OffloadBefore ==
    /\ phase = "start" /\ colocated
    /\ policyOn' = policyOn \ {"optimizer"}
    /\ phase' = "offloaded"
    /\ UNCHANGED <<colocated, engineOn, outcome>>
    /\ TransferIdle

\* prepare_for_generation(tags=["weights"])
WakeWeights ==
    /\ phase = "offloaded"
    /\ engineOn' = engineOn \cup {"weights"}
    /\ phase' = "transfer"
    /\ UNCHANGED <<colocated, policyOn, outcome>>
    /\ TransferIdle

StartBroadcast ==
    /\ phase = "start" /\ ~colocated
    /\ phase' = "transfer"
    /\ UNCHANGED <<colocated, policyOn, engineOn, outcome>>
    /\ TransferIdle

\* On every GPU the policy's worker and the engine's are processes of their own.
StreamTo(r) ==
    /\ colocated /\ phase = "transfer"
    /\ SenderStep(r)
    /\ UNCHANGED <<tensors, bufferSize, broadcastVars, controlVars>>

StreamFrom(r) ==
    /\ colocated /\ phase = "transfer"
    /\ ReceiverStep(r)
    /\ UNCHANGED <<tensors, bufferSize, broadcastVars, controlVars>>

\* The streams of a GPU go on whatever its processor does, and after it has
\* returned.
BroadcastWeights ==
    /\ ~colocated
    /\ phase # "start"
    /\ BroadcastStep
    /\ UNCHANGED <<ipcVars, controlVars>>

\* ray.get(futures_train) raises.
TransferRaises ==
    /\ phase = "transfer" /\ colocated
    /\ SenderRaised
    /\ outcome' = "failure"
    /\ phase' = "done"
    /\ UNCHANGED <<colocated, policyOn, engineOn>>
    /\ TransferIdle

SendingEnded ==
    IF colocated THEN SendersReturned ELSE cpu[Source].pc = "returned"

\* collective_rpc waits for the workers of an engine ...
Ended(r) == IF colocated THEN IPCEnded(r) ELSE BroadcastEnded(r)

Returned(r) ==
    IF colocated THEN receiver[r].pc = "returned" ELSE cpu[r].pc = "returned"

\* ... and returns all their results; the first one is looked at.
UpdateSuccess == \A r \in Leaders : Returned(r)

\* mutant: does not wait for the engine.
TransferEndsEarly ==
    /\ phase = "transfer"
    /\ SendingEnded
    /\ outcome' = "success"
    /\ phase' = "transferred"
    /\ UNCHANGED <<colocated, policyOn, engineOn>>
    /\ TransferIdle

TransferEnds ==
    /\ phase = "transfer"
    /\ SendingEnded /\ \A r \in Ranks : Ended(r)
    /\ outcome' = IF UpdateSuccess THEN "success" ELSE "failure"
    /\ phase' = IF ~UpdateSuccess \/ ~colocated THEN "done" ELSE "transferred"
    /\ UNCHANGED <<colocated, policyOn, engineOn>>
    /\ TransferIdle

OffloadAfter ==
    /\ phase = "transferred"
    /\ policyOn' = {}
    /\ phase' = "wake"
    /\ UNCHANGED <<colocated, engineOn, outcome>>
    /\ TransferIdle

\* prepare_for_generation(tags=["kv_cache"])
WakeCache ==
    /\ phase = "wake"
    /\ engineOn' = engineOn \cup {"kv_cache"}
    /\ phase' = "done"
    /\ UNCHANGED <<colocated, policyOn, outcome>>
    /\ TransferIdle

ControlStep ==
    \/ OffloadBefore \/ WakeWeights \/ StartBroadcast
    \/ TransferRaises \/ TransferEnds \/ OffloadAfter \/ WakeCache

RefitNext ==
    \/ ControlStep \/ BroadcastWeights
    \/ \E r \in Ranks : StreamTo(r) \/ StreamFrom(r)

RefitSpec == RefitInit /\ [][RefitNext]_refitVars

\* Every process and every GPU goes on with what it can do.
FairRefitSpec ==
    /\ RefitSpec
    /\ WF_refitVars(ControlStep)
    /\ WF_refitVars(BroadcastWeights)
    /\ \A r \in Ranks : WF_refitVars(StreamTo(r)) /\ WF_refitVars(StreamFrom(r))

-----------------------------------------------------------------------------
\* Properties.

Drained == \A m \in Members : \A b \in Buffers : stream[m][b] = <<>>

\* The refit carries out a WeightTransfer, once the GPUs have done what they
\* were given.
Transfer == INSTANCE WeightTransfer
    WITH result <- IF outcome = "success" /\ ~Drained THEN "none" ELSE outcome

TransfersWeights == Transfer!Spec

\* The refit ends, unless a consumer of a broadcast has failed: the others then
\* wait for it.
Stranded == ~colocated /\ \E r \in Ranks : cpu[r].pc = "failed"

RefitEnds == <>(phase = "done" \/ Stranded)
=============================================================================
