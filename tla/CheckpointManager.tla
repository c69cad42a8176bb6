------------------------- MODULE CheckpointManager -------------------------
(***************************************************************************)
(* The CheckpointManager (nemo_rl/utils/checkpoint.py) on a file system,   *)
(* its caller, a training loop that saves and resumes, and crashes between *)
(* any two steps.                                                          *)
(*                                                                         *)
(* A checkpoint directory is the function from its parts to the save that  *)
(* wrote them, 0 when the part is not there; the part "dir" is the         *)
(* directory itself and 1 when it exists.  A rename is one step; rmtree    *)
(* deletes one part after another, the directory last.  Saves are numbered *)
(* by their beginning.                                                     *)
(*                                                                         *)
(* score[s] is the metric of save s, 0 if it has none.  Higher is better:  *)
(* with higher_is_better FALSE the scores are numbered the other way, and  *)
(* without a metric all scores are equal.                                  *)
(***************************************************************************)
EXTENDS Integers, Sequences, FiniteSets

CONSTANTS
    MaxSteps,           \* max_num_steps
    SavePeriod,         \* checkpointing.save_period
    KeepTopK,           \* checkpointing.keep_top_k; MaxSteps stands for None
    MaxScore,           \* scores are 0 .. MaxScore
    AnyStep,            \* the caller may save a step that was saved before
    ConfigMayChange,    \* save_optimizer may differ from run to run
    MaxSaves, MaxCrashes    \* bounds

ASSUME CheckpointAssumption ==
    /\ MaxSteps \in Nat /\ SavePeriod \in Nat \ {0} /\ KeepTopK \in Nat
    /\ MaxScore \in Nat /\ MaxSaves \in Nat /\ MaxCrashes \in Nat
    /\ AnyStep \in BOOLEAN /\ ConfigMayChange \in BOOLEAN

Steps == 1 .. MaxSteps
Parts == {"dir", "info", "weights", "optimizer", "dataloader"}
Dirs == [Parts -> 0 .. MaxSaves]
NoDir == [p \in Parts |-> 0]

VARIABLES
    tmp, done, old,     \* directories tmp_step_N, step_N, old_step_N
    score,              \* of each save begun
    pc,                 \* what the process does next
    step,               \* steps done by the training loop
    stopping,           \* this save is the last thing the process does
    saveOptimizer,      \* checkpointing.save_optimizer of this process
    victims,            \* checkpoints remove_old_checkpoints is to remove
    removing,           \* the one it is removing, 0 for none
    loaded,             \* the parts the process was resumed from
    crashes

diskVars == <<tmp, done, old>>
runVars == <<step, stopping, saveOptimizer, loaded>>
pruneVars == <<victims, removing>>
vars == <<diskVars, score, pc, runVars, pruneVars, crashes>>

Exists(d) == d["dir"] # 0
Save == Len(score)

Init ==
    /\ tmp = [n \in Steps |-> NoDir]
    /\ done = [n \in Steps |-> NoDir]
    /\ old = [n \in Steps |-> NoDir]
    /\ score = <<>>
    /\ pc = "down" /\ step = 0 /\ stopping = FALSE /\ saveOptimizer = TRUE
    /\ victims = {} /\ removing = 0 /\ loaded = NoDir /\ crashes = 0

(* get_latest_checkpoint_path: the highest N with a directory step_N.      *)
IsLatest(n) == Exists(done[n]) /\ \A m \in Steps : Exists(done[m]) => m <= n

(* _load_checkpoint_history: the directories with a training_info.json.    *)
History == {n \in Steps : Exists(done[n]) /\ done[n]["info"] # 0}

BetterByStep(m, n) == m > n                             \* mutant

(* The order of remove_old_checkpoints: by score, then the later step.     *)
Better(m, n) ==
    LET a == score[done[m]["info"]]
        b == score[done[n]["info"]]
    IN  a > b \/ (a = b /\ m > n)

Ranked(n) == {m \in History : Better(m, n)}

RemovableLatest(n) == Cardinality(Ranked(n)) >= KeepTopK  \* mutant

(* Outside the best KeepTopK and not the latest.                           *)
Removable(n) ==
    /\ Cardinality(Ranked(n)) >= KeepTopK
    /\ \E m \in History : m > n

-----------------------------------------------------------------------------
(* The process.                                                            *)

LoadedStepBefore(n) == n - 1                            \* mutant

(* The step that the info of step_N tells a resumed run to go on from.     *)
LoadedStep(n) == n

(* The checkpoint that is found is loaded: info, then the dataloader, the  *)
(* weights and, if it is there, the optimizer.  Without an info it raises. *)
Resume ==
    /\ pc = "down"
    /\ \/ /\ \E n \in Steps : /\ IsLatest(n)
                              /\ done[n]["info"] # 0
                              /\ step' = LoadedStep(n)
                              /\ loaded' = done[n]
       \/ /\ \A n \in Steps : ~Exists(done[n])
          /\ step' = 0 /\ loaded' = NoDir
    /\ IF ConfigMayChange THEN saveOptimizer' \in BOOLEAN
                          ELSE UNCHANGED saveOptimizer
    /\ pc' = "train"
    /\ UNCHANGED <<diskVars, score, stopping, pruneVars, crashes>>

SaveDue(n) == n = MaxSteps \/ n % SavePeriod = 0

(* One step of training.  check_save() may ask for a save at any step and  *)
(* for the end of the process after it.                                    *)
TrainStep ==
    /\ pc = "train"
    /\ \E n \in Steps, late \in BOOLEAN :
          /\ AnyStep \/ n = step + 1
          /\ step' = n
          /\ stopping' = late
          /\ pc' = IF SaveDue(n) \/ late THEN "info" ELSE "train"
    /\ UNCHANGED <<diskVars, score, saveOptimizer, loaded, pruneVars, crashes>>

InitTmpOnce ==                                          \* mutant
    /\ pc = "info" /\ Save < MaxSaves
    /\ \E s \in 0 .. MaxScore : score' = Append(score, s)
    /\ tmp' = IF Exists(tmp[step]) THEN tmp
              ELSE [tmp EXCEPT ![step]["dir"] = 1, ![step]["info"] = Save + 1]
    /\ pc' = "weights"
    /\ UNCHANGED <<done, old, runVars, pruneVars, crashes>>

(* init_tmp_checkpoint: mkdir with exist_ok, then the info.  What an       *)
(* earlier attempt left in the directory stays.                            *)
InitTmp ==
    /\ pc = "info" /\ Save < MaxSaves
    /\ \E s \in 0 .. MaxScore : score' = Append(score, s)
    /\ tmp' = [tmp EXCEPT ![step]["dir"] = 1, ![step]["info"] = Save + 1]
    /\ pc' = "weights"
    /\ UNCHANGED <<done, old, runVars, pruneVars, crashes>>

WritePart(p) == tmp' = [tmp EXCEPT ![step][p] = Save]

WriteWeights ==
    /\ pc = "weights"
    /\ WritePart("weights")
    /\ pc' = IF saveOptimizer THEN "optimizer" ELSE "dataloader"
    /\ UNCHANGED <<done, old, score, runVars, pruneVars, crashes>>

WriteOptimizerOnce ==                                   \* mutant
    /\ pc = "optimizer"
    /\ IF tmp[step]["optimizer"] = 0 THEN WritePart("optimizer")
                                     ELSE UNCHANGED tmp
    /\ pc' = "dataloader"
    /\ UNCHANGED <<done, old, score, runVars, pruneVars, crashes>>

WriteOptimizer ==
    /\ pc = "optimizer"
    /\ WritePart("optimizer")
    /\ pc' = "dataloader"
    /\ UNCHANGED <<done, old, score, runVars, pruneVars, crashes>>

WriteDataloader ==
    /\ pc = "dataloader"
    /\ WritePart("dataloader")
    /\ pc' = "finalize"
    /\ UNCHANGED <<done, old, score, runVars, pruneVars, crashes>>

(* finalize_checkpoint where there is no step_N yet.                       *)
Finalize ==
    /\ pc = "finalize" /\ ~Exists(done[step])
    /\ done' = [done EXCEPT ![step] = tmp[step]]
    /\ tmp' = [tmp EXCEPT ![step] = NoDir]
    /\ pc' = "prune"
    /\ UNCHANGED <<old, score, runVars, pruneVars, crashes>>

MoveAsideDeletes ==                                     \* mutant
    /\ pc = "finalize" /\ Exists(done[step])
    /\ \A p \in Parts \ {"dir"} : old[step][p] = 0
    /\ done' = [done EXCEPT ![step] = NoDir]
    /\ pc' = "replace"
    /\ UNCHANGED <<old, tmp, score, runVars, pruneVars, crashes>>

(* Where there is one, it is moved aside.  The rename raises if a non-empty*)
(* old_step_N is in the way, and the exception ends the process.           *)
MoveAside ==
    /\ pc = "finalize" /\ Exists(done[step])
    /\ \A p \in Parts \ {"dir"} : old[step][p] = 0
    /\ old' = [old EXCEPT ![step] = done[step]]
    /\ done' = [done EXCEPT ![step] = NoDir]
    /\ pc' = "replace"
    /\ UNCHANGED <<tmp, score, runVars, pruneVars, crashes>>

RenameRaises ==
    /\ pc = "finalize" /\ Exists(done[step])
    /\ \E p \in Parts \ {"dir"} : old[step][p] # 0
    /\ pc' = "raised"
    /\ UNCHANGED <<diskVars, score, runVars, pruneVars, crashes>>

Replace ==
    /\ pc = "replace"
    /\ done' = [done EXCEPT ![step] = tmp[step]]
    /\ tmp' = [tmp EXCEPT ![step] = NoDir]
    /\ pc' = "delete_old"
    /\ UNCHANGED <<old, score, runVars, pruneVars, crashes>>

(* rmtree: any part that is there, the directory itself after the others.  *)
Deletable(d, p) ==
    /\ d[p] # 0
    /\ p = "dir" => \A q \in Parts \ {"dir"} : d[q] = 0

DeleteOld ==
    /\ pc = "delete_old"
    /\ \E p \in Parts : /\ Deletable(old[step], p)
                        /\ old' = [old EXCEPT ![step][p] = 0]
    /\ UNCHANGED <<tmp, done, score, pc, runVars, pruneVars, crashes>>

OldDeleted ==
    /\ pc = "delete_old" /\ ~Exists(old[step])
    /\ pc' = "prune"
    /\ UNCHANGED <<diskVars, score, runVars, pruneVars, crashes>>

(* remove_old_checkpoints reads all infos before it removes anything.      *)
ChooseVictims ==
    /\ pc = "prune"
    /\ victims' = {n \in History : Removable(n)}
    /\ pc' = "remove"
    /\ UNCHANGED <<diskVars, score, runVars, removing, crashes>>

TakeVictim ==
    /\ pc = "remove" /\ removing = 0
    /\ \E n \in victims : /\ \A m \in victims \ {n} : Better(n, m)
                          /\ removing' = n
    /\ UNCHANGED <<diskVars, score, pc, runVars, victims, crashes>>

RemovePart ==
    /\ pc = "remove" /\ removing # 0
    /\ \E p \in Parts : /\ Deletable(done[removing], p)
                        /\ done' = [done EXCEPT ![removing][p] = 0]
    /\ UNCHANGED <<tmp, old, score, pc, runVars, pruneVars, crashes>>

VictimGone ==
    /\ pc = "remove" /\ removing # 0 /\ ~Exists(done[removing])
    /\ victims' = victims \ {removing}
    /\ removing' = 0
    /\ UNCHANGED <<diskVars, score, pc, runVars, crashes>>

SaveOver ==
    /\ pc = "remove" /\ victims = {}
    /\ pc' = IF stopping THEN "down" ELSE "train"
    /\ UNCHANGED <<diskVars, score, runVars, pruneVars, crashes>>

(* The process dies, or is restarted after an exception: the disk is what  *)
(* it leaves.                                                              *)
Crash ==
    /\ pc # "down" /\ crashes < MaxCrashes
    /\ crashes' = crashes + 1
    /\ pc' = "down" /\ victims' = {} /\ removing' = 0
    /\ UNCHANGED <<diskVars, score, runVars>>

Next ==
    \/ Resume \/ TrainStep
    \/ InitTmp \/ WriteWeights \/ WriteOptimizer \/ WriteDataloader
    \/ Finalize \/ MoveAside \/ RenameRaises \/ Replace
    \/ DeleteOld \/ OldDeleted
    \/ ChooseVictims \/ TakeVictim \/ RemovePart \/ VictimGone \/ SaveOver
    \/ Crash

Spec == Init /\ [][Next]_vars

-----------------------------------------------------------------------------
(* Properties                                                              *)

TypeOK ==
    /\ tmp \in [Steps -> Dirs] /\ done \in [Steps -> Dirs]
    /\ old \in [Steps -> Dirs]
    /\ score \in Seq(0 .. MaxScore) /\ Save <= MaxSaves
    /\ pc \in {"down", "train", "info", "weights", "optimizer", "dataloader",
               "finalize", "replace", "delete_old", "prune", "remove", "raised"}
    /\ step \in 0 .. MaxSteps
    /\ stopping \in BOOLEAN /\ saveOptimizer \in BOOLEAN
    /\ victims \subseteq Steps /\ removing \in Steps \union {0}
    /\ loaded \in Dirs /\ crashes \in 0 .. MaxCrashes

(* All that a resumed run cannot do without, from one and the same save.   *)
Complete(d) ==
    d["info"] # 0 /\ d["weights"] = d["info"] /\ d["dataloader"] = d["info"]

(* Whatever crashes interrupt, the checkpoint that get_latest_checkpoint_  *)
(* path finds is whole: no half-written and no half-removed directory is   *)
(* ever resumed from.                                                      *)
LatestUsable == \A n \in Steps : IsLatest(n) => Complete(done[n])

(* A training loop that goes on from the latest checkpoint never finds a   *)
(* checkpoint of the step it is about to finalize.                         *)
NeverOverwrites == pc = "finalize" => ~Exists(done[step])

(* While the same options are used, a run goes on from the weights, the    *)
(* optimizer and the dataloader of one save, whatever earlier attempts left*)
(* in the directory the save was made in.                                  *)
ResumeConsistent ==
    loaded # NoDir => /\ Complete(loaded)
                      /\ loaded["optimizer"] \in {0, loaded["info"]}

(* The best score among the finished checkpoints never falls: neither a    *)
(* later save nor the removal of old ones loses the best one.              *)
BestKept ==
    [][ KeepTopK > 0 =>
          \A n \in History : \E m \in History' :
              score'[done'[m]["info"]] >= score[done[n]["info"]] ]_vars

HasCopy(n) == Complete(done[n]) \/ Complete(old[n])

(* Once finished, a step has a whole copy on the disk, under its own name  *)
(* or moved aside, until it is removed as one checkpoint too many.         *)
CopySurvives ==
    [][ \A n \in Steps : HasCopy(n) => HasCopy(n)' \/ n = removing ]_vars

(* To the training loop the directory is a register that survives crashes. *)
Latest == IF \A n \in Steps : ~Exists(done[n]) THEN 0
          ELSE CHOOSE n \in Steps : IsLatest(n)

Register == INSTANCE DurableRegister WITH
    value <- Latest,
    runner <- IF pc = "down" THEN -1 ELSE step

KeepsRegister == Register!Spec
=============================================================================
