----------------------- MODULE CheckpointManager_proofs -----------------------
(***************************************************************************)
(* Proofs about CheckpointManager, for any number of steps, saves, scores  *)
(* and crashes: its types; that the loop that saves every step once        *)
(* resumes from whole checkpoints, overwrites none, never loses the best   *)
(* one and implements DurableRegister; and that a step that is saved once  *)
(* more always has a whole copy on the disk.                               *)
(***************************************************************************)
EXTENDS CheckpointManager, FiniteSetTheorems, SequenceTheorems,
        WellFoundedInduction, TLAPS

-----------------------------------------------------------------------------
(* Types                                                                   *)

(* The step of a save is one that training can reach.                      *)
StepOK == pc \notin {"down", "train"} => step \in Steps

TypeInv == TypeOK /\ StepOK

USE CheckpointAssumption DEF Parts

(* The directory functions stay of their type when one part is written.    *)
LEMMA PartTyped ==
  ASSUME NEW f \in [Steps -> Dirs], NEW n \in Steps, NEW p \in Parts,
         NEW s \in 0 .. MaxSaves
  PROVE  [f EXCEPT ![n][p] = s] \in [Steps -> Dirs]
  BY SMT DEF Dirs

LEMMA DirTyped ==
  ASSUME NEW f \in [Steps -> Dirs], NEW n \in Steps, NEW d \in Dirs
  PROVE  [f EXCEPT ![n] = d] \in [Steps -> Dirs]
  OBVIOUS

LEMMA NoDirTyped == NoDir \in Dirs
  BY DEF NoDir, Dirs

LEMMA InitTypeInv == Init => TypeInv
<1> SUFFICES ASSUME Init PROVE TypeInv
  OBVIOUS
<1>1. score = <<>> /\ Save = 0 /\ score \in Seq(0 .. MaxScore)
  BY DEF Init, Save
<1>2. tmp \in [Steps -> Dirs] /\ done \in [Steps -> Dirs] /\ old \in [Steps -> Dirs]
  BY NoDirTyped DEF Init
<1>3. /\ step \in 0 .. MaxSteps /\ crashes \in 0 .. MaxCrashes
      /\ Save <= MaxSaves
  BY <1>1 DEF Init
<1> QED
  BY <1>1, <1>2, <1>3, NoDirTyped, Zenon DEF Init, TypeInv, TypeOK, StepOK

LEMMA NextTypeInv == TypeInv /\ [Next]_vars => TypeInv'
<1> SUFFICES ASSUME TypeInv, [Next]_vars PROVE TypeInv'
  OBVIOUS
<1> USE DEF TypeInv, TypeOK, StepOK
<1>1. CASE Resume
  <2>1. step' \in 0 .. MaxSteps /\ loaded' \in Dirs
    BY <1>1, NoDirTyped DEF Resume, LoadedStep, Steps
  <2>2. saveOptimizer' \in BOOLEAN
    BY <1>1, Zenon DEF Resume
  <2> QED
    BY <1>1, <2>1, <2>2, Zenon DEF Resume, diskVars, pruneVars, Save
<1>2. CASE TrainStep
  <2>1. PICK n \in Steps, late \in BOOLEAN :
          /\ step' = n /\ stopping' = late
          /\ pc' = IF SaveDue(n) \/ late THEN "info" ELSE "train"
    BY <1>2, Zenon DEF TrainStep
  <2>2. step' \in Steps /\ step' \in 0 .. MaxSteps
    BY <2>1 DEF Steps
  <2>3. pc' \in {"info", "train"} /\ stopping' \in BOOLEAN
    BY <2>1, Zenon
  <2> QED
    BY <1>2, <2>2, <2>3, Zenon DEF TrainStep, diskVars, pruneVars, Save
<1>3. CASE InitTmp
  <2>1. Save < MaxSaves /\ step \in Steps /\ Save \in Nat
    BY <1>3 DEF InitTmp, Save
  <2>2. PICK s \in 0 .. MaxScore : score' = Append(score, s)
    BY <1>3 DEF InitTmp
  <2>3. score' \in Seq(0 .. MaxScore) /\ Save' = Save + 1
    BY <2>2 DEF Save
  <2> DEFINE made == [tmp EXCEPT ![step]["dir"] = 1]
  <2>4. made \in [Steps -> Dirs]
    BY <2>1, PartTyped
  <2>5. [made EXCEPT ![step]["info"] = Save + 1] \in [Steps -> Dirs]
    <3>1. Save + 1 \in 0 .. MaxSaves /\ "info" \in Parts
      BY <2>1
    <3> HIDE DEF made
    <3> QED BY <2>1, <2>4, <3>1, PartTyped, Zenon
  <2>6. tmp' \in [Steps -> Dirs]
    BY <1>3, <2>5 DEF InitTmp
  <2> QED
    BY <1>3, <2>1, <2>3, <2>6 DEF InitTmp, runVars, pruneVars
<1>4. CASE WriteWeights \/ WriteOptimizer \/ WriteDataloader
  <2>1. step \in Steps /\ Save \in 0 .. MaxSaves
    BY <1>4 DEF WriteWeights, WriteOptimizer, WriteDataloader, Save
  <2>2. tmp' \in [Steps -> Dirs]
    BY <1>4, <2>1, PartTyped
    DEF WriteWeights, WriteOptimizer, WriteDataloader, WritePart
  <2> QED
    BY <1>4, <2>1, <2>2
    DEF WriteWeights, WriteOptimizer, WriteDataloader, runVars, pruneVars, Save
<1>5. CASE Finalize
  BY <1>5, NoDirTyped, DirTyped DEF Finalize, runVars, pruneVars, Save
<1>6. CASE MoveAside
  BY <1>6, NoDirTyped, DirTyped DEF MoveAside, runVars, pruneVars, Save
<1>7. CASE RenameRaises
  BY <1>7 DEF RenameRaises, diskVars, runVars, pruneVars, Save
<1>8. CASE Replace
  BY <1>8, NoDirTyped, DirTyped DEF Replace, runVars, pruneVars, Save
<1>9. CASE DeleteOld
  <2>1. PICK p \in Parts : old' = [old EXCEPT ![step][p] = 0]
    BY <1>9 DEF DeleteOld
  <2>2. step \in Steps
    BY <1>9 DEF DeleteOld
  <2>3. old' \in [Steps -> Dirs]
    <3>1. 0 \in 0 .. MaxSaves
      OBVIOUS
    <3> QED BY <2>1, <2>2, <3>1, PartTyped, Zenon
  <2> QED
    BY <1>9, <2>3 DEF DeleteOld, runVars, pruneVars, Save
<1>10. CASE OldDeleted
  BY <1>10 DEF OldDeleted, diskVars, runVars, pruneVars, Save
<1>11. CASE ChooseVictims
  BY <1>11 DEF ChooseVictims, History, diskVars, runVars, Save
<1>12. CASE TakeVictim
  BY <1>12 DEF TakeVictim, diskVars, runVars, Save
<1>13. CASE RemovePart
  <2>1. done' \in [Steps -> Dirs]
    BY <1>13, PartTyped DEF RemovePart
  <2> QED
    BY <1>13, <2>1 DEF RemovePart, runVars, pruneVars, Save
<1>14. CASE VictimGone
  BY <1>14 DEF VictimGone, diskVars, runVars, Save
<1>15. CASE SaveOver
  BY <1>15 DEF SaveOver, diskVars, runVars, pruneVars, Save
<1>16. CASE Crash
  BY <1>16 DEF Crash, diskVars, runVars, Save
<1>17. CASE UNCHANGED vars
  BY <1>17 DEF vars, diskVars, runVars, pruneVars, Save
<1> QED
  BY <1>1, <1>2, <1>3, <1>4, <1>5, <1>6, <1>7, <1>8, <1>9, <1>10, <1>11,
     <1>12, <1>13, <1>14, <1>15, <1>16, <1>17 DEF Next

(* Every variable keeps its type, whatever is saved, crashed or resumed.   *)
THEOREM TypeCorrect == Spec => []TypeOK
<1>1. TypeInv => TypeOK
  BY DEF TypeInv
<1> QED
  BY InitTypeInv, NextTypeInv, <1>1, PTL DEF Spec

-----------------------------------------------------------------------------
(* The loop that saves every step once (AnyStep is FALSE): where a save    *)
(* stands, at each pc.                                                     *)

(* One save; the optimizer's too, unless the options change between runs.  *)
Sound(d) ==
    /\ Complete(d)
    /\ ~ConfigMayChange => d["optimizer"] \in {0, d["info"]}

LatestSound == \A n \in Steps : IsLatest(n) => Sound(done[n])

LoadedSound == loaded # NoDir => Sound(loaded)

(* Nothing is ever in the way of a finished checkpoint.                    *)
NothingReplaced == pc \notin {"replace", "delete_old", "raised"}

(* The training loop is never behind a checkpoint, and ahead of all of them*)
(* while it saves.                                                         *)
Ahead ==
    /\ pc = "train" => \A n \in Steps : Exists(done[n]) => n <= step
    /\ pc \in {"info", "weights", "optimizer", "dataloader", "finalize"} =>
          \A n \in Steps : Exists(done[n]) => n < step

(* The parts that the save has written so far are in its directory.        *)
SaveWritten ==
    /\ ~ConfigMayChange => saveOptimizer
    /\ pc \in {"weights", "optimizer", "dataloader", "finalize"} =>
          Save # 0 /\ tmp[step]["dir"] = 1 /\ tmp[step]["info"] = Save
    /\ pc \in {"optimizer", "dataloader", "finalize"} =>
          tmp[step]["weights"] = Save
    /\ pc \in {"dataloader", "finalize"} /\ ~ConfigMayChange =>
          tmp[step]["optimizer"] = Save
    /\ pc = "finalize" => tmp[step]["dataloader"] = Save

(* The checkpoint just finished is the latest one and no victim.           *)
PruneBelow ==
    /\ pc \in {"prune", "remove"} => IsLatest(step)
    /\ pc # "remove" => removing = 0
    /\ pc = "remove" => /\ \A n \in victims : n < step
                        /\ removing # 0 => removing \in victims

IInv ==
    /\ TypeInv /\ LatestSound /\ LoadedSound
    /\ NothingReplaced /\ Ahead /\ SaveWritten /\ PruneBelow

LEMMA InitIInv == Init => IInv
<1> SUFFICES ASSUME Init PROVE IInv
  OBVIOUS
<1>1. \A n \in Steps : ~Exists(done[n])
  BY DEF Init, Exists, NoDir
<1> QED
  BY <1>1, InitTypeInv
  DEF Init, IInv, LatestSound, LoadedSound, NothingReplaced, Ahead,
      SaveWritten, PruneBelow, IsLatest

(* What a step that leaves the finished checkpoints alone keeps of IInv.   *)
LEMMA DoneUnchanged ==
  ASSUME IInv, UNCHANGED <<done, loaded>>
  PROVE  LatestSound' /\ LoadedSound'
  BY DEF IInv, LatestSound, LoadedSound, IsLatest, Exists, Sound, Complete

LEMMA NextIInv ==
  ASSUME ~AnyStep, IInv, [Next]_vars
  PROVE  IInv'
<1> USE DEF IInv
<1>0. TypeInv'
  BY NextTypeInv
<1>t. TypeInv /\ TypeOK
  BY DEF TypeInv
<1>1. CASE Resume
  <2>1. LatestSound'
    BY <1>1 DEF Resume, diskVars, LatestSound, IsLatest, Exists, Sound, Complete
  <2>2. LoadedSound'
    BY <1>1 DEF Resume, LoadedSound, LatestSound
  <2>3. Ahead'
    BY <1>1 DEF Resume, diskVars, Ahead, IsLatest, Exists, LoadedStep
  <2>4. SaveWritten'
    BY <1>1 DEF Resume, diskVars, SaveWritten
  <2> QED
    BY <1>0, <1>1, <2>1, <2>2, <2>3, <2>4
    DEF Resume, pruneVars, NothingReplaced, PruneBelow
<1>2. CASE TrainStep
  <2>1. LatestSound' /\ LoadedSound'
    BY <1>2, DoneUnchanged DEF TrainStep, diskVars
  <2>2. step' = step + 1 /\ pc = "train" /\ pc' \in {"info", "train"}
    BY <1>2, Zenon DEF TrainStep
  <2>3. Ahead'
    BY <1>2, <1>t, <2>2 DEF TrainStep, diskVars, Ahead, Exists, TypeOK, Steps
  <2> QED
    BY <1>0, <1>2, <2>1, <2>2, <2>3
    DEF TrainStep, diskVars, pruneVars, NothingReplaced, SaveWritten, PruneBelow
<1>3. CASE InitTmp
  <2>1. LatestSound' /\ LoadedSound'
    BY <1>3, DoneUnchanged DEF InitTmp, runVars
  <2>2. step \in Steps /\ Save' = Save + 1 /\ Save \in Nat
    BY <1>3, <1>t DEF InitTmp, TypeInv, TypeOK, StepOK, Save
  <2>3. tmp'[step]["dir"] = 1 /\ tmp'[step]["info"] = Save'
    BY <1>3, <1>t, <2>2 DEF InitTmp, TypeOK, Dirs
  <2>4. SaveWritten'
    BY <1>3, <2>2, <2>3 DEF InitTmp, runVars, SaveWritten
  <2> QED
    BY <1>0, <1>3, <2>1, <2>4
    DEF InitTmp, runVars, pruneVars, NothingReplaced, Ahead, Exists, PruneBelow
<1>4. CASE WriteWeights \/ WriteOptimizer \/ WriteDataloader
  <2> USE <1>4 DEF WriteWeights, WriteOptimizer, WriteDataloader
  <2>1. LatestSound' /\ LoadedSound'
    BY DoneUnchanged DEF runVars
  <2>2. step \in Steps /\ Save' = Save
    BY <1>t DEF TypeInv, StepOK, Save
  <2>3. \A p, q \in Parts : WritePart(p) =>
          tmp'[step][q] = IF p = q THEN Save ELSE tmp[step][q]
    BY <1>t, <2>2 DEF WritePart, TypeOK, Dirs
  <2>4. SaveWritten'
    BY <2>2, <2>3 DEF runVars, SaveWritten
  <2> QED
    BY <1>0, <2>1, <2>4
    DEF runVars, pruneVars, NothingReplaced, Ahead, Exists, PruneBelow
<1>5. CASE Finalize
  <2> USE <1>5 DEF Finalize
  <2>1. step \in Steps /\ \A n \in Steps : Exists(done[n]) => n < step
    BY <1>t DEF TypeInv, StepOK, Ahead
  <2>2. /\ done'[step] = tmp[step]
        /\ \A n \in Steps \ {step} : done'[n] = done[n]
    BY <1>t, <2>1 DEF TypeOK
  <2>3. Sound(tmp[step]) /\ Exists(tmp[step])
    BY DEF SaveWritten, Sound, Complete, Exists
  <2>4. IsLatest(step)'
    BY <1>t, <2>1, <2>2, <2>3 DEF IsLatest, Exists, runVars, TypeOK, Steps
  <2>5. \A n \in Steps : IsLatest(n)' => n = step
    BY <1>t, <2>1, <2>2, <2>3 DEF IsLatest, Exists, TypeOK, Steps
  <2>6. LatestSound'
    BY <2>2, <2>3, <2>5 DEF LatestSound, Sound, Complete
  <2> QED
    BY <1>0, <2>4, <2>6
    DEF LoadedSound, Sound, Complete, NothingReplaced, Ahead, SaveWritten, PruneBelow,
        runVars, pruneVars
<1>6. CASE MoveAside \/ RenameRaises
  <2>1. step \in Steps /\ Exists(done[step]) /\ pc = "finalize"
    BY <1>6, <1>t DEF MoveAside, RenameRaises, TypeInv, StepOK
  <2> QED
    BY <2>1 DEF Ahead, Steps
<1>7. CASE Replace \/ DeleteOld \/ OldDeleted
  BY <1>7 DEF Replace, DeleteOld, OldDeleted, NothingReplaced
<1>8. CASE ChooseVictims
  <2> USE <1>8 DEF ChooseVictims
  <2>1. LatestSound' /\ LoadedSound'
    BY DoneUnchanged DEF runVars, diskVars
  <2>2. IsLatest(step)'
    BY DEF PruneBelow, runVars, diskVars, IsLatest, Exists
  <2>3. \A n \in victims' : n < step
    BY <1>t DEF Removable, History, PruneBelow, IsLatest, TypeOK, Steps
  <2> QED
    BY <1>0, <2>1, <2>2, <2>3
    DEF runVars, diskVars, NothingReplaced, Ahead, SaveWritten, PruneBelow
<1>9. CASE TakeVictim
  <2> USE <1>9 DEF TakeVictim
  <2>1. LatestSound' /\ LoadedSound'
    BY DoneUnchanged DEF runVars, diskVars
  <2>2. IsLatest(step)'
    BY DEF PruneBelow, runVars, diskVars, IsLatest, Exists
  <2> QED
    BY <1>0, <2>1, <2>2
    DEF runVars, diskVars, NothingReplaced, Ahead, SaveWritten, PruneBelow
<1>10. CASE RemovePart
  <2> USE <1>10 DEF RemovePart
  <2>1. step \in Steps /\ removing \in Steps /\ removing < step
    BY <1>t DEF TypeInv, TypeOK, StepOK, PruneBelow
  <2>2. /\ done'[step] = done[step]
        /\ \A n \in Steps : Exists(done'[n]) => Exists(done[n])
    <3>1. PICK p \in Parts : done' = [done EXCEPT ![removing][p] = 0]
      OBVIOUS
    <3>2. done \in [Steps -> Dirs] /\ removing # step
      BY <1>t, <2>1 DEF TypeOK, Steps
    <3>3. done'[step] = done[step]
      BY <2>1, <3>1, <3>2
    <3>4. \A n \in Steps : done'[n]["dir"] \in {0, done[n]["dir"]}
      BY <3>1, <3>2, <2>1 DEF Dirs
    <3> QED
      BY <3>3, <3>4 DEF Exists
  <2>3. IsLatest(step)'
    BY <2>1, <2>2 DEF PruneBelow, IsLatest, Exists, runVars
  <2>4. \A n \in Steps : IsLatest(n)' => n = step
    BY <2>1, <2>2 DEF PruneBelow, IsLatest, Exists, Steps
  <2>5. LatestSound'
    BY <2>1, <2>2, <2>4 DEF LatestSound, PruneBelow, Sound, Complete
  <2> QED
    BY <1>0, <2>3, <2>5
    DEF LoadedSound, Sound, Complete, NothingReplaced, Ahead, SaveWritten, PruneBelow,
        runVars, pruneVars
<1>11. CASE VictimGone
  <2> USE <1>11 DEF VictimGone
  <2>1. LatestSound' /\ LoadedSound'
    BY DoneUnchanged DEF runVars, diskVars
  <2>2. IsLatest(step)'
    BY DEF PruneBelow, runVars, diskVars, IsLatest, Exists
  <2> QED
    BY <1>0, <2>1, <2>2
    DEF runVars, diskVars, NothingReplaced, Ahead, SaveWritten, PruneBelow
<1>12. CASE SaveOver
  <2> USE <1>12 DEF SaveOver
  <2>1. LatestSound' /\ LoadedSound'
    BY DoneUnchanged DEF runVars, diskVars
  <2>2. pc' \in {"down", "train"}
    BY Zenon
  <2>3. Ahead'
    BY <2>2 DEF PruneBelow, Ahead, IsLatest, Exists, runVars, diskVars
  <2>4. removing' = 0
    BY DEF PruneBelow, pruneVars
  <2> QED
    BY <1>0, <2>1, <2>2, <2>3, <2>4
    DEF runVars, diskVars, NothingReplaced, SaveWritten, PruneBelow
<1>13. CASE Crash
  <2>1. LatestSound' /\ LoadedSound'
    BY <1>13, DoneUnchanged DEF Crash, runVars, diskVars
  <2> QED
    BY <1>0, <1>13, <2>1
    DEF Crash, runVars, NothingReplaced, Ahead, SaveWritten, PruneBelow
<1>14. CASE UNCHANGED vars
  <2> USE <1>14 DEF vars, diskVars, runVars, pruneVars
  <2>1. LatestSound' /\ LoadedSound'
    BY DoneUnchanged
  <2> QED
    BY <1>0, <2>1
    DEF NothingReplaced, Ahead, SaveWritten, PruneBelow, IsLatest, Exists, Save
<1> QED
  BY <1>1, <1>2, <1>3, <1>4, <1>5, <1>6, <1>7, <1>8, <1>9, <1>10, <1>11,
     <1>12, <1>13, <1>14 DEF Next

LEMMA InductiveInvariant ==
  ASSUME ~AnyStep PROVE Spec => []IInv
<1>1. IInv /\ [Next]_vars => IInv'
  BY NextIInv
<1> QED
  BY InitIInv, <1>1, PTL DEF Spec

(* Whenever crashes interrupt a save or the removal of old checkpoints,    *)
(* get_latest_checkpoint_path finds a whole checkpoint.                    *)
THEOREM LatestIsUsable ==
  ASSUME ~AnyStep PROVE Spec => []LatestUsable
<1>1. IInv => LatestUsable
  BY DEF IInv, LatestSound, Sound, LatestUsable
<1> QED
  BY InductiveInvariant, <1>1, PTL

(* finalize_checkpoint finds no checkpoint of its own step: os.rename never*)
(* meets a directory in its way.                                           *)
THEOREM FinalizeIsFree ==
  ASSUME ~AnyStep PROVE Spec => []NeverOverwrites
<1>1. IInv => NeverOverwrites
  BY DEF IInv, TypeInv, StepOK, Ahead, NeverOverwrites, Steps
<1> QED
  BY InductiveInvariant, <1>1, PTL

(* With options that stay the same, no part of an abandoned save is ever   *)
(* resumed from together with those of another.                            *)
THEOREM ResumesOneSave ==
  ASSUME ~AnyStep, ~ConfigMayChange PROVE Spec => []ResumeConsistent
<1>1. IInv => ResumeConsistent
  BY DEF IInv, LoadedSound, Sound, ResumeConsistent
<1> QED
  BY InductiveInvariant, <1>1, PTL

-----------------------------------------------------------------------------
(* The checkpoint directory implements the durable register.               *)

(* Where there is a checkpoint, there is a latest one.                     *)
LEMMA LatestExists ==
  (\E n \in Steps : Exists(done[n])) => \E n \in Steps : IsLatest(n)
<1> SUFFICES ASSUME NEW k \in Steps, Exists(done[k])
             PROVE  \E n \in Steps : IsLatest(n)
  OBVIOUS
<1> DEFINE there == {n \in Steps : Exists(done[n])}
           depths == {MaxSteps - n : n \in there}
<1>1. depths \subseteq Nat /\ depths # {}
  BY DEF Steps
<1>2. PICK x \in depths : \A y \in depths : ~(<<y, x>> \in OpToRel(<, Nat))
  <2> HIDE DEF depths
  <2> QED BY <1>1, NatLessThanWellFounded, WFMin, Zenon
<1>3. \A y \in depths : x <= y
  <2> HIDE DEF depths
  <2>1. SUFFICES ASSUME NEW y \in depths, y < x PROVE FALSE
    BY <1>1
  <2> QED BY <1>1, <1>2, <2>1 DEF OpToRel
<1>4. PICK n \in there : x = MaxSteps - n
  OBVIOUS
<1>5. \A m \in there : x <= MaxSteps - m
  BY <1>3
<1> QED
  BY <1>4, <1>5 DEF IsLatest, Steps

LEMMA LatestIs ==
  ASSUME NEW n \in Steps, TypeOK, IsLatest(n)
  PROVE  Latest = n
<1>1. \A m \in Steps : IsLatest(m) => m = n
  BY DEF IsLatest, Steps
<1>2. Latest = CHOOSE m \in Steps : IsLatest(m)
  BY DEF Latest, IsLatest
<1> QED
  BY <1>1, <1>2

LEMMA LatestIsNext ==
  ASSUME NEW n \in Steps, TypeOK', IsLatest(n)'
  PROVE  Latest' = n
<1>1. \A m \in Steps : IsLatest(m)' => m = n
  BY DEF IsLatest, Steps
<1>2. Latest' = CHOOSE m \in Steps : IsLatest(m)'
  BY DEF Latest, IsLatest
<1> QED
  BY <1>1, <1>2

LEMMA LatestUnchanged ==
  ASSUME UNCHANGED done
  PROVE  UNCHANGED Latest
  BY DEF Latest, IsLatest, Exists

(* The mapped register, written out.                                       *)
Runner == IF pc = "down" THEN -1 ELSE step

LEMMA NextRefines ==
  ASSUME ~AnyStep, IInv, IInv', [Next]_vars
  PROVE  [Register!Next]_<<Latest, Runner>>
<1> USE DEF Runner, Register!Next
<1>t. TypeOK /\ TypeOK' /\ StepOK /\ step \in Nat
  BY DEF IInv, TypeInv, TypeOK
<1>1. CASE Resume
  <2>1. UNCHANGED Latest
    BY <1>1, LatestUnchanged DEF Resume, diskVars
  <2>2. step' = Latest
    <3>1. CASE \A n \in Steps : ~Exists(done[n])
      BY <1>1, <3>1 DEF Resume, IsLatest, Latest
    <3>2. CASE \E n \in Steps : IsLatest(n) /\ step' = n
      BY <1>t, <3>2, LatestIs
    <3> QED
      BY <1>1, <3>1, <3>2 DEF Resume, LoadedStep
  <2> QED
    BY <1>1, <2>1, <2>2 DEF Resume, Register!Start, Register!Down
<1>2. CASE TrainStep
  <2>1. UNCHANGED Latest
    BY <1>2, LatestUnchanged DEF TrainStep, diskVars
  <2>2. step' = step + 1 /\ step' \in Steps /\ pc = "train" /\ pc' # "down"
    BY <1>2, Zenon DEF TrainStep
  <2> QED
    BY <1>t, <2>1, <2>2 DEF Register!Work, Register!Down, Steps
<1>3. CASE Finalize
  <2>1. step \in Steps /\ IsLatest(step)' /\ UNCHANGED step
    BY <1>3, <1>t DEF Finalize, StepOK, IInv, PruneBelow, runVars
  <2>2. Latest' = step
    BY <1>t, <2>1, LatestIsNext
  <2>3. Latest < step
    <3>1. CASE \A n \in Steps : ~Exists(done[n])
      BY <3>1, <2>1 DEF Latest, Steps
    <3>2. CASE \E n \in Steps : IsLatest(n)
      BY <1>3, <1>t, <3>2, LatestIs DEF Finalize, IInv, Ahead, IsLatest
    <3> QED
      BY <3>1, <3>2, LatestExists
  <2> QED
    BY <1>3, <2>1, <2>2, <2>3 DEF Finalize, Register!Publish
<1>4. CASE RemovePart
  <2>1. step \in Steps /\ IsLatest(step) /\ IsLatest(step)' /\ UNCHANGED <<pc, step>>
    BY <1>4, <1>t DEF RemovePart, StepOK, IInv, PruneBelow, runVars
  <2> QED
    BY <1>t, <2>1, LatestIs, LatestIsNext
<1>5. CASE SaveOver \/ Crash
  <2>1. UNCHANGED Latest
    BY <1>5, LatestUnchanged DEF SaveOver, Crash, diskVars
  <2>2. pc # "down" /\ pc' \in {"down", "train"} /\ UNCHANGED step
    BY <1>5, Zenon DEF SaveOver, Crash, runVars
  <2> QED
    BY <1>t, <2>1, <2>2 DEF Register!Stop, Register!Down
<1>6. CASE \/ InitTmp \/ WriteWeights \/ WriteOptimizer \/ WriteDataloader
           \/ ChooseVictims \/ TakeVictim \/ VictimGone
  <2>1. UNCHANGED <<done, step>> /\ pc # "down" /\ pc' # "down"
    BY <1>6 DEF InitTmp, WriteWeights, WriteOptimizer, WriteDataloader,
                ChooseVictims, TakeVictim, VictimGone, diskVars, runVars
  <2> QED
    BY <2>1, LatestUnchanged
<1>7. CASE MoveAside \/ RenameRaises \/ Replace \/ DeleteOld \/ OldDeleted
  <2>1. pc = "finalize" => ~Exists(done[step])
    BY <1>t DEF IInv, StepOK, Ahead, Steps
  <2> QED
    BY <1>7, <2>1 DEF MoveAside, RenameRaises, Replace, DeleteOld, OldDeleted,
                      IInv, NothingReplaced
<1>8. CASE UNCHANGED vars
  BY <1>8, LatestUnchanged DEF vars, diskVars, runVars
<1> QED
  BY <1>1, <1>2, <1>3, <1>4, <1>5, <1>6, <1>7, <1>8 DEF Next

(* To the training loop the checkpoint directory is a register that        *)
(* survives crashes: a run goes on from the step published last.           *)
THEOREM ImplementsRegister ==
  ASSUME ~AnyStep PROVE Spec => KeepsRegister
<1>1. Init => Register!Init
  BY DEF Init, Register!Init, Register!Down, Latest, Exists, NoDir
<1>2. IInv /\ IInv' /\ [Next]_vars => [Register!Next]_Register!vars
  BY NextRefines DEF Register!vars, Runner
<1> QED
  BY InductiveInvariant, <1>1, <1>2, PTL DEF Spec, Register!Spec, KeepsRegister

-----------------------------------------------------------------------------
(* What is kept.  remove_old_checkpoints goes by the infos it read before  *)
(* it removed anything: what it relies on while it removes one checkpoint  *)
(* after another is that the best one is not among those it chose.         *)

InfoSaved ==
    \A n \in Steps : done[n]["info"] \in 0 .. Save /\ tmp[n]["info"] \in 0 .. Save

BestIsNoVictim ==
    KeepTopK > 0 /\ victims # {} =>
        \E b \in History \ victims : \A n \in History : n = b \/ Better(b, n)

NoVictims == pc # "remove" => victims = {}

BestInv == IInv /\ InfoSaved /\ BestIsNoVictim /\ NoVictims

(* A set of naturals has a least element.                                  *)
LEMMA LeastExists ==
  ASSUME NEW S \in SUBSET Nat, S # {}
  PROVE  \E x \in S : \A y \in S : x <= y
<1> DEFINE R == OpToRel(<, Nat)
<1>1. R = {ss \in Nat \X Nat : ss[1] < ss[2]}
  BY DEF OpToRel
<1>2. IsWellFoundedOn(R, Nat)
  BY NatLessThanWellFounded DEF OpToRel
<1>3. PICK x \in S : \A y \in S : ~(<<y, x>> \in R)
  <2> HIDE DEF R
  <2> QED
    BY <1>2, WFMin
<1> HIDE DEF R
<1>4. \A y \in S : ~(y < x)
  BY <1>1, <1>3
<1> QED
  BY <1>4

(* Of numbers that have scores, one is before all others by score and then *)
(* by number.                                                              *)
ScoredBy(f, H, N, M) == \A n \in H : f[n] \in 0 .. M /\ n \in 1 .. N

HasBest(H, f) ==
    \E b \in H : \A n \in H : n = b \/ f[b] > f[n] \/ (f[b] = f[n] /\ b > n)

LEMMA BestOf ==
  ASSUME NEW N \in Nat, NEW M \in Nat, NEW H, H # {}, NEW f,
         ScoredBy(f, H, N, M)
  PROVE  HasBest(H, f)
<1> DEFINE less(n) == M - f[n]
           A == {less(n) : n \in H}
<1>1. ASSUME NEW n \in H PROVE f[n] \in 0 .. M /\ n \in 1 .. N
  BY DEF ScoredBy
<1>2. ASSUME NEW n \in H PROVE less(n) \in Nat
  <2>1. PICK v \in 0 .. M : v = f[n]
    BY <1>1
  <2> QED
    BY <2>1
<1>3. PICK h \in H : \A n \in H : less(h) <= less(n)
  <2> HIDE DEF less
  <2>1. A \in SUBSET Nat /\ A # {}
    BY <1>2
  <2> HIDE DEF A
  <2>2. PICK x \in A : \A y \in A : x <= y
    BY <2>1, LeastExists
  <2> QED
    BY <2>2 DEF A
<1>4. ASSUME NEW n \in H PROVE f[n] <= f[h]
  <2>1. PICK v \in 0 .. M, w \in 0 .. M : v = f[n] /\ w = f[h]
    BY <1>1
  <2>2. M - w <= M - v
    BY <1>3, <2>1
  <2> QED
    BY <2>1, <2>2
<1> HIDE DEF less
<1> DEFINE K == {n \in H : f[n] = f[h]}
           before(n) == N - n
           B == {before(n) : n \in K}
<1>5. PICK b \in K : \A n \in K : before(b) <= before(n)
  <2>1. \A n \in K : before(n) \in Nat
    BY <1>1
  <2> HIDE DEF before
  <2>2. B \in SUBSET Nat /\ B # {}
    BY <2>1
  <2> HIDE DEF B
  <2>3. PICK x \in B : \A y \in B : x <= y
    BY <2>2, LeastExists
  <2> QED
    BY <2>3 DEF B
<1>6. ASSUME NEW n \in K PROVE n <= b
  BY <1>1, <1>5
<1>7. ASSUME NEW n \in H, n # b PROVE f[b] > f[n] \/ (f[b] = f[n] /\ b > n)
  <2>1. PICK v \in 0 .. M, w \in 0 .. M : v = f[n] /\ w = f[b]
    BY <1>1
  <2>2. v <= w
    BY <1>4, <2>1
  <2>3. v = w => n <= b
    BY <1>6, <2>1
  <2>4. n \in 1 .. N /\ b \in 1 .. N
    BY <1>1
  <2> QED
    BY <1>7, <2>1, <2>2, <2>3, <2>4
<1> QED
  BY <1>7 DEF HasBest

(* Every checkpoint with an info has a score.                              *)
LEMMA Scored ==
  ASSUME TypeOK, InfoSaved, NEW n \in History
  PROVE  score[done[n]["info"]] \in 0 .. MaxScore /\ n \in 1 .. MaxSteps
<1>1. n \in Steps /\ done[n]["info"] # 0
  BY Zenon DEF History
<1>2. done[n]["info"] \in 0 .. Len(score)
  BY <1>1 DEF InfoSaved, Save
<1>3. score \in Seq(0 .. MaxScore)
  BY DEF TypeOK
<1> DEFINE i == done[n]["info"]
<1>4. i \in 1 .. Len(score)
  <2> HIDE DEF i
  <2>1. i \in 0 .. Len(score) /\ i # 0
    BY <1>1, <1>2 DEF i
  <2> QED
    BY <2>1, <1>3
<1> HIDE DEF i
<1>5. score[i] \in 0 .. MaxScore
  BY <1>3, <1>4, ElementOfSeq
<1> QED
  BY <1>1, <1>5 DEF i, Steps

(* Checkpoints with an info have a best one.                               *)
LEMMA BestExists ==
  ASSUME TypeOK, InfoSaved, History # {}
  PROVE  \E b \in History : \A n \in History : n = b \/ Better(b, n)
<1> DEFINE f == [n \in History |-> score[done[n]["info"]]]
<1>1. f \in [History -> 0 .. MaxScore] /\ History \in SUBSET (1 .. MaxSteps)
  BY Scored
<1>2. MaxSteps \in Nat /\ MaxScore \in Nat
  BY CheckpointAssumption
<1>3. \E b \in History :
         \A n \in History : n = b \/ f[b] > f[n] \/ (f[b] = f[n] /\ b > n)
  <2> HIDE DEF f
  <2>1. ScoredBy(f, History, MaxSteps, MaxScore)
    BY <1>1, Zenon DEF ScoredBy
  <2>2. HasBest(History, f)
    BY <1>2, <2>1, BestOf
  <2> QED
    BY <2>2, Zenon DEF HasBest
<1>4. PICK b \in History :
         \A n \in History : n = b \/ f[b] > f[n] \/ (f[b] = f[n] /\ b > n)
  BY <1>3
<1>5. \A n \in History : n = b \/ Better(b, n)
  <2> SUFFICES ASSUME NEW n \in History, n # b PROVE Better(b, n)
    OBVIOUS
  <2>1. f[b] > f[n] \/ (f[b] = f[n] /\ b > n)
    BY <1>4
  <2>2. f[b] = score[done[b]["info"]] /\ f[n] = score[done[n]["info"]]
    OBVIOUS
  <2> HIDE DEF f
  <2> QED
    BY <2>1, <2>2 DEF Better
<1> QED
  BY <1>5

(* Of two, only one comes before the other.                                *)
LEMMA OneBefore ==
  ASSUME NEW x \in Nat, NEW y \in Nat, NEW m \in Nat, NEW n \in Nat,
         m = n => x = y, m = n \/ y > x \/ (y = x /\ n > m)
  PROVE  ~(x > y \/ (x = y /\ m > n))
  OBVIOUS

(* Nothing is before the best one, so that it is not chosen.               *)
LEMMA BestIsKept ==
  ASSUME TypeOK, InfoSaved, KeepTopK > 0, NEW b \in History,
         \A n \in History : n = b \/ Better(b, n)
  PROVE  ~Removable(b)
<1>1. ASSUME NEW n \in History PROVE ~Better(n, b)
  <2> DEFINE x == score[done[n]["info"]]
             y == score[done[b]["info"]]
  <2>1. x \in 0 .. MaxScore /\ y \in 0 .. MaxScore
        /\ n \in 1 .. MaxSteps /\ b \in 1 .. MaxSteps
    BY Scored
  <2>2. n = b \/ y > x \/ (y = x /\ b > n)
    BY DEF Better
  <2> HIDE DEF x, y
  <2>3. ~(x > y \/ (x = y /\ n > b))
    <3>1. x \in Nat /\ y \in Nat /\ n \in Nat /\ b \in Nat
      BY <2>1
    <3>2. n = b => x = y
      BY DEF x, y
    <3> QED
      BY <2>2, <3>1, <3>2, OneBefore, Zenon
  <2> QED
    BY <2>3 DEF Better, x, y
<1>2. Ranked(b) = {}
  BY <1>1, Zenon DEF Ranked
<1>3. Cardinality(Ranked(b)) = 0
  BY <1>2, FS_EmptySet
<1>4. KeepTopK \in Nat
  BY CheckpointAssumption
<1> HIDE DEF Ranked
<1> QED
  BY <1>3, <1>4 DEF Removable

(* A step that leaves the checkpoints, their scores and the choice alone.  *)
LEMMA BestUnchanged ==
  ASSUME BestInv, UNCHANGED <<done, tmp, score, victims>>
  PROVE  InfoSaved' /\ BestIsNoVictim'
<1>1. History' = History
  BY DEF History, Exists
<1>2. \A m, n \in Steps : Better(m, n)' <=> Better(m, n)
  BY DEF Better
<1>3. History \subseteq Steps
  BY DEF History
<1>4. BestIsNoVictim'
  BY <1>1, <1>2, <1>3 DEF BestInv, BestIsNoVictim
<1> QED
  BY <1>4 DEF BestInv, InfoSaved, Save

(* A save goes to its temporary directory, and changes no victims.         *)
LEMMA BestWhileSaving ==
  ASSUME BestInv, victims = {}, victims' = victims, done' = done,
         Save' \in Nat, Save <= Save', tmp' \in [Steps -> Dirs],
         \A n \in Steps : tmp'[n]["info"] \in {tmp[n]["info"], Save'}
  PROVE  InfoSaved' /\ BestIsNoVictim'
<1>1. Save \in Nat
  BY DEF BestInv, IInv, TypeInv, TypeOK, Save
<1>2. \A n \in Steps : /\ done[n]["info"] \in 0 .. Save
                       /\ tmp[n]["info"] \in 0 .. Save
  BY DEF BestInv, InfoSaved
<1>3. \A n \in Steps : /\ done'[n]["info"] \in 0 .. Save'
                       /\ tmp'[n]["info"] \in 0 .. Save'
  BY <1>1, <1>2
<1> QED
  BY <1>3, Zenon DEF InfoSaved, BestIsNoVictim, NoVictims

LEMMA BestStarts == Init => BestInv
<1> SUFFICES ASSUME Init PROVE BestInv
  OBVIOUS
<1>1. Save = 0
  BY DEF Init, Save
<1>2. \A n \in Steps : done[n]["info"] = 0 /\ tmp[n]["info"] = 0
  BY DEF Init, NoDir, Parts
<1> QED
  BY <1>1, <1>2, InitIInv DEF Init, BestInv, InfoSaved, BestIsNoVictim, NoVictims

(* What the removal of a part does to the checkpoints.                     *)
LEMMA RemovesParts ==
  ASSUME IInv, RemovePart
  PROVE  /\ removing \in victims
         /\ \A n \in Steps : done'[n]["info"] \in {0, done[n]["info"]}
         /\ \A n \in Steps : n # removing => done'[n] = done[n]
         /\ History' \subseteq History
         /\ \A n \in History' : done'[n]["info"] = done[n]["info"]
         /\ \A n \in History : n # removing => n \in History'
<1>1. removing \in victims /\ removing \in Steps /\ done \in [Steps -> Dirs]
  BY DEF IInv, PruneBelow, RemovePart, TypeInv, TypeOK
<1>2. PICK p \in Parts : done' = [done EXCEPT ![removing][p] = 0]
  BY DEF RemovePart
<1>3. \A n \in Steps : n # removing => done'[n] = done[n]
  BY <1>1, <1>2
<1>4. \A n \in Steps : /\ done'[n]["info"] \in {0, done[n]["info"]}
                       /\ done'[n]["dir"] \in {0, done[n]["dir"]}
  BY <1>1, <1>2 DEF Dirs, Parts
<1>5. /\ History' \subseteq History
      /\ \A n \in History' : done'[n]["info"] = done[n]["info"]
      /\ \A n \in History : n # removing => n \in History'
  BY <1>3, <1>4 DEF History, Exists
<1> QED
  BY <1>1, <1>3, <1>4, <1>5

(* No step makes the best one a victim, nor removes it.                    *)
LEMMA BestKeeps ==
  ASSUME ~AnyStep, BestInv, [Next]_vars
  PROVE  BestInv'
<1> USE DEF BestInv
<1>i. IInv' /\ IInv /\ TypeOK /\ TypeOK'
  BY NextIInv DEF IInv, TypeInv
<1>n. NoVictims'
  BY Zenon
  DEF Next, Resume, TrainStep, InitTmp, WriteWeights, WriteOptimizer,
      WriteDataloader, Finalize, MoveAside, RenameRaises, Replace, DeleteOld,
      OldDeleted, ChooseVictims, TakeVictim, RemovePart, VictimGone, SaveOver,
      Crash, NoVictims, vars, pruneVars
<1>1. CASE Resume \/ TrainStep \/ TakeVictim \/ SaveOver \/ UNCHANGED vars
  <2>1. UNCHANGED <<done, tmp, score, victims>>
    BY <1>1, Zenon
    DEF Resume, TrainStep, TakeVictim, SaveOver, vars, diskVars, pruneVars
  <2> QED
    BY <1>i, <1>n, <2>1, BestUnchanged
<1>2. CASE Crash
  <2>1. UNCHANGED <<done, tmp, score>> /\ victims' = {}
    BY <1>2 DEF Crash, diskVars
  <2> QED
    BY <1>i, <1>n, <2>1 DEF InfoSaved, BestIsNoVictim, Save
<1>3. CASE InitTmp
  <2>1. /\ Save' = Save + 1 /\ Save \in Nat /\ step \in Steps
        /\ UNCHANGED <<done, victims>> /\ victims = {}
    BY <1>3, <1>i
    DEF InitTmp, Save, TypeOK, IInv, TypeInv, StepOK, pruneVars, NoVictims
  <2>2. \A n \in Steps : tmp'[n]["info"] \in {tmp[n]["info"], Save'}
    BY <1>3, <1>i, <2>1 DEF InitTmp, TypeOK, Dirs, Parts
  <2> QED
    BY <1>i, <1>n, <2>1, <2>2, BestWhileSaving DEF TypeOK
<1>4. CASE WriteWeights \/ WriteOptimizer \/ WriteDataloader
  <2> USE <1>4 DEF WriteWeights, WriteOptimizer, WriteDataloader
  <2>1. /\ Save' = Save /\ Save \in Nat /\ step \in Steps
        /\ UNCHANGED <<done, victims>> /\ victims = {}
    BY <1>i DEF Save, TypeOK, IInv, TypeInv, StepOK, pruneVars, NoVictims
  <2>2. \E p \in Parts \ {"info"} : WritePart(p)
    BY DEF Parts
  <2>3. \A n \in Steps : tmp'[n]["info"] = tmp[n]["info"]
    BY <1>i, <2>1, <2>2 DEF WritePart, TypeOK, Dirs, Parts
  <2> QED
    BY <1>i, <1>n, <2>1, <2>3, BestWhileSaving DEF TypeOK
<1>5. CASE Finalize
  <2>1. /\ UNCHANGED <<score, victims>> /\ victims = {} /\ step \in Steps
        /\ done' = [done EXCEPT ![step] = tmp[step]]
        /\ tmp' = [tmp EXCEPT ![step] = NoDir]
    BY <1>5, <1>i DEF Finalize, pruneVars, NoVictims, IInv, TypeInv, StepOK
  <2>2. /\ done \in [Steps -> Dirs] /\ tmp \in [Steps -> Dirs]
        /\ NoDir["info"] = 0 /\ Save' = Save /\ Save \in Nat
    BY <1>i, <2>1 DEF TypeOK, NoDir, Parts, Save
  <2>3. InfoSaved'
    BY <2>1, <2>2 DEF InfoSaved
  <2> QED
    BY <1>i, <1>n, <2>1, <2>3 DEF BestIsNoVictim
<1>6. CASE MoveAside \/ RenameRaises \/ Replace \/ DeleteOld \/ OldDeleted
  BY <1>6, <1>i
  DEF MoveAside, RenameRaises, Replace, DeleteOld, OldDeleted, IInv,
      NothingReplaced
<1>7. CASE ChooseVictims
  <2>1. /\ UNCHANGED <<done, tmp, score>>
        /\ victims' = {n \in History : Removable(n)}
    BY <1>7 DEF ChooseVictims, diskVars
  <2>2. InfoSaved' /\ History' = History
    BY <2>1 DEF InfoSaved, Save, History, Exists
  <2>3. \A m, n \in Steps : Better(m, n)' <=> Better(m, n)
    BY <2>1 DEF Better
  <2>4. ASSUME KeepTopK > 0, victims' # {}
        PROVE  \E b \in History : /\ \A n \in History : n = b \/ Better(b, n)
                                  /\ b \notin victims'
    <3>1. PICK b \in History : \A n \in History : n = b \/ Better(b, n)
      BY <1>i, <2>1, <2>4, BestExists
    <3>2. ~Removable(b)
      BY <1>i, <2>4, <3>1, BestIsKept
    <3> QED
      BY <2>1, <3>1, <3>2
  <2>5. BestIsNoVictim'
    BY <2>2, <2>3, <2>4 DEF BestIsNoVictim, History
  <2> QED
    BY <1>i, <1>n, <2>2, <2>5
<1>8. CASE VictimGone
  <2>1. UNCHANGED <<done, tmp, score>> /\ victims' \subseteq victims
    BY <1>8 DEF VictimGone, diskVars
  <2>2. InfoSaved' /\ History' = History
    BY <2>1 DEF InfoSaved, Save, History, Exists
  <2>3. \A m, n \in Steps : Better(m, n)' <=> Better(m, n)
    BY <2>1 DEF Better
  <2>4. BestIsNoVictim'
    BY <2>1, <2>2, <2>3 DEF BestIsNoVictim, History
  <2> QED
    BY <1>i, <1>n, <2>2, <2>4
<1>9. CASE RemovePart
  <2>1. InfoSaved' /\ UNCHANGED <<tmp, score, victims>>
    <3>1. UNCHANGED <<tmp, score, victims>>
      BY <1>9 DEF RemovePart, pruneVars
    <3>2. \A n \in Steps : done'[n]["info"] \in {0, done[n]["info"]}
      BY <1>9, <1>i, RemovesParts
    <3>3. Save' = Save /\ Save \in Nat
      BY <1>i, <3>1 DEF Save, TypeOK
    <3> QED
      BY <3>1, <3>2, <3>3 DEF InfoSaved
  <2>2. BestIsNoVictim'
    <3>1. ASSUME KeepTopK > 0, victims # {}
          PROVE  \E b \in History' \ victims :
                     \A n \in History' : n = b \/ Better(b, n)'
      <4>1. PICK b \in History \ victims :
                   \A n \in History : n = b \/ Better(b, n)
        BY <3>1 DEF BestIsNoVictim
      <4>2. /\ removing \in victims /\ History' \subseteq History
            /\ \A n \in History' : done'[n]["info"] = done[n]["info"]
            /\ \A n \in History : n # removing => n \in History'
        BY <1>9, <1>i, RemovesParts
      <4>3. b \in History'
        BY <4>1, <4>2
      <4>4. \A n \in History' : Better(b, n)' <=> Better(b, n)
        BY <2>1, <4>2, <4>3 DEF Better
      <4> QED
        BY <4>1, <4>2, <4>3, <4>4
    <3> QED
      BY <2>1, <3>1 DEF BestIsNoVictim
  <2> QED
    BY <1>i, <1>n, <2>1, <2>2
<1> QED
  BY <1>1, <1>2, <1>3, <1>4, <1>5, <1>6, <1>7, <1>8, <1>9 DEF Next

LEMMA BestAlways ==
  ASSUME ~AnyStep PROVE Spec => []BestInv
<1>1. BestInv /\ [Next]_vars => BestInv'
  BY BestKeeps
<1> QED
  BY BestStarts, <1>1, PTL DEF Spec

(* What a step leaves in place keeps its score.                            *)
LEMMA ScoreKept ==
  ASSUME TypeOK, InfoSaved, [Next]_vars, NEW n \in History, n \in History',
         done'[n]["info"] = done[n]["info"]
  PROVE  score'[done'[n]["info"]] >= score[done[n]["info"]]
<1>1. score[done[n]["info"]] \in Nat
  BY Scored, CheckpointAssumption
<1>2. CASE InitTmp
  <2>1. PICK s \in 0 .. MaxScore : score' = Append(score, s)
    BY <1>2 DEF InitTmp
  <2>2. score \in Seq(0 .. MaxScore) /\ done[n]["info"] \in 1 .. Len(score)
    BY DEF TypeOK, InfoSaved, History, Save
  <2>3. score'[done[n]["info"]] = score[done[n]["info"]]
    BY <2>1, <2>2
  <2> QED
    BY <1>1, <2>3
<1>3. CASE ~InitTmp
  <2>1. score' = score
    BY <1>3, Zenon
    DEF Next, Resume, TrainStep, WriteWeights, WriteOptimizer,
        WriteDataloader, Finalize, MoveAside, RenameRaises, Replace, DeleteOld,
        OldDeleted, ChooseVictims, TakeVictim, RemovePart, VictimGone, SaveOver,
        Crash, vars
  <2> QED
    BY <1>1, <2>1
<1> QED
  BY <1>2, <1>3

LEMMA BestStays ==
  ASSUME ~AnyStep, BestInv, [Next]_vars, KeepTopK > 0, NEW n \in History
  PROVE  \E m \in History' : score'[done'[m]["info"]] >= score[done[n]["info"]]
<1> USE DEF BestInv
<1>i. IInv /\ TypeOK /\ InfoSaved
  BY DEF IInv, TypeInv
<1>1. CASE Finalize
  <2>1. /\ step \in Steps /\ done' = [done EXCEPT ![step] = tmp[step]]
        /\ ~Exists(done[step]) /\ done \in [Steps -> Dirs]
    BY <1>1, <1>i DEF Finalize, IInv, TypeInv, StepOK, TypeOK
  <2>2. n \in Steps /\ Exists(done[n]) /\ done[n]["info"] # 0
    BY DEF History
  <2>3. done'[n] = done[n]
    BY <2>1, <2>2
  <2>4. n \in History'
    BY <2>2, <2>3 DEF History, Exists
  <2> QED
    BY <1>i, <2>3, <2>4, ScoreKept
<1>2. CASE RemovePart
  <2>1. CASE n # removing
    <3>1. n \in History' /\ done'[n]["info"] = done[n]["info"]
      BY <1>2, <1>i, <2>1, RemovesParts
    <3> QED
      BY <1>i, <3>1, ScoreKept
  <2>2. CASE n = removing
    <3>1. PICK b \in History \ victims : \A m \in History : m = b \/ Better(b, m)
      BY <1>2, <1>i, <2>2, RemovesParts DEF BestIsNoVictim
    <3>2. b # n /\ b \in History' /\ done'[b]["info"] = done[b]["info"]
      BY <1>2, <1>i, <2>2, <3>1, RemovesParts
    <3>3. score'[done'[b]["info"]] >= score[done[b]["info"]]
      BY <1>i, <3>1, <3>2, ScoreKept
    <3>4. score[done[b]["info"]] >= score[done[n]["info"]]
      <4>1. Better(b, n)
        BY <3>1, <3>2
      <4>2. score[done[b]["info"]] \in Nat /\ score[done[n]["info"]] \in Nat
        BY <1>i, <3>1, Scored, CheckpointAssumption
      <4> QED
        BY <4>1, <4>2 DEF Better
    <3>5. score'[done'[b]["info"]] \in Nat
      <4>1. TypeOK' /\ InfoSaved'
        BY <1>i, BestKeeps, NextIInv DEF IInv, TypeInv
      <4>2. /\ done'[b]["info"] \in 0 .. Len(score') /\ done'[b]["info"] # 0
            /\ score' \in Seq(0 .. MaxScore)
        BY <3>2, <4>1 DEF InfoSaved, Save, History, TypeOK
      <4>3. done'[b]["info"] \in 1 .. Len(score')
        BY <4>2
      <4>4. score'[done'[b]["info"]] \in 0 .. MaxScore
        BY <4>2, <4>3, ElementOfSeq
      <4> QED
        BY <4>4, CheckpointAssumption
    <3>6. \A x, y, z \in Nat : x >= y /\ y >= z => x >= z
      OBVIOUS
    <3>7. score[done[b]["info"]] \in Nat /\ score[done[n]["info"]] \in Nat
      BY <1>i, <3>1, Scored, CheckpointAssumption
    <3>8. score'[done'[b]["info"]] >= score[done[n]["info"]]
      BY <3>3, <3>4, <3>5, <3>6, <3>7, Zenon
    <3> QED
      BY <3>2, <3>8
  <2> QED
    BY <2>1, <2>2
<1>3. CASE ~Finalize /\ ~RemovePart
  <2>1. done' = done
    <3>1. ~Replace
      BY <1>i DEF IInv, NothingReplaced, Replace
    <3>2. ~MoveAside
      <4>1. step \in Steps => ~(step < step)
        BY DEF Steps
      <4> QED
        BY <1>i, <4>1, Zenon DEF IInv, Ahead, MoveAside, TypeInv, StepOK
    <3> QED
      BY <1>3, <3>1, <3>2, Zenon
      DEF Next, Resume, TrainStep, InitTmp, WriteWeights, WriteOptimizer,
          WriteDataloader, RenameRaises, DeleteOld, OldDeleted, ChooseVictims,
          TakeVictim, VictimGone, SaveOver, Crash, vars, diskVars
  <2>2. n \in History'
    BY <2>1 DEF History, Exists
  <2> QED
    BY <1>i, <2>1, <2>2, ScoreKept
<1> QED
  BY <1>1, <1>2, <1>3

(* With keep_top_k of one or more, whatever is saved and removed, and      *)
(* wherever a crash interrupts it, the best score on the disk never falls  *)
(* (remove_old_checkpoints).                                               *)
THEOREM KeepsTheBest ==
  ASSUME ~AnyStep PROVE Spec => BestKept
<1>1. BestInv /\ [Next]_vars =>
        [ KeepTopK > 0 =>
            \A n \in History : \E m \in History' :
                score'[done'[m]["info"]] >= score[done[n]["info"]] ]_vars
  BY BestStays
<1> QED
  BY BestAlways, <1>1, PTL DEF Spec, BestKept

-----------------------------------------------------------------------------
(* Saving a step once more.  Here AnyStep may be TRUE: a checkpoint of the *)
(* same step is moved aside, replaced and deleted.  That a whole one is on *)
(* the disk at any moment rests on what the save has written by then.      *)

Written ==
    /\ pc \in {"weights", "optimizer", "dataloader", "finalize", "replace"} =>
          Save # 0 /\ tmp[step]["info"] = Save
    /\ pc \in {"optimizer", "dataloader", "finalize", "replace"} =>
          tmp[step]["weights"] = Save
    /\ pc \in {"finalize", "replace"} => tmp[step]["dataloader"] = Save
    /\ pc = "delete_old" => Complete(done[step])

CopyInv == TypeInv /\ Written

LEMMA CopyStarts == Init => CopyInv
  BY InitTypeInv DEF Init, CopyInv, Written

LEMMA CopyKeeps == CopyInv /\ [Next]_vars => CopyInv'
<1> SUFFICES ASSUME CopyInv, [Next]_vars PROVE CopyInv'
  OBVIOUS
<1> USE DEF CopyInv
<1>0. TypeInv /\ TypeInv' /\ TypeOK
  BY NextTypeInv DEF TypeInv
<1>1. CASE Resume \/ TrainStep \/ OldDeleted \/ ChooseVictims \/ TakeVictim
           \/ RemovePart \/ VictimGone \/ SaveOver \/ Crash \/ RenameRaises
  <2>1. pc' \in {"train", "info", "prune", "remove", "down", "raised"}
    BY <1>1, Zenon
    DEF Resume, TrainStep, OldDeleted, ChooseVictims, TakeVictim, RemovePart,
        VictimGone, SaveOver, Crash, RenameRaises
  <2> QED
    BY <1>0, <2>1 DEF Written
<1>2. CASE InitTmp
  <2>1. /\ Save' = Save + 1 /\ Save \in Nat /\ step \in Steps
        /\ step' = step /\ pc' = "weights"
    BY <1>2, <1>0 DEF InitTmp, Save, TypeOK, TypeInv, StepOK, runVars
  <2>2. tmp'[step]["info"] = Save'
    BY <1>2, <1>0, <2>1 DEF InitTmp, TypeOK, Dirs, Parts
  <2> QED
    BY <1>0, <2>1, <2>2 DEF Written
<1>3. CASE WriteWeights \/ WriteOptimizer \/ WriteDataloader
  <2> USE <1>3 DEF WriteWeights, WriteOptimizer, WriteDataloader
  <2>1. step \in Steps /\ Save' = Save /\ step' = step
    BY <1>0 DEF TypeInv, StepOK, Save, runVars
  <2>2. \A p, q \in Parts : WritePart(p) =>
          tmp'[step][q] = IF p = q THEN Save ELSE tmp[step][q]
    BY <1>0, <2>1 DEF WritePart, TypeOK, Dirs
  <2> QED
    BY <1>0, <2>1, <2>2 DEF Written, Parts
<1>4. CASE MoveAside
  <2>1. UNCHANGED <<tmp, step, score>> /\ pc = "finalize" /\ pc' = "replace"
    BY <1>4 DEF MoveAside, runVars
  <2> QED
    BY <1>0, <2>1 DEF Written, Save
<1>5. CASE Finalize
  <2>1. pc' = "prune"
    BY <1>5 DEF Finalize
  <2> QED
    BY <1>0, <2>1 DEF Written
<1>6. CASE Replace
  <2>1. /\ pc' = "delete_old" /\ step' = step /\ step \in Steps
        /\ done'[step] = tmp[step]
    BY <1>6, <1>0 DEF Replace, runVars, TypeInv, TypeOK, StepOK
  <2>2. Complete(tmp[step])
    BY <1>6 DEF Replace, Written, Complete
  <2> QED
    BY <1>0, <2>1, <2>2 DEF Written, Complete
<1>7. CASE DeleteOld
  <2>1. UNCHANGED <<done, step>> /\ pc = "delete_old" /\ pc' = "delete_old"
    BY <1>7 DEF DeleteOld, runVars
  <2> QED
    BY <1>0, <2>1 DEF Written, Complete
<1>8. CASE UNCHANGED vars
  BY <1>0, <1>8 DEF Written, Complete, vars, diskVars, runVars, Save
<1> QED
  BY <1>1, <1>2, <1>3, <1>4, <1>5, <1>6, <1>7, <1>8 DEF Next

LEMMA CopyStays ==
  ASSUME CopyInv, [Next]_vars, NEW n \in Steps, HasCopy(n)
  PROVE  HasCopy(n)' \/ n = removing
<1> USE DEF CopyInv
<1>0. TypeInv /\ TypeOK /\ done \in [Steps -> Dirs] /\ old \in [Steps -> Dirs]
  BY DEF TypeInv, TypeOK
<1>1. CASE Finalize \/ Replace
  <2>1. /\ step \in Steps /\ done' = [done EXCEPT ![step] = tmp[step]]
        /\ old' = old /\ Complete(tmp[step])
    BY <1>1, <1>0
    DEF Finalize, Replace, TypeInv, StepOK, Written, Complete
  <2>2. done'[n] = IF n = step THEN tmp[step] ELSE done[n]
    BY <1>0, <2>1
  <2> QED
    BY <2>1, <2>2 DEF HasCopy, Complete
<1>2. CASE MoveAside
  <2>1. /\ step \in Steps /\ done' = [done EXCEPT ![step] = NoDir]
        /\ old' = [old EXCEPT ![step] = done[step]]
        /\ old[step]["info"] = 0
    BY <1>2, <1>0 DEF MoveAside, TypeInv, StepOK, Parts
  <2>2. n # step => done'[n] = done[n] /\ old'[n] = old[n]
    BY <1>0, <2>1
  <2>3. n = step => Complete(done[n]) /\ old'[n] = done[n]
    BY <1>0, <2>1 DEF HasCopy, Complete
  <2> QED
    BY <2>2, <2>3 DEF HasCopy, Complete
<1>3. CASE DeleteOld
  <2>1. PICK p \in Parts : old' = [old EXCEPT ![step][p] = 0]
    BY <1>3 DEF DeleteOld
  <2>2. done' = done /\ step \in Steps /\ Complete(done[step])
    BY <1>3, <1>0 DEF DeleteOld, TypeInv, StepOK, Written
  <2>3. n # step => old'[n] = old[n]
    BY <1>0, <2>1, <2>2
  <2> QED
    BY <2>2, <2>3 DEF HasCopy, Complete
<1>4. CASE RemovePart
  <2>1. PICK p \in Parts : done' = [done EXCEPT ![removing][p] = 0]
    BY <1>4 DEF RemovePart
  <2>2. old' = old /\ removing \in Steps
    BY <1>4, <1>0 DEF RemovePart, TypeOK
  <2>3. n # removing => done'[n] = done[n]
    BY <1>0, <2>1, <2>2
  <2> QED
    BY <2>2, <2>3 DEF HasCopy, Complete
<1>5. CASE ~(Finalize \/ Replace \/ MoveAside \/ DeleteOld \/ RemovePart)
  <2>1. UNCHANGED <<done, old>>
    BY <1>5, Zenon
    DEF Next, Resume, TrainStep, InitTmp, WriteWeights, WriteOptimizer,
        WriteDataloader, RenameRaises, OldDeleted, ChooseVictims, TakeVictim,
        VictimGone, SaveOver, Crash, vars, diskVars
  <2> QED
    BY <2>1 DEF HasCopy, Complete
<1> QED
  BY <1>1, <1>2, <1>3, <1>4, <1>5

(* However often a step is saved, and wherever a crash interrupts it, a    *)
(* whole copy of a finished checkpoint is on the disk under one of its two *)
(* names, until it is removed as one too many (finalize_checkpoint).       *)
THEOREM AlwaysACopy == Spec => CopySurvives
<1>1. CopyInv /\ [Next]_vars =>
        [ \A n \in Steps : HasCopy(n) => HasCopy(n)' \/ n = removing ]_vars
  BY CopyStays
<1> QED
  BY CopyStarts, CopyKeeps, <1>1, PTL DEF Spec, CopySurvives
=============================================================================
