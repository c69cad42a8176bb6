-------------------------- MODULE AsyncGRPO_proofs --------------------------
(***************************************************************************)
(* Proofs about AsyncGRPO, for every value of its constants.               *)
(***************************************************************************)
EXTENDS AsyncGRPO, FiniteSetTheorems, TLAPS

(* The trainer's step and weight_version, at each point of its loop.       *)
StepsAgree ==
    /\ tpc \in {"init_refit", "val_start", "validating_start", "fill",
                "sample", "train", "await_prepared", "refit"} =>
          weightVersion = step /\ step < MaxSteps
    /\ tpc \in {"validate", "validating", "finish"} =>
          weightVersion = step + 1 /\ step < MaxSteps

(* The collection thread has a batch whenever it works on one, a reserved  *)
(* target while it hands out prompts, and a prompt for each worker.        *)
HoldsBatch ==
    /\ cpc \notin {"unstarted", "fetch", "stopped"} => batch >= 1
    /\ InBatch => ctarget \in Targets

TypeInv == TypeOK /\ StepsAgree /\ HoldsBatch

LEMMA ConstantTypes ==
    /\ NumPrompts \in Nat /\ NumPrompts >= 1
    /\ MaxAge \in Nat /\ MaxAge >= 1
    /\ StartStep \in Nat /\ MaxSteps \in Nat /\ StartStep < MaxSteps
    /\ NumBatches \in Nat /\ MaxFailures \in Nat /\ InFlight \in BOOLEAN
    /\ MaxInflight \in Nat
  BY StoreAssumption, AsyncAssumption DEF MaxInflight

LEMMA InitTypeInv == Init => TypeInv
  <1> SUFFICES ASSUME Init PROVE TypeInv
    OBVIOUS
  <1> USE ConstantTypes
  <1>1. StoreType
    BY DEF Init, StoreInit, StoreType
  <1>2. FlagType
    BY Zenon DEF Init, FlagType
  <1>3. VersionType
    BY DEF Init, VersionType, Versions, NoVersion
  <1>4. CollType
    BY DEF Init, CollType, Versions, PromptIdx, NoTarget
  <1>5. WorkType
    BY DEF Init, WorkType
  <1>6. MainType
    BY DEF Init, MainType, Messages, Versions
  <1>7. TrainType
    BY DEF Init, TrainType, Versions, Dummy
  <1>8. StepsAgree /\ HoldsBatch
    BY DEF Init, StepsAgree, HoldsBatch, InBatch
  <1> QED
    BY <1>1, <1>2, <1>3, <1>4, <1>5, <1>6, <1>7, <1>8 DEF TypeInv, TypeOK

LEMMA CollectTypeInv == TypeInv /\ Collect => TypeInv'
  <1> SUFFICES ASSUME TypeInv, Collect PROVE TypeInv'
    OBVIOUS
  <1> USE ConstantTypes DEF TypeInv, TypeOK
  <1>1. UNCHANGED <<storeVars, mainVars, trainVars>>
    BY DEF Collect, NextBatch, LoopEnds, ManualGate, RefitGate, LimitAsk,
              LimitCheck, LimitWarn, LimitClear, LimitWait, BatchStart,
              TargetAsk, Reserve, DropBatch, PromptGate, PromptSeesRefit,
              PromptAfterRefit, SpawnWorker, StartWorker
  <1>2. FlagType'
    BY Zenon DEF FlagType, flagVars, mainVars, Collect, NextBatch, LoopEnds,
              ManualGate, RefitGate, LimitAsk, LimitCheck, LimitWarn,
              LimitClear, LimitWait, BatchStart, TargetAsk, Reserve, DropBatch,
              PromptGate, PromptSeesRefit, PromptAfterRefit, SpawnWorker,
              StartWorker
  <1>3. VersionType'
    BY DEF VersionType, flagVars, Collect, NextBatch, LoopEnds, ManualGate,
              RefitGate, LimitAsk, LimitCheck, LimitWarn, LimitClear,
              LimitWait,
              BatchStart, TargetAsk, Reserve, DropBatch, PromptGate,
              PromptSeesRefit, PromptAfterRefit, SpawnWorker, StartWorker
  <1>4. StoreType' /\ MainType' /\ TrainType' /\ StepsAgree'
    BY <1>1 DEF StoreType, MainType, TrainType, StepsAgree, storeVars,
                mainVars, trainVars
  <1>5. CollType' /\ WorkType' /\ HoldsBatch'
    <2> USE DEF CollType, WorkType, HoldsBatch, InBatch, collVars, workVars
    <2>1. CASE NextBatch
      BY <2>1 DEF NextBatch
    <2>2. CASE LoopEnds
      BY <2>2 DEF LoopEnds, flagVars
    <2>3. CASE ManualGate
      BY <2>3 DEF ManualGate
    <2>4. CASE RefitGate
      BY <2>4 DEF RefitGate, VersionType
    <2>5. CASE LimitAsk
      BY <2>5 DEF LimitAsk, StoreType
    <2>6. CASE LimitCheck
      BY <2>6 DEF LimitCheck, Versions
    <2>7. CASE LimitWarn
      BY <2>7 DEF LimitWarn
    <2>8. CASE LimitClear
      BY <2>8 DEF LimitClear
    <2>9. CASE LimitWait
      BY <2>9 DEF LimitWait
    <2>10. CASE BatchStart
      BY <2>10 DEF BatchStart, VersionType
    <2>11. CASE TargetAsk
      BY <2>11 DEF TargetAsk, StoreType
    <2>12. CASE Reserve
      <3>1. PICK t \in OpenTargets(cver, clast) :
                 generating' = generating \union {t} /\ ctarget' = t
        BY <2>12 DEF Reserve
      <3>2. t \in Targets
        BY DEF OpenTargets, TargetWeights, Targets, Versions
      <3> QED
        BY <2>12, <3>1, <3>2 DEF Reserve, Versions
    <2>13. CASE DropBatch
      BY <2>13 DEF DropBatch, BatchOver, Versions, PromptIdx, NoTarget
    <2>14. CASE PromptGate
      BY <2>14 DEF PromptGate
    <2>15. CASE PromptSeesRefit
      BY <2>15 DEF PromptSeesRefit
    <2>16. CASE PromptAfterRefit
      BY <2>16 DEF PromptAfterRefit, VersionType
    <2>17. CASE SpawnWorker
      <3>1. <<batch, cidx>> \in GroupIds
        BY <2>17 DEF SpawnWorker, GroupIds
      <3> DEFINE new == [id |-> <<batch, cidx>>, gen |-> cver, tgt |-> ctarget,
                         born |-> Dummy, pc |-> "new", tracked |-> TRUE]
      <3>2. new \in Workers
        BY <2>17, <3>1 DEF SpawnWorker, Workers
      <3>3. workers' = workers \union {new}
        BY <2>17 DEF SpawnWorker
      <3>4. WorkType'
        <4> HIDE DEF new
        <4> QED
          BY <2>17, <3>2, <3>3 DEF SpawnWorker
      <3> QED
        BY <2>17, <3>4 DEF SpawnWorker
    <2>18. CASE StartWorker
      <3>1. PICK w \in workers :
                 workers' = (workers \ {w}) \union
                    {[w EXCEPT !.pc = "rollout", !.born = engine]}
        BY <2>18 DEF StartWorker
      <3>2. [w EXCEPT !.pc = "rollout", !.born = engine] \in Workers
        BY DEF Workers, TrainType
      <3>3. WorkType'
        BY <2>18, <3>1, <3>2 DEF StartWorker
      <3> QED
        BY <2>18, <3>3 DEF StartWorker, MorePrompts, BatchOver, Versions,
                           PromptIdx, NoTarget
    <2> QED
      BY <2>1, <2>2, <2>3, <2>4, <2>5, <2>6, <2>7, <2>8, <2>9, <2>10,
              <2>11, <2>12, <2>13, <2>14, <2>15, <2>16, <2>17, <2>18 DEF Collect
  <1> QED
    BY <1>2, <1>3, <1>4, <1>5

LEMMA WorkerTypeInv ==
  ASSUME TypeInv, NEW w \in workers, WorkerStep(w)
  PROVE  TypeInv'
  <1> USE ConstantTypes DEF TypeInv, TypeOK
  <1>1. UNCHANGED <<flagVars, collVars, mainVars, trainVars>>
    BY DEF WorkerStep, vars, RolloutFails, PushGroup, PushRefused,
              PushAbandoned, ReleaseTarget, CleanupTarget, ExitWorker
  <1>2. FlagType'
    BY <1>1, Zenon DEF FlagType, flagVars, mainVars
  <1>3. VersionType' /\ CollType' /\ HoldsBatch' /\ MainType' /\ TrainType'
        /\ StepsAgree'
    BY <1>1 DEF VersionType, CollType, HoldsBatch, InBatch, MainType,
          TrainType,
                StepsAgree, flagVars, collVars, mainVars, trainVars
  <1>4. StoreType'
    <2>1. CASE PushGroup(w)
      <3> DEFINE e == [item |-> [id |-> w.id, born |-> w.born], gen |-> w.gen,
                       tgt |-> w.tgt, at |-> arrivals + 1]
      <3>1. e \in Entries
        BY DEF Entries, Items, Workers, WorkType, StoreType
      <3>2. entries' = entries \union {e} /\ arrivals' = arrivals + 1
            /\ lastTarget' \in {lastTarget, w.tgt}
        BY <2>1 DEF PushGroup, Push
      <3>3. w.tgt \in Targets
        BY DEF WorkType, Workers
      <3> HIDE DEF e
      <3> QED
        BY <3>1, <3>2, <3>3 DEF StoreType
    <2>2. CASE ~PushGroup(w)
      BY <2>2 DEF StoreType, storeVars, vars, WorkerStep, RolloutFails,
            PushRefused,
              PushAbandoned, ReleaseTarget, CleanupTarget, ExitWorker
    <2> QED
      BY <2>1, <2>2
  <1>5. WorkType'
    <2>1. ASSUME NEW pc \in {"rollout", "release", "cleanup", "exit"}, Becomes(w, pc)
          PROVE  workers' \subseteq Workers
      <3>1. [w EXCEPT !.pc = pc] \in Workers
        BY DEF WorkType, Workers
      <3> QED
        BY <2>1, <3>1 DEF Becomes, WorkType
    <2>2. CASE RolloutFails(w)
      BY <2>1, <2>2 DEF RolloutFails, WorkType
    <2>3. CASE PushGroup(w)
      <3>1. workers' \subseteq Workers
        BY <2>1, <2>3 DEF PushGroup
      <3> QED
        BY <2>3, <3>1 DEF PushGroup, WorkType
    <2>4. CASE PushRefused(w)
      BY <2>4 DEF PushRefused, WorkType, workVars, vars
    <2>5. CASE PushAbandoned(w)
      BY <2>1, <2>5 DEF PushAbandoned, WorkType
    <2>6. CASE ReleaseTarget(w)
      BY <2>1, <2>6 DEF ReleaseTarget, WorkType
    <2>7. CASE CleanupTarget(w)
      BY <2>1, <2>7 DEF CleanupTarget, WorkType
    <2>8. CASE ExitWorker(w)
      BY <2>8 DEF ExitWorker, WorkType
    <2> QED
      BY <2>2, <2>3, <2>4, <2>5, <2>6, <2>7, <2>8 DEF WorkerStep
  <1> QED
    BY <1>2, <1>3, <1>4, <1>5

LEMMA ServeTypeInv == TypeInv /\ Serve => TypeInv'
  <1> SUFFICES ASSUME TypeInv, Serve PROVE TypeInv'
    OBVIOUS
  <1> USE ConstantTypes DEF TypeInv, TypeOK
  <1>1. UNCHANGED <<storeVars, trainVars>>
    BY DEF Serve, StartCollection, SetWeightVersion, WakeCollection, Pause,
              Resume, PrepareForRefit, PollPending, ResumeAfterRefit
  <1>2. StoreType' /\ TrainType' /\ StepsAgree'
    BY <1>1 DEF StoreType, TrainType, StepsAgree, storeVars, trainVars
  <1>3. FlagType'
    BY Zenon DEF FlagType, flagVars, Serve, StartCollection, SetWeightVersion,
              WakeCollection, Pause, Resume, PrepareForRefit, PollPending,
              ResumeAfterRefit
  <1>4. ASSUME NEW op, Receive(op)
        PROVE  /\ mailbox' \in Seq(Messages)
               /\ op = "set_weight_version" => Head(mailbox).v \in Versions
    BY <1>4 DEF Receive, MainType, Messages
  <1>5. VersionType'
    <2>1. CASE SetWeightVersion
      BY <2>1, <1>4 DEF SetWeightVersion, VersionType
    <2>2. CASE ~SetWeightVersion
      BY <2>2 DEF VersionType, flagVars, Serve, StartCollection,
            WakeCollection,
              Pause, Resume, PrepareForRefit, PollPending, ResumeAfterRefit
    <2> QED
      BY <2>1, <2>2
  <1>6. CollType' /\ HoldsBatch'
    <2>1. CASE StartCollection
      BY <2>1 DEF StartCollection, CollType, HoldsBatch, InBatch
    <2>2. CASE ~StartCollection
      BY <2>2 DEF CollType, HoldsBatch, InBatch, collVars, Serve,
            SetWeightVersion,
              WakeCollection, Pause, Resume, PrepareForRefit, PollPending,
              ResumeAfterRefit
    <2> QED
      BY <2>1, <2>2
  <1>7. WorkType'
    <2>1. CASE PollPending
      <3>1. workers' = {IF w.pc = "new" THEN [w EXCEPT !.tracked = FALSE] ELSE w :
                           w \in workers}
        BY <2>1 DEF PollPending
      <3>2. \A w \in Workers : [w EXCEPT !.tracked = FALSE] \in Workers
        BY DEF Workers
      <3>3. workers' \subseteq Workers
        BY <3>1, <3>2 DEF WorkType
      <3> QED
        BY <2>1, <3>3 DEF PollPending, WorkType
    <2>2. CASE ~PollPending
      BY <2>2 DEF WorkType, workVars, Serve, StartCollection, SetWeightVersion,
              WakeCollection, Pause, Resume, PrepareForRefit, ResumeAfterRefit
    <2> QED
      BY <2>1, <2>2
  <1>8. MainType'
    <2>1. CASE StartCollection
      BY <2>1, <1>4 DEF StartCollection, MainType
    <2>2. CASE SetWeightVersion
      BY <2>2, <1>4 DEF SetWeightVersion, MainType
    <2>3. CASE WakeCollection
      BY <2>3 DEF WakeCollection, MainType
    <2>4. CASE Pause
      BY <2>4, <1>4 DEF Pause, MainType
    <2>5. CASE Resume
      BY <2>5, <1>4 DEF Resume, MainType
    <2>6. CASE PrepareForRefit
      BY <2>6, <1>4 DEF PrepareForRefit, MainType
    <2>7. CASE PollPending
      BY <2>7 DEF PollPending, MainType
    <2>8. CASE ResumeAfterRefit
      BY <2>8, <1>4 DEF ResumeAfterRefit, MainType
    <2> QED
      BY <2>1, <2>2, <2>3, <2>4, <2>5, <2>6, <2>7, <2>8 DEF Serve
  <1> QED
    BY <1>2, <1>3, <1>5, <1>6, <1>7, <1>8

LEMMA TrainTypeInv == TypeInv /\ Train => TypeInv'
  <1> SUFFICES ASSUME TypeInv, Train PROVE TypeInv'
    OBVIOUS
  <1> USE ConstantTypes DEF TypeInv, TypeOK
  <1>1. UNCHANGED <<flagVars, collVars, workVars>>
    BY DEF vars, Train, InitialRefit, BeginValidationAtStart,
              EndValidationAtStart, BufferFilled, FillStalls, TakeBatch,
              SampleStalls, SampleRaises, TrainStep, RefitMayBegin, RefitDone,
              BeginValidation, EndValidation, FinishStep
  <1>2. VersionType' /\ CollType' /\ HoldsBatch' /\ WorkType'
    BY <1>1 DEF VersionType, CollType, HoldsBatch, InBatch, WorkType,
                flagVars, collVars, workVars
  <1>3. FlagType'
    <2>1. prepared' \in BOOLEAN
      BY Zenon DEF FlagType, mainVars, vars, Train, InitialRefit,
              BeginValidationAtStart, EndValidationAtStart, BufferFilled,
              FillStalls, TakeBatch, SampleStalls, SampleRaises, TrainStep,
              RefitMayBegin, RefitDone, BeginValidation, EndValidation,
              FinishStep
    <2> QED
      BY <1>1, <2>1, Zenon DEF FlagType, flagVars
  <1>4. StoreType' /\ training' \subseteq Entries
    <2>1. CASE TakeBatch
      <3>1. PICK S \in SUBSET Intended(weightVersion) :
                 Sample(weightVersion, S) /\ training' = S
        BY <2>1 DEF TakeBatch
      <3>2. S \subseteq entries
        BY DEF Intended
      <3> QED
        BY <3>1, <3>2 DEF Sample, StoreType
    <2>2. CASE ~TakeBatch
      BY <2>2 DEF StoreType, TrainType, storeVars, vars, trainVars, Train,
              InitialRefit, BeginValidationAtStart, EndValidationAtStart,
              BufferFilled, FillStalls, SampleStalls, SampleRaises, TrainStep,
              RefitMayBegin, RefitDone, BeginValidation, EndValidation,
              FinishStep
    <2> QED
      BY <2>1, <2>2
  <1>5. ASSUME NEW ops \in Seq(Messages), Send(ops)
        PROVE  mailbox' \in Seq(Messages)
    BY <1>5 DEF Send, MainType
  <1>6. \A op \in {"pause", "resume", "prepare_for_refit"} :
           <<Call(op)>> \in Seq(Messages)
    BY DEF Call, Messages
  <1>7. ASSUME NEW v \in Versions
        PROVE  CallsAfterRefit(v) \in Seq(Messages)
    BY DEF CallsAfterRefit, Call, Messages
  <1>8. MainType'
    <2>1. CASE InitialRefit
      BY <2>1 DEF InitialRefit, MainType, mainVars
    <2>2. CASE BeginValidationAtStart
      BY <2>2, <1>5, <1>6 DEF BeginValidationAtStart, MainType
    <2>3. CASE EndValidationAtStart
      BY <2>3, <1>5, <1>6 DEF EndValidationAtStart, MainType
    <2>4. CASE BufferFilled
      BY <2>4 DEF BufferFilled, MainType, mainVars
    <2>5. CASE FillStalls
      BY <2>5 DEF FillStalls, MainType, mainVars, vars
    <2>6. CASE TakeBatch
      BY <2>6 DEF TakeBatch, MainType, mainVars
    <2>7. CASE SampleStalls
      BY <2>7 DEF SampleStalls, MainType, mainVars, vars
    <2>8. CASE SampleRaises
      BY <2>8 DEF SampleRaises, MainType, mainVars
    <2>9. CASE TrainStep
      BY <2>9, <1>5, <1>6 DEF TrainStep, MainType
    <2>10. CASE RefitMayBegin
      BY <2>10 DEF RefitMayBegin, MainType, mainVars
    <2>11. CASE RefitDone
      <3>1. weightVersion + 1 \in Versions
        BY <2>11 DEF RefitDone, StepsAgree, TrainType, Versions
      <3> QED
        BY <2>11, <1>5, <1>7, <3>1 DEF RefitDone, MainType, Send
    <2>12. CASE BeginValidation
      BY <2>12, <1>5, <1>6 DEF BeginValidation, MainType
    <2>13. CASE EndValidation
      BY <2>13, <1>5, <1>6 DEF EndValidation, MainType
    <2>14. CASE FinishStep
      BY <2>14 DEF FinishStep, MainType, mainVars
    <2> QED
      BY <2>1, <2>2, <2>3, <2>4, <2>5, <2>6, <2>7, <2>8, <2>9, <2>10,
              <2>11, <2>12, <2>13, <2>14 DEF Train
  <1>9. TrainType' /\ StepsAgree'
    <2> USE <1>4 DEF TrainType, StepsAgree
    <2>1. CASE InitialRefit
      BY <2>1 DEF InitialRefit
    <2>2. CASE BeginValidationAtStart
      BY <2>2 DEF BeginValidationAtStart
    <2>3. CASE EndValidationAtStart
      BY <2>3 DEF EndValidationAtStart
    <2>4. CASE BufferFilled
      BY <2>4 DEF BufferFilled
    <2>5. CASE FillStalls
      BY <2>5 DEF FillStalls, vars, trainVars
    <2>6. CASE TakeBatch
      BY <2>6 DEF TakeBatch
    <2>7. CASE SampleStalls
      BY <2>7 DEF SampleStalls, vars, trainVars
    <2>8. CASE SampleRaises
      BY <2>8 DEF SampleRaises
    <2>9. CASE TrainStep
      BY <2>9 DEF TrainStep
    <2>10. CASE RefitMayBegin
      BY <2>10 DEF RefitMayBegin
    <2>11. CASE RefitDone
      BY <2>11 DEF RefitDone, Versions, ValidationDue
    <2>12. CASE BeginValidation
      BY <2>12 DEF BeginValidation
    <2>13. CASE EndValidation
      BY <2>13 DEF EndValidation
    <2>14. CASE FinishStep
      BY <2>14 DEF FinishStep, Versions
    <2> QED
      BY <2>1, <2>2, <2>3, <2>4, <2>5, <2>6, <2>7, <2>8, <2>9, <2>10,
              <2>11, <2>12, <2>13, <2>14 DEF Train
  <1> QED
    BY <1>2, <1>3, <1>4, <1>8, <1>9

LEMMA StutterTypeInv == TypeInv /\ UNCHANGED vars => TypeInv'
  <1> SUFFICES ASSUME TypeInv, UNCHANGED vars PROVE TypeInv'
    OBVIOUS
  <1> USE DEF TypeInv, TypeOK, vars
  <1>1. StoreType'
    BY DEF StoreType, storeVars
  <1>2. FlagType'
    BY Zenon DEF FlagType, flagVars, mainVars
  <1>3. VersionType' /\ CollType' /\ HoldsBatch'
    BY DEF VersionType, CollType, HoldsBatch, InBatch, flagVars, collVars
  <1>4. WorkType' /\ MainType'
    BY DEF WorkType, MainType, workVars, mainVars
  <1>5. TrainType' /\ StepsAgree'
    BY DEF TrainType, StepsAgree, trainVars
  <1> QED
    BY <1>1, <1>2, <1>3, <1>4, <1>5

(* Every variable keeps its type, for any batch size, age bound, number of *)
(* steps and number of failing rollouts.                                   *)
THEOREM TypeCorrect == Spec => []TypeOK
  <1>1. Init => TypeInv
    BY InitTypeInv
  <1>2. TypeInv /\ [Next]_vars => TypeInv'
    BY CollectTypeInv, ServeTypeInv, TrainTypeInv, WorkerTypeInv,
       StutterTypeInv DEF Next, Terminated
  <1>3. TypeInv => TypeOK
    BY DEF TypeInv
  <1> QED
    BY <1>1, <1>2, <1>3, PTL DEF Spec

(* The versions the collector can know of: those the engine has received,  *)
(* and the first one, which it is told before the engine is loaded.        *)
Known(v, eng) == v <= eng \/ (eng = Dummy /\ v = StartStep)

Honest(gen, born, eng) ==
    /\ gen <= born \/ (born = Dummy /\ gen = StartStep)
    /\ born <= eng

Horizon == weightVersion + MaxAge

EngineInv ==
    /\ engine \in {weightVersion, Dummy}
    /\ engine = Dummy => tpc = "init_refit"

MailInv == \A i \in 1 .. Len(mailbox) :
              mailbox[i].op = "set_weight_version" => Known(mailbox[i].v, engine)

CollInv == Known(version, engine) /\ Known(cver, engine) /\ ctarget <= Horizon

WorkInv == \A w \in workers :
              /\ Known(w.gen, engine)
              /\ w.tgt <= Horizon
              /\ w.pc # "new" => Honest(w.gen, w.born, engine)

StoreInv == /\ lastTarget <= Horizon
            /\ \A e \in entries : Honest(e.gen, e.item.born, engine) /\ e.tgt <= Horizon

TrainInv == /\ \A e \in training : Honest(e.gen, e.item.born, engine)
            /\ TrainedBatchFresh

FreshInv ==
    TypeInv /\ EngineInv /\ MailInv /\ CollInv /\ WorkInv /\ StoreInv /\ TrainInv

LEMMA InitFreshInv == Init => FreshInv
  <1> SUFFICES ASSUME Init PROVE FreshInv
    OBVIOUS
  <1> USE ConstantTypes DEF Known, Horizon, Dummy
  <1>1. TypeInv
    BY InitTypeInv
  <1>2. EngineInv /\ CollInv /\ WorkInv /\ TrainInv
    BY DEF Init, EngineInv, CollInv, WorkInv, TrainInv, TrainedBatchFresh,
           NoTarget
  <1>3. MailInv
    BY DEF Init, MailInv
  <1>4. StoreInv
    BY DEF Init, StoreInit, StoreInv
  <1> QED
    BY <1>1, <1>2, <1>3, <1>4 DEF FreshInv

LEMMA CollectFreshInv == FreshInv /\ Collect => FreshInv'
  <1> SUFFICES ASSUME FreshInv, Collect PROVE FreshInv'
    OBVIOUS
  <1> USE ConstantTypes DEF FreshInv
  <1>1. TypeInv'
    BY CollectTypeInv
  <1>2. UNCHANGED <<storeVars, mainVars, trainVars, version>>
    BY DEF Collect, flagVars, NextBatch, LoopEnds, ManualGate, RefitGate,
              LimitAsk, LimitCheck, LimitWarn, LimitClear, LimitWait,
              BatchStart, TargetAsk, Reserve, DropBatch, PromptGate,
              PromptSeesRefit, PromptAfterRefit, SpawnWorker, StartWorker
  <1>3. EngineInv' /\ MailInv' /\ StoreInv' /\ TrainInv'
    BY <1>2 DEF EngineInv, MailInv, StoreInv, TrainInv, Known, Honest, Horizon,
                TrainedBatchFresh, storeVars, mainVars, trainVars
  <1>4. CollInv'
    <2>1. Known(version', engine') /\ Known(StartStep, engine) /\ StartStep <= Horizon
      BY <1>2 DEF Known, CollInv, trainVars, Horizon, EngineInv, TypeInv,
            TypeOK,
                  TrainType, Versions, Dummy
    <2>2. Known(cver', engine')
      BY <1>2, <2>1 DEF CollInv, Known, trainVars, Collect, collVars,
            BatchOver,
              NextBatch, LoopEnds, ManualGate, RefitGate, LimitAsk, LimitCheck,
              LimitWarn, LimitClear, LimitWait, BatchStart, TargetAsk, Reserve,
              DropBatch, PromptGate, PromptSeesRefit, PromptAfterRefit,
              SpawnWorker, StartWorker
    <2>3. ctarget' <= Horizon
      <3>1. CASE Reserve
        <4>1. ctarget' \in TargetWeights(cver)
          BY <3>1 DEF Reserve, OpenTargets
        <4>2. cver <= weightVersion
          BY DEF CollInv, Known, EngineInv, TypeInv, TypeOK, TrainType,
                CollType,
                 Versions, Dummy
        <4> QED
          BY <4>1, <4>2, <2>1 DEF TargetWeights, Horizon, TypeInv, TypeOK,
                CollType,
                                  TrainType, Versions
      <3>2. CASE ~Reserve
        <4>1. ctarget' = ctarget \/ ctarget' = NoTarget
          <5>1. CASE StartWorker \/ DropBatch
            BY <5>1 DEF StartWorker, DropBatch, BatchOver
          <5>2. CASE ~StartWorker /\ ~DropBatch
            BY <3>2, <5>2 DEF Collect, collVars, NextBatch, LoopEnds,
                  ManualGate, RefitGate,
              LimitAsk, LimitCheck, LimitWarn, LimitClear, LimitWait,
              BatchStart, TargetAsk, PromptGate, PromptSeesRefit,
              PromptAfterRefit, SpawnWorker
          <5> QED
            BY <5>1, <5>2
        <4> QED
          BY <1>2, <4>1, <2>1 DEF CollInv, NoTarget, Horizon, trainVars,
                TypeInv,
                                  TypeOK, TrainType, Versions
      <3> QED
        BY <3>1, <3>2
    <2> QED
      BY <1>2, <2>1, <2>2, <2>3 DEF CollInv, Horizon, trainVars
  <1>5. WorkInv'
    <2>1. Honest(StartStep, Dummy, engine) /\ (\A v : Known(v, engine) => Honest(v, engine, engine))
      BY DEF Honest, Known, EngineInv, TypeInv, TypeOK, TrainType, Versions,
            Dummy
    <2>2. CASE SpawnWorker
      BY <1>2, <2>2 DEF SpawnWorker, WorkInv, CollInv, Known, Honest, Horizon,
                        trainVars
    <2>3. CASE StartWorker
      BY <1>2, <2>1, <2>3 DEF StartWorker, WorkInv, Known, Honest, Horizon,
                              trainVars, TypeInv, TypeOK, WorkType, Workers
    <2>4. CASE ~SpawnWorker /\ ~StartWorker
      <3>1. workers' = workers
        BY <2>4 DEF workVars, Collect, NextBatch, LoopEnds, ManualGate,
              RefitGate,
              LimitAsk, LimitCheck, LimitWarn, LimitClear, LimitWait,
              BatchStart, TargetAsk, Reserve, DropBatch, PromptGate,
              PromptSeesRefit, PromptAfterRefit
      <3> QED
        BY <1>2, <3>1 DEF WorkInv, Known, Honest, Horizon, trainVars
    <2> QED
      BY <2>2, <2>3, <2>4
  <1> QED
    BY <1>1, <1>3, <1>4, <1>5

LEMMA WorkerFreshInv ==
  ASSUME FreshInv, NEW w \in workers, WorkerStep(w)
  PROVE  FreshInv'
  <1> USE ConstantTypes DEF FreshInv
  <1>1. TypeInv'
    BY WorkerTypeInv
  <1>2. UNCHANGED <<flagVars, collVars, mainVars, trainVars>>
    BY DEF WorkerStep, vars, RolloutFails, PushGroup, PushRefused,
              PushAbandoned, ReleaseTarget, CleanupTarget, ExitWorker
  <1>3. EngineInv' /\ MailInv' /\ CollInv' /\ TrainInv'
    BY <1>2 DEF EngineInv, MailInv, CollInv, TrainInv, Known, Honest, Horizon,
                TrainedBatchFresh, flagVars, collVars, mainVars, trainVars
  <1>4. WorkInv'
    <2>1. \A x \in workers' : \E y \in workers :
             /\ x.gen = y.gen /\ x.tgt = y.tgt /\ x.born = y.born
             /\ y.pc = "new" => x.pc = "new"
      BY DEF Becomes, TypeInv, TypeOK, WorkType, Workers, WorkerStep, vars,
              workVars, RolloutFails, PushGroup, PushRefused, PushAbandoned,
              ReleaseTarget, CleanupTarget, ExitWorker
    <2> QED
      BY <1>2, <2>1 DEF WorkInv, Known, Honest, Horizon, trainVars
  <1>5. StoreInv'
    <2>1. CASE PushGroup(w)
      BY <1>2, <2>1 DEF PushGroup, Push, StoreInv, WorkInv, Honest, Horizon,
                        trainVars
    <2>2. CASE ~PushGroup(w)
      <3>1. UNCHANGED storeVars
        BY <2>2 DEF WorkerStep, vars, RolloutFails, PushRefused, PushAbandoned,
              ReleaseTarget, CleanupTarget, ExitWorker
      <3> QED
        BY <1>2, <3>1 DEF StoreInv, Honest, Horizon, storeVars, trainVars
    <2> QED
      BY <2>1, <2>2
  <1> QED
    BY <1>1, <1>3, <1>4, <1>5

LEMMA ServeFreshInv == FreshInv /\ Serve => FreshInv'
  <1> SUFFICES ASSUME FreshInv, Serve PROVE FreshInv'
    OBVIOUS
  <1> USE ConstantTypes DEF FreshInv
  <1>1. TypeInv'
    BY ServeTypeInv
  <1>2. UNCHANGED <<storeVars, trainVars>>
    BY DEF Serve, StartCollection, SetWeightVersion, WakeCollection, Pause,
              Resume, PrepareForRefit, PollPending, ResumeAfterRefit
  <1>3. EngineInv' /\ StoreInv' /\ TrainInv'
    BY <1>2 DEF EngineInv, StoreInv, TrainInv, Honest, Horizon,
                TrainedBatchFresh, storeVars, trainVars
  <1>4. MailInv'
    <2>1. mailbox' = mailbox \/ (mailbox # <<>> /\ mailbox' = Tail(mailbox))
      <3>1. CASE WakeCollection
        BY <3>1 DEF WakeCollection
      <3>2. CASE PollPending
        BY <3>2, Zenon DEF PollPending
      <3>3. CASE \E op : Receive(op)
        BY <3>3 DEF Receive
      <3> QED
        BY <3>1, <3>2, <3>3 DEF Serve, StartCollection, SetWeightVersion,
              Pause, Resume,
              PrepareForRefit, ResumeAfterRefit
    <2>2. mailbox \in Seq(Messages)
      BY DEF TypeInv, TypeOK, MainType
    <2>3. \A i \in 1 .. Len(mailbox') : \E j \in 1 .. Len(mailbox) :
             mailbox'[i] = mailbox[j]
      <3>1. CASE mailbox' = mailbox
        BY <3>1, <2>2
      <3>2. CASE mailbox # <<>> /\ mailbox' = Tail(mailbox)
        <4>1. /\ Len(mailbox) \in Nat /\ Len(mailbox) >= 1
              /\ Len(mailbox') = Len(mailbox) - 1
              /\ \A i \in 1 .. Len(mailbox') : mailbox'[i] = mailbox[i + 1]
          BY <3>2, <2>2
        <4> QED
          BY <4>1
      <3> QED
        BY <2>1, <3>1, <3>2
    <2>4. engine' = engine
      BY <1>2 DEF trainVars
    <2> QED
      BY <2>3, <2>4 DEF MailInv
  <1>5. CollInv'
    <2>1. UNCHANGED <<cver, ctarget>>
      BY DEF collVars, Serve, StartCollection, SetWeightVersion,
              WakeCollection, Pause, Resume, PrepareForRefit, PollPending,
              ResumeAfterRefit
    <2>2. Known(version', engine)
      <3>1. CASE SetWeightVersion
        <4>1. mailbox \in Seq(Messages) /\ mailbox # <<>>
              /\ Head(mailbox).op = "set_weight_version"
              /\ version' = Head(mailbox).v
          BY <3>1 DEF SetWeightVersion, Receive, TypeInv, TypeOK, MainType
        <4> QED
          BY <4>1 DEF MailInv
      <3>2. CASE ~SetWeightVersion
        <4>1. version' = version
          BY <3>2 DEF flagVars, Serve, StartCollection, WakeCollection,
                Pause, Resume,
              PrepareForRefit, PollPending, ResumeAfterRefit
        <4> QED
          BY <4>1 DEF CollInv
      <3> QED
        BY <3>1, <3>2
    <2> QED
      BY <1>2, <2>1, <2>2 DEF CollInv, Known, Horizon, trainVars
  <1>6. WorkInv'
    <2>1. \A x \in workers' : \E y \in workers :
             x.gen = y.gen /\ x.tgt = y.tgt /\ x.born = y.born /\ x.pc = y.pc
      <3>1. CASE PollPending
        BY <3>1 DEF PollPending, TypeInv, TypeOK, WorkType, Workers
      <3>2. CASE ~PollPending
        BY <3>2 DEF workVars, Serve, StartCollection, SetWeightVersion,
              WakeCollection, Pause, Resume, PrepareForRefit, ResumeAfterRefit
      <3> QED
        BY <3>1, <3>2
    <2> QED
      BY <1>2, <2>1 DEF WorkInv, Known, Honest, Horizon, trainVars
  <1> QED
    BY <1>1, <1>3, <1>4, <1>5, <1>6

LEMMA HorizonMoves ==
  \A a, b, c, t \in Int : a <= b /\ t <= a + c => t <= b + c
  OBVIOUS

LEMMA TrainFreshInv == FreshInv /\ Train => FreshInv'
  <1> SUFFICES ASSUME FreshInv, Train PROVE FreshInv'
    OBVIOUS
  <1> USE ConstantTypes DEF FreshInv
  <1>1. TypeInv'
    BY TrainTypeInv
  <1>2. UNCHANGED <<flagVars, collVars, workVars>>
    BY DEF vars, Train, InitialRefit, BeginValidationAtStart,
              EndValidationAtStart, BufferFilled, FillStalls, TakeBatch,
              SampleStalls, SampleRaises, TrainStep, RefitMayBegin, RefitDone,
              BeginValidation, EndValidation, FinishStep
  <1>3. /\ engine \in Int /\ weightVersion \in Int /\ StartStep <= weightVersion
        /\ engine' \in Int /\ weightVersion' \in Int
    BY <1>1 DEF TypeInv, TypeOK, TrainType, Versions, Dummy
  <1>4. EngineInv' /\ engine <= engine' /\ weightVersion <= weightVersion'
        /\ (engine' = Dummy => engine = Dummy)
    <2>1. CASE InitialRefit
      BY <2>1, <1>3 DEF InitialRefit, EngineInv, Dummy
    <2>2. CASE RefitDone
      BY <2>2, <1>3 DEF RefitDone, EngineInv, Dummy, ValidationDue
    <2>3. CASE ~InitialRefit /\ ~RefitDone
      <3>1. engine' = engine /\ weightVersion' = weightVersion
            /\ (tpc = "init_refit" => tpc' = "init_refit")
        BY <2>3 DEF vars, trainVars, Train, BeginValidationAtStart,
              EndValidationAtStart, BufferFilled, FillStalls, TakeBatch,
              SampleStalls, SampleRaises, TrainStep, RefitMayBegin,
              BeginValidation, EndValidation, FinishStep
      <3> QED
        BY <3>1, <1>3 DEF EngineInv
    <2> QED
      BY <2>1, <2>2, <2>3
  <1>5. engine = Dummy => StartStep <= engine' \/ engine' = Dummy
    BY <1>3, <1>4 DEF EngineInv
  <1>6. /\ \A v \in Int : Known(v, engine) => Known(v, engine')
        /\ \A g, b \in Int : Honest(g, b, engine) => Honest(g, b, engine')
        /\ \A t \in Int : t <= Horizon => t <= Horizon'
    <2>1. \A v \in Int : Known(v, engine) => Known(v, engine')
      BY <1>3, <1>4, <1>5 DEF Known
    <2>2. \A g, b \in Int : Honest(g, b, engine) => Honest(g, b, engine')
      BY <1>3, <1>4 DEF Honest
    <2>3. \A t \in Int : t <= Horizon => t <= Horizon'
      <3>1. Horizon = weightVersion + MaxAge /\ Horizon' = weightVersion' + MaxAge
        BY DEF Horizon
      <3>2. MaxAge \in Int
        OBVIOUS
      <3> QED
        BY <3>1, <3>2, <1>3, <1>4, HorizonMoves
    <2> QED
      BY <2>1, <2>2, <2>3
  <1>7. CollInv'
    <2>1. version \in Int /\ cver \in Int /\ ctarget \in Int
      BY DEF TypeInv, TypeOK, VersionType, CollType, Versions, Targets,
            NoTarget
    <2> QED
      BY <1>2, <1>6, <2>1 DEF CollInv, flagVars, collVars, Known
  <1>8. WorkInv'
    <2>1. \A w \in workers : w.gen \in Int /\ w.tgt \in Int /\ w.born \in Int
      BY DEF TypeInv, TypeOK, WorkType, Workers, Versions, Targets, Dummy
    <2> QED
      BY <1>2, <1>6, <2>1 DEF WorkInv, workVars, Known, Honest
  <1>9. \A e \in entries \union training :
           e.gen \in Int /\ e.tgt \in Int /\ e.item.born \in Int
    BY DEF TypeInv, TypeOK, StoreType, TrainType, Entries, Items, Versions,
           Targets, Dummy
  <1>10. lastTarget' = lastTarget /\ entries' \subseteq entries
         /\ training' \subseteq entries \union training
    <2>1. CASE TakeBatch
      BY <2>1 DEF TakeBatch, Sample, Intended
    <2>2. CASE ~TakeBatch
      BY <2>2 DEF storeVars, vars, trainVars, Train, InitialRefit,
              BeginValidationAtStart, EndValidationAtStart, BufferFilled,
              FillStalls, SampleStalls, SampleRaises, TrainStep, RefitMayBegin,
              RefitDone, BeginValidation, EndValidation, FinishStep
    <2> QED
      BY <2>1, <2>2
  <1>11. StoreInv'
    <2>1. lastTarget \in Int
      BY DEF TypeInv, TypeOK, StoreType, Targets
    <2> QED
      BY <1>6, <1>9, <1>10, <2>1 DEF StoreInv, Honest
  <1>12. TrainInv'
    <2>1. \A e \in training' : Honest(e.gen, e.item.born, engine')
      BY <1>6, <1>9, <1>10 DEF TrainInv, StoreInv
    <2>2. TrainedBatchFresh'
      <3>1. CASE TakeBatch
        <4>1. PICK S \in SUBSET Intended(weightVersion) :
                   /\ Cardinality(S) = NumPrompts
                   /\ training' = S
          BY <3>1 DEF TakeBatch, Sample, FirstOf
        <4>2. engine = weightVersion /\ weightVersion = step /\ step' = step
          BY <3>1 DEF TakeBatch, EngineInv, TypeInv, StepsAgree
        <4>3. \A e \in S : /\ e \in entries /\ e.tgt = step
                           /\ e.gen >= step - MaxAge
                           /\ Honest(e.gen, e.item.born, engine)
          BY <4>2, <1>3, <1>9 DEF Intended, MinValidVersion, StoreInv
        <4>4. \A e \in S : /\ e.item.born <= step
                           /\ \/ e.item.born >= step - MaxAge
                              \/ e.item.born = Dummy /\ step <= StartStep + MaxAge
          BY <4>2, <4>3, <1>3, <1>9 DEF Honest
        <4> QED
          BY <4>1, <4>2, <4>3, <4>4 DEF TrainedBatchFresh
      <3>2. CASE ~TakeBatch
        <4>1. tpc' # "train"
          BY <3>2 DEF vars, trainVars, Train, ValidationDue, InitialRefit,
              BeginValidationAtStart, EndValidationAtStart, BufferFilled,
              FillStalls, SampleStalls, SampleRaises, TrainStep, RefitMayBegin,
              RefitDone, BeginValidation, EndValidation, FinishStep
        <4> QED
          BY <4>1 DEF TrainedBatchFresh
      <3> QED
        BY <3>1, <3>2
    <2> QED
      BY <2>1, <2>2 DEF TrainInv
  <1>13. MailInv'
    <2>1. mailbox \in Seq(Messages)
      BY DEF TypeInv, TypeOK, MainType
    <2>2. \A i \in 1 .. Len(mailbox) :
             mailbox[i].op = "set_weight_version" => Known(mailbox[i].v, engine')
      <3>1. \A i \in 1 .. Len(mailbox) :
               mailbox[i].op = "set_weight_version" => mailbox[i].v \in Int
        BY <2>1 DEF Messages, Versions
      <3> QED
        BY <1>6, <3>1 DEF MailInv
    <2>3. CASE RefitDone
      <3>1. Known(weightVersion + 1, engine')
        BY <2>3, <1>3 DEF RefitDone, Known
      <3>2. mailbox' = mailbox \o <<[op |-> "set_weight_version",
                                     v |-> weightVersion + 1],
                                    Call("resume_after_refit")>>
        BY <2>3 DEF RefitDone, Send, CallsAfterRefit
      <3> QED
        BY <2>1, <2>2, <3>1, <3>2 DEF MailInv, Call
    <2>4. CASE ~RefitDone
      <3>1. mailbox' = mailbox
            \/ \E op \in {"pause", "resume", "prepare_for_refit"} :
                  mailbox' = mailbox \o <<Call(op)>>
        BY <2>4 DEF Send, vars, mainVars, Train, InitialRefit,
              BeginValidationAtStart,
              EndValidationAtStart, BufferFilled, FillStalls, TakeBatch,
              SampleStalls, SampleRaises, TrainStep, RefitMayBegin,
              BeginValidation, EndValidation, FinishStep
      <3>2. CASE mailbox' = mailbox
        BY <2>2, <3>2 DEF MailInv
      <3>3. ASSUME NEW op \in {"pause", "resume", "prepare_for_refit"},
                   mailbox' = mailbox \o <<Call(op)>>
            PROVE  MailInv'
        BY <2>1, <2>2, <3>3 DEF MailInv, Call
      <3> QED
        BY <3>1, <3>2, <3>3
    <2> QED
      BY <2>3, <2>4
  <1> QED
    BY <1>1, <1>4, <1>7, <1>8, <1>11, <1>12, <1>13

LEMMA StutterFreshInv == FreshInv /\ UNCHANGED vars => FreshInv'
  <1> SUFFICES ASSUME FreshInv, UNCHANGED vars PROVE FreshInv'
    OBVIOUS
  <1>1. TypeInv'
    BY StutterTypeInv DEF FreshInv
  <1> USE DEF FreshInv, vars, storeVars, trainVars, Honest, Known, Horizon
  <1>2. EngineInv' /\ MailInv' /\ CollInv'
    BY DEF EngineInv, MailInv, CollInv, mainVars, flagVars, collVars
  <1>3. WorkInv' /\ StoreInv' /\ TrainInv'
    BY DEF WorkInv, StoreInv, TrainInv, TrainedBatchFresh, workVars
  <1> QED
    BY <1>1, <1>2, <1>3

LEMMA FreshInvInvariant == Spec => []FreshInv
  <1>1. FreshInv /\ [Next]_vars => FreshInv'
    BY CollectFreshInv, ServeFreshInv, TrainFreshInv, WorkerFreshInv,
       StutterFreshInv DEF Next, Terminated
  <1> QED
    BY InitFreshInv, <1>1, PTL DEF Spec

(* No group carries the number of weights newer than those its rollout     *)
(* began with, except before the engine is first loaded.                   *)
THEOREM LabelsNeverAhead == Spec => []LabelNotAhead
  <1>1. FreshInv => LabelNotAhead
    BY DEF FreshInv, LabelNotAhead, Labelled, WorkInv, StoreInv, TrainInv,
          Honest
  <1> QED
    BY <1>1, FreshInvInvariant, PTL

(* Every batch the trainer trains on is whole, meant for this step, and    *)
(* was generated with weights at most MaxAge steps old.                    *)
THEOREM TrainedBatchesFresh == Spec => []TrainedBatchFresh
  <1>1. FreshInv => TrainedBatchFresh
    BY DEF FreshInv, TrainInv
  <1> QED
    BY <1>1, FreshInvInvariant, PTL

(* Generation never runs further ahead of the trainer than MaxAge steps.   *)
THEOREM LookaheadBounded == Spec => []BoundedLookahead
  <1>1. FreshInv => BoundedLookahead
    BY DEF FreshInv, BoundedLookahead, WorkInv, StoreInv, Horizon
  <1> QED
    BY <1>1, FreshInvInvariant, PTL

-----------------------------------------------------------------------------
(* The trainer's calls to the trajectory collector: which can still be in  *)
(* the mailbox at each point of the training loop, and what that says of   *)
(* the versions and of the pause during a refit.                           *)

Mail == 1 .. Len(mailbox)

(* The call the trainer waits for is the last one it made.  While it is    *)
(* being served, and until the trainer makes its next calls, nothing is    *)
(* left that could end the pause.                                          *)
PrepareInv ==
    /\ \A i \in Mail : mailbox[i].op = "prepare_for_refit" =>
                            i = Len(mailbox) /\ tpc = "await_prepared"
    /\ prepared \/ mpc = "pending" => tpc = "await_prepared"
    /\ prepared => mpc # "pending"
    /\ prepared \/ mpc = "pending" \/ tpc = "refit" =>
            mailbox = <<>> /\ ~refitClear

(* Every version in the mailbox is the trainer's present one.              *)
NewsInv ==
    /\ \A i \in Mail : mailbox[i].op = "set_weight_version" =>
                            mailbox[i].v = weightVersion
    /\ version # weightVersion =>
          /\ version = weightVersion - 1
          /\ \E i \in Mail :
                mailbox[i] = [op |-> "set_weight_version", v |-> weightVersion]

(* A prompt that passed the pause before it began may still start a thread.*)
Tracked == {w \in workers : w.tracked}

QuietInv ==
    ~InFlight /\ (prepared \/ tpc = "refit") =>
        /\ \A v, w \in Tracked : v = w
        /\ cpc = "acquire" => Tracked = {}

CallsInv == FreshInv /\ PrepareInv /\ NewsInv /\ QuietInv

LEMMA InitCallsInv == Init => CallsInv
  <1> SUFFICES ASSUME Init PROVE CallsInv
    OBVIOUS
  <1>1. FreshInv
    BY InitFreshInv
  <1>2. PrepareInv /\ NewsInv /\ QuietInv
    BY ConstantTypes
       DEF Init, StoreInit, PrepareInv, NewsInv, QuietInv, Mail, Tracked
  <1> QED
    BY <1>1, <1>2 DEF CallsInv

(* The collection thread does not touch calls and versions, and what it    *)
(* may still do once the pause began is start the prompt at hand.          *)
LEMMA CollectCallsInv == CallsInv /\ Collect => CallsInv'
  <1> SUFFICES ASSUME CallsInv, Collect PROVE CallsInv'
    OBVIOUS
  <1>1. FreshInv'
    BY CollectFreshInv DEF CallsInv
  <1>2. UNCHANGED <<mainVars, trainVars, version, refitClear>>
    BY DEF Collect, NextBatch, LoopEnds, ManualGate, RefitGate, LimitAsk,
              LimitCheck, LimitWarn, LimitClear, LimitWait, BatchStart,
              TargetAsk, Reserve, DropBatch, PromptGate, PromptSeesRefit,
              PromptAfterRefit, SpawnWorker, StartWorker, flagVars
  <1>3. PrepareInv' /\ NewsInv'
    BY <1>2 DEF CallsInv, PrepareInv, NewsInv, Mail, mainVars, trainVars
  <1>4. QuietInv'
    <2> SUFFICES ASSUME ~InFlight, prepared \/ tpc = "refit"
                 PROVE  /\ \A v, w \in Tracked' : v = w
                        /\ cpc' = "acquire" => Tracked' = {}
      BY <1>2 DEF QuietInv, mainVars, trainVars
    <2>1. /\ ~refitClear
          /\ \A v, w \in Tracked : v = w
          /\ cpc = "acquire" => Tracked = {}
      BY DEF CallsInv, PrepareInv, QuietInv
    <2>2. CASE SpawnWorker
      <3> DEFINE new == [id |-> <<batch, cidx>>, gen |-> cver, tgt |-> ctarget,
                         born |-> Dummy, pc |-> "new", tracked |-> TRUE]
      <3>1. workers' = workers \union {new} /\ cpc = "acquire" /\ cpc' = "start"
        BY <2>2 DEF SpawnWorker
      <3> HIDE DEF new
      <3>2. Tracked' \subseteq {new}
        BY <2>1, <3>1 DEF Tracked
      <3> QED
        BY <3>1, <3>2
    <2>3. CASE StartWorker
      <3>1. PICK w \in workers :
                 workers' = (workers \ {w}) \union
                       {[w EXCEPT !.pc = "rollout", !.born = engine]}
        BY <2>3 DEF StartWorker
      <3> DEFINE started == [w EXCEPT !.pc = "rollout", !.born = engine]
      <3>2. started.tracked = w.tracked
        BY DEF CallsInv, FreshInv, TypeInv, TypeOK, WorkType, Workers
      <3>3. workers' = (workers \ {w}) \union {started}
        BY <3>1
      <3>4. cpc' # "acquire"
        BY <2>3 DEF StartWorker, BatchOver
      <3> HIDE DEF started
      <3>5. \A u, v \in Tracked' : u = v
        BY <2>1, <3>2, <3>3 DEF Tracked
      <3> QED
        BY <3>4, <3>5
    <2>4. CASE ~SpawnWorker /\ ~StartWorker
      <3>1. workers' = workers
        BY <2>4 DEF Collect, NextBatch, LoopEnds, ManualGate, RefitGate,
              LimitAsk, LimitCheck, LimitWarn, LimitClear, LimitWait,
              BatchStart, TargetAsk, Reserve, DropBatch, PromptGate,
              PromptSeesRefit, PromptAfterRefit, workVars
      <3>2. cpc' # "acquire"
        BY <2>1, <2>4 DEF Collect, NextBatch, LoopEnds, ManualGate, RefitGate,
              LimitAsk, LimitCheck, LimitWarn, LimitClear, LimitWait,
              BatchStart, TargetAsk, Reserve, DropBatch, PromptGate,
              PromptSeesRefit, PromptAfterRefit, BatchOver
      <3> QED
        BY <2>1, <3>1, <3>2 DEF Tracked
    <2> QED
      BY <2>2, <2>3, <2>4
  <1> QED
    BY <1>1, <1>3, <1>4 DEF CallsInv

(* No worker becomes a second one.                                         *)
LEMMA WorkerCallsInv ==
  ASSUME CallsInv, NEW w \in workers, WorkerStep(w)
  PROVE  CallsInv'
  <1>1. FreshInv'
    BY WorkerFreshInv DEF CallsInv
  <1>2. UNCHANGED <<flagVars, collVars, mainVars, trainVars>>
    BY DEF WorkerStep, vars, RolloutFails, PushGroup, PushRefused,
              PushAbandoned, ReleaseTarget, CleanupTarget, ExitWorker
  <1>3. PrepareInv' /\ NewsInv'
    BY <1>2 DEF CallsInv, PrepareInv, NewsInv, Mail, flagVars, mainVars, trainVars
  <1>4. (\A u, v \in Tracked : u = v) =>
           (\A u, v \in Tracked' : u = v) /\ (Tracked = {} => Tracked' = {})
    <2>1. workers' \subseteq workers
          \/ \E pc \in {"release", "cleanup", "exit"} : Becomes(w, pc)
      BY DEF WorkerStep, vars, workVars, RolloutFails, PushGroup, PushRefused,
              PushAbandoned, ReleaseTarget, CleanupTarget, ExitWorker
    <2>2. ASSUME NEW pc \in {"release", "cleanup", "exit"}, Becomes(w, pc)
          PROVE  (\A u, v \in Tracked : u = v) =>
                    (\A u, v \in Tracked' : u = v) /\ (Tracked = {} => Tracked' = {})
      <3> DEFINE moved == [w EXCEPT !.pc = pc]
      <3>1. moved.tracked = w.tracked
        BY DEF CallsInv, FreshInv, TypeInv, TypeOK, WorkType, Workers
      <3>2. workers' = (workers \ {w}) \union {moved}
        BY <2>2 DEF Becomes
      <3> HIDE DEF moved
      <3> QED
        BY <3>1, <3>2 DEF Tracked
    <2> QED
      BY <2>1, <2>2 DEF Tracked
  <1>5. QuietInv'
    BY <1>2, <1>4 DEF CallsInv, QuietInv, mainVars, trainVars, collVars
  <1> QED
    BY <1>1, <1>3, <1>5 DEF CallsInv

(* Taking the first call out of the mailbox.                               *)
LEMMA AfterReceive ==
  ASSUME NEW op, mailbox \in Seq(Messages), Receive(op)
  PROVE  /\ mailbox' \in Seq(Messages) /\ Len(mailbox') = Len(mailbox) - 1
         /\ Len(mailbox) \in Nat \ {0} /\ mailbox[1].op = op
         /\ \A i \in Mail' : i + 1 \in Mail /\ mailbox'[i] = mailbox[i + 1]
         /\ \A i \in Mail : i # 1 => i - 1 \in Mail' /\ mailbox'[i - 1] = mailbox[i]
  BY DEF Receive, Mail

(* The main thread serves the calls in their order.                        *)
LEMMA ServeCallsInv == CallsInv /\ Serve => CallsInv'
  <1> SUFFICES ASSUME CallsInv, Serve PROVE CallsInv'
    OBVIOUS
  <1>1. FreshInv'
    BY ServeFreshInv DEF CallsInv
  <1>2. UNCHANGED trainVars
    BY DEF Serve, StartCollection, SetWeightVersion, WakeCollection, Pause,
           Resume, PrepareForRefit, PollPending, ResumeAfterRefit
  <1>3. mailbox \in Seq(Messages) /\ weightVersion \in Int /\ InFlight \in BOOLEAN
    BY ConstantTypes DEF CallsInv, FreshInv, TypeInv, TypeOK, MainType,
          TrainType, Versions
  <1>4. ASSUME NEW op, Receive(op), op # "set_weight_version",
               UNCHANGED version
        PROVE  NewsInv'
    <2>1. \A i \in Mail : i # 1 => i - 1 \in Mail' /\ mailbox'[i - 1] = mailbox[i]
      BY <1>3, <1>4, AfterReceive
    <2>2. \A i \in Mail' : i + 1 \in Mail /\ mailbox'[i] = mailbox[i + 1]
      BY <1>3, <1>4, AfterReceive
    <2>3. mailbox[1].op # "set_weight_version"
      BY <1>3, <1>4, AfterReceive
    <2>4. weightVersion' = weightVersion
      BY <1>2 DEF trainVars
    <2>5. ASSUME NEW i \in Mail,
                 mailbox[i] = [op |-> "set_weight_version", v |-> weightVersion]
          PROVE  \E j \in Mail' :
                    mailbox'[j] = [op |-> "set_weight_version", v |-> weightVersion]
      BY <2>1, <2>3, <2>5
    <2> QED
      BY <1>4, <2>2, <2>4, <2>5 DEF CallsInv, NewsInv
  <1>5. ASSUME NEW op, Receive(op), op # "prepare_for_refit",
               UNCHANGED prepared, mpc' # "pending"
        PROVE  PrepareInv' /\ QuietInv'
    <2>1. mpc = "idle" /\ mailbox # <<>>
      BY <1>5 DEF Receive
    <2>2. ~prepared /\ tpc # "refit"
      BY <2>1 DEF CallsInv, PrepareInv
    <2>3. \A i \in Mail' : i + 1 \in Mail /\ mailbox'[i] = mailbox[i + 1]
      BY <1>3, <1>5, AfterReceive
    <2>4. Len(mailbox') = Len(mailbox) - 1
      BY <1>3, <1>5, AfterReceive
    <2>5. \A i \in Mail' : mailbox'[i].op = "prepare_for_refit" =>
                              i = Len(mailbox') /\ tpc' = "await_prepared"
      <3> TAKE i \in Mail'
      <3> HAVE mailbox'[i].op = "prepare_for_refit"
      <3>1. i + 1 = Len(mailbox) /\ tpc = "await_prepared"
        BY <2>3 DEF CallsInv, PrepareInv
      <3> QED
        BY <1>2, <2>4, <3>1 DEF Mail, trainVars
    <2> QED
      BY <1>2, <1>5, <2>2, <2>5 DEF PrepareInv, QuietInv, trainVars
  <1>6. CASE StartCollection
    <2>1. /\ Receive("start_collection") /\ mpc' = mpc
          /\ UNCHANGED <<version, prepared>>
      BY <1>6 DEF StartCollection
    <2> QED
      BY <1>1, <1>4, <1>5, <2>1 DEF CallsInv, Receive
  <1>7. CASE Pause \/ Resume
    <2>1. /\ Receive("pause") \/ Receive("resume")
          /\ UNCHANGED <<version, prepared, mpc>>
      BY <1>7 DEF Pause, Resume
    <2> QED
      BY <1>1, <1>4, <1>5, <2>1 DEF CallsInv, Receive
  <1>8. CASE ResumeAfterRefit
    <2>1. /\ Receive("resume_after_refit") /\ mpc' = mpc
          /\ UNCHANGED <<version, prepared>>
      BY <1>8 DEF ResumeAfterRefit
    <2> QED
      BY <1>1, <1>4, <1>5, <2>1 DEF CallsInv, Receive
  <1>9. CASE SetWeightVersion
    <2>1. /\ Receive("set_weight_version") /\ mpc' = "wake"
          /\ prepared' = prepared /\ version' = mailbox[1].v
      BY <1>3, <1>9 DEF SetWeightVersion, Receive
    <2>2. PrepareInv' /\ QuietInv'
      BY <1>5, <2>1
    <2>3. \A i \in Mail' : i + 1 \in Mail /\ mailbox'[i] = mailbox[i + 1]
      BY <1>3, <2>1, AfterReceive
    <2>4. 1 \in Mail /\ mailbox[1].op = "set_weight_version"
      BY <1>3, <2>1, AfterReceive DEF Mail
    <2>5. NewsInv'
      BY <1>2, <2>1, <2>3, <2>4 DEF CallsInv, NewsInv, trainVars
    <2> QED
      BY <1>1, <2>2, <2>5 DEF CallsInv
  <1>10. CASE WakeCollection
    BY <1>1, <1>2, <1>10 DEF WakeCollection, CallsInv, PrepareInv, NewsInv,
          QuietInv, Mail, Tracked, trainVars, workVars, collVars
  <1>11. CASE PrepareForRefit
    <2>1. /\ Receive("prepare_for_refit") /\ version' = version
          /\ refitClear' = FALSE /\ prepared' = InFlight
          /\ mpc' = IF InFlight THEN "idle" ELSE "pending"
      BY <1>11 DEF PrepareForRefit
    <2>2. 1 \in Mail /\ mailbox[1].op = "prepare_for_refit"
          /\ Len(mailbox') = Len(mailbox) - 1 /\ mailbox' \in Seq(Messages)
      BY <1>3, <2>1, AfterReceive DEF Mail
    <2>3. Len(mailbox) = 1 /\ tpc = "await_prepared"
      BY <2>2 DEF CallsInv, PrepareInv
    <2>4. mailbox' = <<>>
      BY <2>2, <2>3
    <2>5. PrepareInv' /\ QuietInv'
      BY <1>2, <1>3, <2>1, <2>3, <2>4 DEF PrepareInv, QuietInv, Mail, trainVars
    <2>6. NewsInv'
      BY <1>4, <2>1
    <2> QED
      BY <1>1, <2>5, <2>6 DEF CallsInv
  <1>12. CASE PollPending
    <2>1. /\ mpc = "pending"
          /\ UNCHANGED <<flagVars, collVars, mailbox>>
          /\ \/ mpc' = mpc /\ prepared' = prepared
             \/ /\ mpc' = "idle" /\ prepared' = TRUE
                /\ {w \in workers : w.tracked /\ w.pc # "new"} = {}
      BY <1>12 DEF PollPending
    <2>2. /\ tpc = "await_prepared" /\ ~prepared /\ mailbox = <<>>
          /\ ~refitClear
      BY <2>1 DEF CallsInv, PrepareInv
    <2>3. PrepareInv' /\ NewsInv'
      BY <1>2, <2>1, <2>2
         DEF CallsInv, PrepareInv, NewsInv, Mail, flagVars, trainVars
    <2>4. ASSUME {w \in workers : w.tracked /\ w.pc # "new"} = {}
          PROVE  Tracked' = {}
      <3> DEFINE F(w) == IF w.pc = "new" THEN [w EXCEPT !.tracked = FALSE] ELSE w
      <3>1. workers' = {F(w) : w \in workers}
        BY <1>12 DEF PollPending
      <3>2. \A w \in workers : ~F(w).tracked
        <4> TAKE w \in workers
        <4>1. w \in Workers
          BY DEF CallsInv, FreshInv, TypeInv, TypeOK, WorkType
        <4>2. CASE w.pc = "new"
          BY <4>1, <4>2 DEF Workers
        <4>3. CASE w.pc # "new"
          BY <2>4, <4>3
        <4> QED
          BY <4>2, <4>3
      <3> HIDE DEF F
      <3> QED
        BY <3>1, <3>2 DEF Tracked
    <2>5. QuietInv'
      BY <1>2, <2>1, <2>2, <2>4 DEF QuietInv, trainVars
    <2> QED
      BY <1>1, <2>3, <2>5 DEF CallsInv
  <1> QED
    BY <1>6, <1>7, <1>8, <1>9, <1>10, <1>11, <1>12 DEF Serve

(* Adding calls at the end of the mailbox.                                 *)
LEMMA AfterSend ==
  ASSUME mailbox \in Seq(Messages), NEW ops \in Seq(Messages), Send(ops)
  PROVE  /\ Len(mailbox') = Len(mailbox) + Len(ops) /\ Len(mailbox) \in Nat
         /\ \A i \in Mail : i \in Mail' /\ mailbox'[i] = mailbox[i]
         /\ \A i \in Mail' \ Mail : i - Len(mailbox) \in 1 .. Len(ops)
                                    /\ mailbox'[i] = ops[i - Len(mailbox)]
  BY DEF Send, Mail

(* The trainer makes its calls in an order that keeps all this true.       *)
LEMMA TrainCallsInv == CallsInv /\ Train => CallsInv'
  <1> SUFFICES ASSUME CallsInv, Train PROVE CallsInv'
    OBVIOUS
  <1>1. FreshInv'
    BY TrainFreshInv DEF CallsInv
  <1>2. UNCHANGED <<flagVars, collVars, workVars>>
    BY DEF vars, Train, InitialRefit, BeginValidationAtStart,
           EndValidationAtStart, BufferFilled, FillStalls, TakeBatch,
           SampleStalls, SampleRaises, TrainStep, RefitMayBegin, RefitDone,
           BeginValidation, EndValidation, FinishStep
  <1>3. mailbox \in Seq(Messages) /\ weightVersion \in Int /\ version \in Int
    BY ConstantTypes DEF CallsInv, FreshInv, TypeInv, TypeOK, MainType,
          TrainType, VersionType, Versions
  <1>4. ASSUME NEW op \in {"pause", "resume", "prepare_for_refit"},
               Send(<<Call(op)>>), UNCHANGED <<mpc, prepared, weightVersion>>,
               tpc \notin {"await_prepared", "refit"}, tpc' # "refit",
               op = "prepare_for_refit" => tpc' = "await_prepared"
        PROVE  PrepareInv' /\ NewsInv' /\ QuietInv'
    <2> DEFINE ops == <<Call(op)>>
    <2>1. ops \in Seq(Messages) /\ Len(ops) = 1 /\ ops[1].op = op
      BY DEF Call, Messages
    <2>2. /\ \A i \in Mail : i \in Mail' /\ mailbox'[i] = mailbox[i]
          /\ \A i \in Mail' \ Mail : mailbox'[i].op = op /\ i = Len(mailbox')
      <3>1. \A i \in Mail : i \in Mail' /\ mailbox'[i] = mailbox[i]
        BY <1>3, <1>4, <2>1, AfterSend
      <3>2. ASSUME NEW i \in Mail' \ Mail
            PROVE  mailbox'[i].op = op /\ i = Len(mailbox')
        <4>1. /\ Len(mailbox') = Len(mailbox) + 1 /\ Len(mailbox) \in Nat
              /\ i - Len(mailbox) \in 1 .. 1
              /\ mailbox'[i] = ops[i - Len(mailbox)]
          BY <1>3, <1>4, <2>1, <3>2, AfterSend
        <4>2. i - Len(mailbox) = 1 /\ i \in Int
          BY <3>2, <4>1 DEF Mail
        <4> QED
          BY <2>1, <4>1, <4>2
      <3> QED
        BY <3>1, <3>2
    <2>3. ~prepared /\ mpc # "pending"
          /\ \A i \in Mail : mailbox[i].op # "prepare_for_refit"
      BY <1>4 DEF CallsInv, PrepareInv
    <2>4. PrepareInv' /\ QuietInv'
      BY <1>4, <2>2, <2>3 DEF PrepareInv, QuietInv
    <2>5. NewsInv'
      BY <1>2, <1>4, <2>2 DEF CallsInv, NewsInv, flagVars
    <2> QED
      BY <2>4, <2>5
  <1>5. CASE BeginValidationAtStart \/ EndValidationAtStart \/ TrainStep
             \/ BeginValidation \/ EndValidation
    <2>1. \E op \in {"pause", "resume", "prepare_for_refit"} :
             /\ Send(<<Call(op)>>) /\ UNCHANGED <<mpc, prepared, weightVersion>>
             /\ tpc \notin {"await_prepared", "refit"} /\ tpc' # "refit"
             /\ op = "prepare_for_refit" => tpc' = "await_prepared"
      BY <1>5 DEF BeginValidationAtStart, EndValidationAtStart, TrainStep,
            BeginValidation, EndValidation
    <2> QED
      BY <1>1, <1>4, <2>1 DEF CallsInv
  <1>6. CASE RefitMayBegin
    <2>1. /\ prepared /\ prepared' = FALSE /\ tpc = "await_prepared" /\ tpc' = "refit"
          /\ UNCHANGED <<mpc, mailbox, weightVersion>>
      BY <1>6 DEF RefitMayBegin
    <2>2. mpc # "pending" /\ mailbox = <<>> /\ ~refitClear
      BY <2>1 DEF CallsInv, PrepareInv
    <2>3. PrepareInv' /\ NewsInv'
      BY <1>2, <2>1, <2>2 DEF CallsInv, PrepareInv, NewsInv, Mail, flagVars
    <2>4. QuietInv'
      BY <1>2, <2>1 DEF CallsInv, QuietInv, Tracked, workVars, collVars
    <2> QED
      BY <1>1, <2>3, <2>4 DEF CallsInv
  <1>7. CASE RefitDone
    <2> DEFINE ops == CallsAfterRefit(weightVersion + 1)
    <2>1. /\ tpc = "refit" /\ tpc' \in {"validate", "finish"}
          /\ weightVersion' = weightVersion + 1 /\ Send(ops)
          /\ UNCHANGED <<mpc, prepared>>
      BY <1>7 DEF RefitDone
    <2>2. ~prepared /\ mpc # "pending" /\ mailbox = <<>>
      BY <2>1 DEF CallsInv, PrepareInv
    <2>3. /\ mailbox' = ops /\ Mail' = 1 .. 2
          /\ ops[1] = [op |-> "set_weight_version", v |-> weightVersion']
          /\ ops[2].op = "resume_after_refit"
      BY <2>1, <2>2 DEF Send, Mail, CallsAfterRefit, Call
    <2>4. version = weightVersion
      BY <2>2 DEF CallsInv, NewsInv, Mail
    <2> HIDE DEF ops
    <2>5. PrepareInv' /\ QuietInv'
      BY <2>1, <2>2, <2>3 DEF PrepareInv, QuietInv
    <2>6. NewsInv'
      <3>1. mailbox'[1] = [op |-> "set_weight_version", v |-> weightVersion']
            /\ mailbox'[2].op = "resume_after_refit" /\ 1 \in Mail'
        BY <2>3
      <3>2. mailbox'[1].v = weightVersion'
        BY <3>1
      <3>3. version' = weightVersion' - 1
        BY <1>2, <1>3, <2>1, <2>4 DEF flagVars
      <3>4. \A i \in Mail' : i = 1 \/ i = 2
        BY <2>3
      <3> QED
        BY <3>1, <3>2, <3>3, <3>4 DEF NewsInv
    <2> QED
      BY <1>1, <2>5, <2>6 DEF CallsInv
  <1>8. CASE InitialRefit \/ BufferFilled \/ FillStalls \/ TakeBatch
             \/ SampleStalls \/ SampleRaises \/ FinishStep
    <2>1. /\ UNCHANGED <<mpc, mailbox, prepared, weightVersion>>
          /\ \/ tpc' = tpc
             \/ /\ tpc \notin {"await_prepared", "refit"}
                /\ tpc' \notin {"await_prepared", "refit"}
      BY <1>8 DEF vars, mainVars, trainVars, InitialRefit, BufferFilled,
            FillStalls, TakeBatch, SampleStalls, SampleRaises, FinishStep
    <2>2. PrepareInv' /\ NewsInv' /\ QuietInv'
      BY <1>2, <2>1 DEF CallsInv, PrepareInv, NewsInv, QuietInv, Mail, Tracked,
            flagVars, workVars, collVars
    <2> QED
      BY <1>1, <2>2 DEF CallsInv
  <1> QED
    BY <1>5, <1>6, <1>7, <1>8 DEF Train

LEMMA StutterCallsInv == CallsInv /\ UNCHANGED vars => CallsInv'
  <1> SUFFICES ASSUME CallsInv, UNCHANGED vars PROVE CallsInv'
    OBVIOUS
  <1>1. FreshInv'
    BY StutterFreshInv DEF CallsInv
  <1>2. PrepareInv' /\ NewsInv' /\ QuietInv'
    BY DEF CallsInv, PrepareInv, NewsInv, QuietInv, Mail, Tracked, vars,
           flagVars, collVars, workVars, mainVars, trainVars
  <1> QED
    BY <1>1, <1>2 DEF CallsInv

LEMMA CallsInvInvariant == Spec => []CallsInv
  <1>1. CallsInv /\ [Next]_vars => CallsInv'
    BY CollectCallsInv, ServeCallsInv, TrainCallsInv, WorkerCallsInv,
       StutterCallsInv DEF Next, Terminated
  <1> QED
    BY InitCallsInv, <1>1, PTL DEF Spec

(* The collector is never more than one version behind the engine, and     *)
(* while it is, the call that tells it is on its way.                      *)
THEOREM VersionsNeverDrift == Spec => []VersionsInStep
  <1>1. CallsInv => VersionsInStep
    <2> SUFFICES ASSUME CallsInv PROVE VersionsInStep
      OBVIOUS
    <2>1. weightVersion \in Int /\ version \in Int
      BY ConstantTypes DEF CallsInv, FreshInv, TypeInv, TypeOK, VersionType,
            TrainType, Versions
    <2> QED
      BY <2>1 DEF CallsInv, FreshInv, EngineInv, NewsInv, Mail, VersionsInStep
  <1> QED
    BY <1>1, CallsInvInvariant, PTL

(* While weights are replaced no prompt passes the pause, whatever calls   *)
(* of earlier steps were still waiting, and without in-flight updates at   *)
(* most one recorded thread generates.                                     *)
THEOREM RefitsGuarded == Spec => []RefitGuarded
  <1>1. CallsInv => RefitGuarded
    <2> SUFFICES ASSUME CallsInv, tpc = "refit"
                 PROVE  /\ ~refitClear
                        /\ ~InFlight => Cardinality({w \in workers : w.tracked}) <= 1
      BY DEF RefitGuarded, PausedDuringRefit, AlmostQuiet
    <2>1. ~refitClear
      BY DEF CallsInv, PrepareInv
    <2>2. ASSUME ~InFlight PROVE Cardinality(Tracked) <= 1
      <3>1. \A v, w \in Tracked : v = w
        BY <2>2 DEF CallsInv, QuietInv
      <3>2. CASE Tracked = {}
        BY <3>2, FS_EmptySet
      <3>3. CASE Tracked # {}
        <4>1. PICK w : Tracked = {w}
          BY <3>1, <3>3
        <4>2. Cardinality({w}) = 1
          BY FS_Singleton
        <4> QED
          BY <4>1, <4>2
      <3> QED
        BY <3>2, <3>3
    <2> QED
      BY <2>1, <2>2 DEF Tracked
  <1> QED
    BY <1>1, CallsInvInvariant, PTL

-----------------------------------------------------------------------------
(* The prompt groups: no group exists twice, no slot of the semaphore and  *)
(* no reservation is lost; and, at the end, the refinement of              *)
(* BoundedStaleness, which needs that.                                     *)

(* The collection thread is started once, by the first call, and has local *)
(* variables only while it hands out prompts.                              *)
CollectorInv ==
    /\ cpc = "unstarted" => batch = 0
    /\ ~InBatch => cidx = 0
    /\ \A i \in 1 .. Len(mailbox) :
          mailbox[i].op = "start_collection" => i = 1 /\ cpc = "unstarted"

(* A worker that is not started yet is the one for the prompt at hand.     *)
AtHand(w) == cpc = "start" /\ w.id = <<batch, cidx>> /\ w.tgt = ctarget

WorkersInv ==
    /\ \A w \in workers : IF w.pc = "new" THEN AtHand(w) ELSE w.id \in Drawn
    /\ \A v, w \in workers : v.id = w.id => v = w

SlotsInv == IsFiniteSet(workers) /\ SlotsConserved

(* Groups in the buffer and in training come from prompts that were drawn  *)
(* and have no rollout any more, and no prompt has two.                    *)
Kept == entries \union training

GroupsInv ==
    /\ IsFiniteSet(entries)
    /\ \A e \in Kept : e.item.id \in Drawn
    /\ \A e \in Kept, w \in workers : w.id = e.item.id => w.pc # "rollout"
    /\ \A d, e \in Kept : d.item.id = e.item.id => d = e
    /\ entries \intersect training = {}
    /\ tpc # "train" => training = {}

OnceInv ==
    /\ FreshInv
    /\ CollectorInv /\ WorkersInv /\ SlotsInv /\ GroupsInv
    /\ NoLeakedReservation

LEMMA InitOnceInv == Init => OnceInv
  <1> SUFFICES ASSUME Init PROVE OnceInv
    OBVIOUS
  <1>1. FreshInv
    BY InitFreshInv
  <1>2. CollectorInv
    BY DEF Init, CollectorInv
  <1>3. WorkersInv /\ GroupsInv /\ NoLeakedReservation
    BY FS_EmptySet DEF Init, StoreInit, WorkersInv, GroupsInv, Kept,
          NoLeakedReservation
  <1>4. SlotsInv
    BY ConstantTypes, FS_EmptySet DEF Init, SlotsInv, SlotsConserved
  <1> QED
    BY <1>1, <1>2, <1>3, <1>4 DEF OnceInv

-----------------------------------------------------------------------------
(* The collection thread.                                                  *)

(* What is drawn stays drawn, and a prompt is not drawn before its worker  *)
(* is started.                                                             *)
LEMMA DrawnGrows ==
  ASSUME OnceInv, Collect
  PROVE  Drawn \subseteq Drawn'
  <1> USE ConstantTypes DEF Drawn, InBatch, GroupIds, PromptIdx
  <1>1. batch \in Nat /\ cidx \in Nat
    BY DEF OnceInv, FreshInv, TypeInv, TypeOK, CollType
  <1>2. cpc = "reserve" => cidx = 0
    BY DEF OnceInv, CollectorInv
  <1>3. CASE NextBatch
    BY <1>1, <1>3 DEF NextBatch
  <1>4. CASE StartWorker
    BY <1>1, <1>4 DEF StartWorker, MorePrompts, BatchOver
  <1>5. CASE DropBatch
    BY <1>1, <1>5 DEF DropBatch, BatchOver
  <1>6. CASE Reserve
    BY <1>1, <1>2, <1>6 DEF Reserve
  <1>7. CASE ~NextBatch /\ ~StartWorker /\ ~DropBatch /\ ~Reserve
    BY <1>1, <1>7 DEF Collect, LoopEnds, ManualGate, RefitGate, LimitAsk,
           LimitCheck, LimitWarn, LimitClear, LimitWait, BatchStart,
           TargetAsk, PromptGate, PromptSeesRefit, PromptAfterRefit,
           SpawnWorker
  <1> QED
    BY <1>3, <1>4, <1>5, <1>6, <1>7

LEMMA AtHandNotDrawn ==
  ASSUME OnceInv, InBatch
  PROVE  <<batch, cidx>> \notin Drawn
  <1>1. batch \in Nat /\ cidx \in Nat
    BY ConstantTypes DEF OnceInv, FreshInv, TypeInv, TypeOK, CollType,
          PromptIdx
  <1> QED
    BY <1>1 DEF Drawn, InBatch

LEMMA SameWorkers ==
  ASSUME OnceInv, FreshInv', CollectorInv',
         UNCHANGED <<workers, sema, entries, training, tpc, generating>>,
         Drawn \subseteq Drawn', cpc # "start",
         \A t \in generating : ctarget = t /\ InBatch => ctarget' = t /\ InBatch'
  PROVE  OnceInv'
  <1> USE DEF OnceInv
  <1>1. WorkersInv'
    BY DEF WorkersInv, AtHand
  <1>2. SlotsInv'
    BY DEF SlotsInv, SlotsConserved, MaxInflight
  <1>3. GroupsInv'
    BY DEF GroupsInv, Kept
  <1>4. NoLeakedReservation'
    BY DEF NoLeakedReservation
  <1> QED
    BY <1>1, <1>2, <1>3, <1>4

LEMMA CollectOnceInv == OnceInv /\ Collect => OnceInv'
  <1> SUFFICES ASSUME OnceInv, Collect PROVE OnceInv'
    OBVIOUS
  <1> USE ConstantTypes
  <1>1. FreshInv'
    BY CollectFreshInv DEF OnceInv
  <1>2. Drawn \subseteq Drawn'
    BY DrawnGrows
  <1>3. UNCHANGED <<storeVars, mainVars, trainVars>>
    BY DEF Collect, NextBatch, LoopEnds, ManualGate, RefitGate, LimitAsk,
              LimitCheck, LimitWarn, LimitClear, LimitWait, BatchStart,
              TargetAsk, Reserve, DropBatch, PromptGate, PromptSeesRefit,
              PromptAfterRefit, SpawnWorker, StartWorker
  <1>4. cpc # "unstarted" /\ cpc' # "unstarted"
    BY DEF Collect, NextBatch, LoopEnds, ManualGate, RefitGate, LimitAsk,
              LimitCheck, LimitWarn, LimitClear, LimitWait, BatchStart,
              TargetAsk, Reserve, DropBatch, PromptGate, PromptSeesRefit,
              PromptAfterRefit, SpawnWorker, StartWorker, BatchOver
  <1>5. CollectorInv'
    <2>1. ~InBatch' => cidx' = 0
      BY DEF OnceInv, CollectorInv, InBatch, Collect, NextBatch, LoopEnds,
             ManualGate, RefitGate, LimitAsk, LimitCheck, LimitWarn,
             LimitClear, LimitWait, BatchStart, TargetAsk, Reserve, DropBatch,
             PromptGate, PromptSeesRefit, PromptAfterRefit, SpawnWorker,
             StartWorker, BatchOver
    <2> QED
      BY <1>3, <1>4, <2>1 DEF OnceInv, CollectorInv, mainVars
  <1>6. CASE SpawnWorker
    <2> DEFINE new == [id |-> <<batch, cidx>>, gen |-> cver, tgt |-> ctarget,
                       born |-> Dummy, pc |-> "new", tracked |-> TRUE]
    <2>1. workers' = workers \union {new} /\ sema' = sema - 1
          /\ cpc = "acquire" /\ cpc' = "start"
          /\ UNCHANGED <<batch, cidx, ctarget, generating>>
      BY <1>6 DEF SpawnWorker
    <2>2. \A w \in workers : w.pc # "new" /\ w.id \in Drawn
      BY <2>1 DEF OnceInv, WorkersInv, AtHand
    <2>3. <<batch, cidx>> \notin Drawn
      BY <2>1, AtHandNotDrawn DEF InBatch
    <2>4. new.id = <<batch, cidx>> /\ new.tgt = ctarget /\ new.pc = "new"
      OBVIOUS
    <2> HIDE DEF new
    <2>5. WorkersInv'
      BY <1>2, <2>1, <2>2, <2>3, <2>4 DEF OnceInv, WorkersInv, AtHand
    <2>6. SlotsInv'
      <3>1. new \notin workers
        BY <2>2, <2>4
      <3>2. IsFiniteSet(workers') /\ Cardinality(workers') = Cardinality(workers) + 1
        BY <2>1, <3>1, FS_AddElement DEF OnceInv, SlotsInv
      <3>3. sema \in Nat /\ Cardinality(workers) \in Nat
        BY FS_CardinalityType DEF OnceInv, SlotsInv, FreshInv, TypeInv, TypeOK,
              WorkType
      <3> QED
        BY <2>1, <3>2, <3>3 DEF OnceInv, SlotsInv, SlotsConserved, MaxInflight
    <2>7. GroupsInv'
      BY <1>2, <1>3, <2>1, <2>4 DEF OnceInv, GroupsInv, Kept, storeVars, trainVars
    <2>8. NoLeakedReservation'
      BY <2>1 DEF OnceInv, NoLeakedReservation, InBatch
    <2> QED
      BY <1>1, <1>5, <2>5, <2>6, <2>7, <2>8 DEF OnceInv
  <1>7. CASE StartWorker
    <2>1. PICK w \in workers :
               /\ w.pc = "new"
               /\ workers' = (workers \ {w}) \union
                     {[w EXCEPT !.pc = "rollout", !.born = engine]}
      BY <1>7 DEF StartWorker
    <2> DEFINE started == [w EXCEPT !.pc = "rollout", !.born = engine]
    <2>2. w.id = <<batch, cidx>> /\ w.tgt = ctarget /\ cpc = "start"
      BY <2>1 DEF OnceInv, WorkersInv, AtHand
    <2>3. started.id = w.id /\ started.tgt = w.tgt /\ started.pc = "rollout"
      BY <2>1 DEF OnceInv, FreshInv, TypeInv, TypeOK, WorkType, Workers
    <2>4. workers' = (workers \ {w}) \union {started}
      BY <2>1
    <2> HIDE DEF started
    <2>5. \A v \in workers \ {w} : v.id # w.id /\ v.pc # "new" /\ v.id \in Drawn
      BY <2>2 DEF OnceInv, WorkersInv, AtHand
    <2>6. w.id \in Drawn'
      <3>1. batch \in 0 .. NumBatches /\ cidx \in PromptIdx /\ batch >= 1
        BY <2>2 DEF OnceInv, FreshInv, TypeInv, TypeOK, CollType, HoldsBatch
      <3>2. w.id \in GroupIds
        BY <2>2, <3>1 DEF GroupIds
      <3> QED
        BY <1>7, <2>2, <3>1, <3>2 DEF StartWorker, BatchOver, MorePrompts, Drawn,
              InBatch, PromptIdx
    <2>7. WorkersInv'
      BY <1>2, <2>3, <2>4, <2>5, <2>6 DEF OnceInv, WorkersInv
    <2>8. SlotsInv'
      <3>1. started \notin workers \ {w}
        BY <2>3, <2>5
      <3>2. /\ IsFiniteSet(workers \ {w})
            /\ Cardinality(workers \ {w}) = Cardinality(workers) - 1
        BY FS_RemoveElement DEF OnceInv, SlotsInv
      <3>3. /\ IsFiniteSet(workers')
            /\ Cardinality(workers') = Cardinality(workers) - 1 + 1
        BY <2>4, <3>1, <3>2, FS_AddElement
      <3>4. sema' = sema /\ Cardinality(workers) \in Nat
        BY <1>7, FS_CardinalityType DEF StartWorker, OnceInv, SlotsInv
      <3> QED
        BY <3>3, <3>4 DEF OnceInv, SlotsInv, SlotsConserved, MaxInflight
    <2>9. GroupsInv'
      <3>1. w.id \notin Drawn
        BY <2>2, AtHandNotDrawn DEF InBatch
      <3> QED
        BY <1>2, <1>3, <2>3, <2>4, <3>1 DEF OnceInv, GroupsInv, Kept, storeVars,
              trainVars
    <2>10. NoLeakedReservation'
      <3>1. generating' = generating
        BY <1>7 DEF StartWorker
      <3> QED
        BY <2>2, <2>3, <2>4, <3>1 DEF OnceInv, NoLeakedReservation
    <2> QED
      BY <1>1, <1>5, <2>7, <2>8, <2>9, <2>10 DEF OnceInv
  <1>8. CASE Reserve
    <2>1. /\ UNCHANGED <<workers, sema>> /\ cpc' = "prompt_gate" /\ cpc = "reserve"
          /\ \E t : generating' = generating \union {t} /\ ctarget' = t
      BY <1>8 DEF Reserve
    <2>2. WorkersInv' /\ SlotsInv' /\ GroupsInv'
      BY <1>2, <1>3, <2>1 DEF OnceInv, WorkersInv, AtHand, SlotsInv,
            SlotsConserved, MaxInflight, GroupsInv, Kept, storeVars, trainVars
    <2>3. NoLeakedReservation'
      BY <2>1 DEF OnceInv, NoLeakedReservation, InBatch
    <2> QED
      BY <1>1, <1>5, <2>2, <2>3 DEF OnceInv
  <1>9. CASE ~SpawnWorker /\ ~StartWorker /\ ~Reserve
    <2>1. UNCHANGED workVars /\ cpc # "start"
      BY <1>9 DEF Collect, NextBatch, LoopEnds, ManualGate, RefitGate, LimitAsk,
              LimitCheck, LimitWarn, LimitClear, LimitWait, BatchStart,
              TargetAsk, DropBatch, PromptGate, PromptSeesRefit,
              PromptAfterRefit
    <2>2. InBatch => InBatch' /\ ctarget' = ctarget
      BY <1>9 DEF InBatch, Collect, NextBatch, LoopEnds, ManualGate, RefitGate,
              LimitAsk, LimitCheck, LimitWarn, LimitClear, LimitWait,
              BatchStart, TargetAsk, DropBatch, PromptGate, PromptSeesRefit,
              PromptAfterRefit
    <2> QED
      BY <1>1, <1>2, <1>3, <1>5, <2>1, <2>2, SameWorkers DEF workVars, storeVars,
            trainVars
  <1> QED
    BY <1>6, <1>7, <1>8, <1>9

-----------------------------------------------------------------------------
(* A worker.                                                               *)
LEMMA WorkerOnceInv ==
  ASSUME OnceInv, NEW w \in workers, WorkerStep(w)
  PROVE  OnceInv'
  <1> USE ConstantTypes
  <1>1. FreshInv'
    BY WorkerFreshInv DEF OnceInv
  <1>2. UNCHANGED <<flagVars, collVars, mainVars, trainVars>>
    BY DEF WorkerStep, vars, RolloutFails, PushGroup, PushRefused,
              PushAbandoned, ReleaseTarget, CleanupTarget, ExitWorker
  <1>3. CollectorInv' /\ Drawn' = Drawn /\ (InBatch' <=> InBatch)
        /\ ctarget' = ctarget
    BY <1>2 DEF OnceInv, CollectorInv, InBatch, Drawn, collVars, mainVars
  <1>4. w \in Workers
    BY DEF OnceInv, FreshInv, TypeInv, TypeOK, WorkType
  <1>5. ASSUME NEW pc \in {"release", "cleanup", "exit"}, w.pc # "new",
               Becomes(w, pc), sema' = sema
        PROVE  WorkersInv' /\ SlotsInv'
    <2> DEFINE moved == [w EXCEPT !.pc = pc]
    <2>1. moved.id = w.id /\ moved.tgt = w.tgt /\ moved.pc = pc
      BY <1>4 DEF Workers
    <2>2. workers' = (workers \ {w}) \union {moved}
      BY <1>5 DEF Becomes
    <2> HIDE DEF moved
    <2>3. WorkersInv'
      <3>1. \A v \in workers \ {w} : v.id # w.id
        BY DEF OnceInv, WorkersInv
      <3>2. w.id \in Drawn
        BY <1>5 DEF OnceInv, WorkersInv
      <3>3. \A v \in workers' : IF v.pc = "new" THEN AtHand(v)' ELSE v.id \in Drawn'
        BY <1>2, <1>3, <2>1, <2>2, <3>2
           DEF OnceInv, WorkersInv, AtHand, collVars
      <3>4. \A u, v \in workers' : u.id = v.id => u = v
        BY <2>1, <2>2, <3>1 DEF OnceInv, WorkersInv
      <3> QED
        BY <3>3, <3>4 DEF WorkersInv
    <2>4. SlotsInv'
      <3>1. moved \notin workers \ {w}
        BY <2>1 DEF OnceInv, WorkersInv
      <3>2. /\ IsFiniteSet(workers \ {w})
            /\ Cardinality(workers \ {w}) = Cardinality(workers) - 1
        BY FS_RemoveElement DEF OnceInv, SlotsInv
      <3>3. /\ IsFiniteSet(workers')
            /\ Cardinality(workers') = Cardinality(workers) - 1 + 1
        BY <2>2, <3>1, <3>2, FS_AddElement
      <3>4. Cardinality(workers) \in Nat
        BY FS_CardinalityType DEF OnceInv, SlotsInv
      <3> QED
        BY <1>5, <3>3, <3>4 DEF OnceInv, SlotsInv, SlotsConserved, MaxInflight
    <2> QED
      BY <2>3, <2>4
  <1>6. ASSUME NEW pc \in {"release", "cleanup", "exit"}, Becomes(w, pc),
               UNCHANGED storeVars
        PROVE  GroupsInv'
    <2>1. \A v \in workers' : v.pc = "rollout" => v \in workers
      BY <1>4, <1>6 DEF Becomes, Workers
    <2> QED
      BY <1>2, <1>3, <1>6, <2>1
         DEF OnceInv, GroupsInv, Kept, storeVars, trainVars
  <1>7. ASSUME NEW pc \in {"release", "cleanup"}, Becomes(w, pc),
               generating' \in {generating, generating \ {w.tgt}}
        PROVE  NoLeakedReservation'
    <2>1. \A v \in workers : \E u \in workers' :
             u.tgt = v.tgt /\ (v.pc # "exit" => u.pc # "exit")
      <3> TAKE v \in workers
      <3>1. CASE v = w
        <4>1. [w EXCEPT !.pc = pc].tgt = w.tgt /\ [w EXCEPT !.pc = pc].pc = pc
          BY <1>4 DEF Workers
        <4> QED
          BY <1>7, <3>1, <4>1 DEF Becomes
      <3>2. CASE v # w
        BY <1>7, <3>2 DEF Becomes
      <3> QED
        BY <3>1, <3>2
    <2> QED
      BY <1>3, <1>7, <2>1 DEF OnceInv, NoLeakedReservation
  <1>8. CASE RolloutFails(w) \/ PushAbandoned(w)
    <2>1. /\ Becomes(w, "cleanup") /\ w.pc = "rollout"
          /\ UNCHANGED <<storeVars, sema, generating>>
      BY <1>8 DEF RolloutFails, PushAbandoned
    <2> QED
      BY <1>1, <1>3, <1>5, <1>6, <1>7, <2>1 DEF OnceInv
  <1>9. CASE PushGroup(w)
    <2> DEFINE pc == IF w.id[2] = 0 THEN "release" ELSE "cleanup"
    <2> DEFINE e == [item |-> [id |-> w.id, born |-> w.born], gen |-> w.gen,
                     tgt |-> w.tgt, at |-> arrivals + 1]
    <2>1. /\ Becomes(w, pc) /\ w.pc = "rollout"
          /\ UNCHANGED <<sema, generating>>
          /\ entries' = entries \union {e}
      BY <1>9 DEF PushGroup, Push
    <2>2. pc \in {"release", "cleanup"}
      OBVIOUS
    <2>3. e.item.id = w.id
      OBVIOUS
    <2> HIDE DEF e, pc
    <2>4. GroupsInv'
      <3>1. \A d \in Kept : d.item.id # w.id
        BY <2>1 DEF OnceInv, GroupsInv
      <3>2. training' = training /\ tpc' = tpc
        BY <1>2 DEF trainVars
      <3>3. Kept' = Kept \union {e}
        BY <2>1, <3>2 DEF Kept
      <3>4. w.id \in Drawn
        BY <2>1 DEF OnceInv, WorkersInv
      <3>5. \A v \in workers' : v.pc = "rollout" => v \in workers /\ v.id # w.id
        BY <1>4, <2>1, <2>2 DEF Becomes, Workers, OnceInv, WorkersInv
      <3>6. \A d \in Kept', v \in workers' : v.id = d.item.id => v.pc # "rollout"
        BY <2>3, <3>3, <3>5 DEF OnceInv, GroupsInv
      <3>7. \A d \in Kept' : d.item.id \in Drawn'
        BY <1>3, <2>3, <3>3, <3>4 DEF OnceInv, GroupsInv
      <3>8. \A c, d \in Kept' : c.item.id = d.item.id => c = d
        BY <2>3, <3>1, <3>3 DEF OnceInv, GroupsInv
      <3>9. entries' \intersect training' = {}
        BY <2>1, <2>3, <3>1, <3>2 DEF OnceInv, GroupsInv, Kept
      <3> QED
        BY <2>1, <3>2, <3>6, <3>7, <3>8, <3>9, FS_AddElement
           DEF OnceInv, GroupsInv
    <2> QED
      BY <1>1, <1>3, <1>5, <1>7, <2>1, <2>2, <2>4 DEF OnceInv
  <1>10. CASE PushRefused(w)
    <2>1. UNCHANGED <<storeVars, workVars>>
      BY <1>10 DEF PushRefused, vars
    <2>2. WorkersInv' /\ SlotsInv' /\ GroupsInv' /\ NoLeakedReservation'
      BY <1>2, <1>3, <2>1 DEF OnceInv, WorkersInv, AtHand, SlotsInv,
            SlotsConserved, MaxInflight, GroupsInv, Kept, NoLeakedReservation,
            storeVars, workVars, collVars, trainVars
    <2> QED
      BY <1>1, <1>3, <2>2 DEF OnceInv
  <1>11. CASE ReleaseTarget(w)
    <2>1. /\ Becomes(w, "cleanup") /\ w.pc = "release"
          /\ UNCHANGED <<storeVars, sema>> /\ generating' = generating \ {w.tgt}
      BY <1>11 DEF ReleaseTarget
    <2> QED
      BY <1>1, <1>3, <1>5, <1>6, <1>7, <2>1 DEF OnceInv
  <1>12. CASE CleanupTarget(w)
    <2>1. /\ Becomes(w, "exit") /\ w.pc = "cleanup"
          /\ UNCHANGED <<storeVars, sema>> /\ generating' = generating \ {w.tgt}
      BY <1>12 DEF CleanupTarget
    <2>2. NoLeakedReservation'
      <3>1. \A v \in workers : v.tgt # w.tgt => v \in workers'
        BY <2>1 DEF Becomes
      <3> QED
        BY <1>3, <2>1, <3>1 DEF OnceInv, NoLeakedReservation
    <2> QED
      BY <1>1, <1>3, <1>5, <1>6, <2>1, <2>2 DEF OnceInv
  <1>13. CASE ExitWorker(w)
    <2>1. /\ workers' = workers \ {w} /\ sema' = sema + 1 /\ w.pc = "exit"
          /\ UNCHANGED <<storeVars, generating>>
      BY <1>13 DEF ExitWorker
    <2>2. WorkersInv' /\ GroupsInv' /\ NoLeakedReservation'
      BY <1>2, <1>3, <2>1 DEF OnceInv, WorkersInv, AtHand, GroupsInv, Kept,
            NoLeakedReservation, storeVars, collVars, trainVars
    <2>3. SlotsInv'
      <3>1. IsFiniteSet(workers') /\ Cardinality(workers') = Cardinality(workers) - 1
        BY <2>1, FS_RemoveElement DEF OnceInv, SlotsInv
      <3>2. sema \in Nat /\ Cardinality(workers) \in Nat
        BY FS_CardinalityType DEF OnceInv, SlotsInv, FreshInv, TypeInv, TypeOK,
              WorkType
      <3> QED
        BY <2>1, <3>1, <3>2 DEF OnceInv, SlotsInv, SlotsConserved, MaxInflight
    <2> QED
      BY <1>1, <1>3, <2>2, <2>3 DEF OnceInv
  <1> QED
    BY <1>8, <1>9, <1>10, <1>11, <1>12, <1>13 DEF WorkerStep

-----------------------------------------------------------------------------
(* The main thread of the collector actor.                                 *)
LEMMA ServeOnceInv == OnceInv /\ Serve => OnceInv'
  <1> SUFFICES ASSUME OnceInv, Serve PROVE OnceInv'
    OBVIOUS
  <1> USE ConstantTypes
  <1>1. FreshInv'
    BY ServeFreshInv DEF OnceInv
  <1>2. UNCHANGED <<storeVars, trainVars, sema, generating, failures, batch,
                    cidx, ctarget>>
    BY DEF Serve, StartCollection, SetWeightVersion, WakeCollection, Pause,
           Resume, PrepareForRefit, PollPending, ResumeAfterRefit, workVars,
           collVars
  <1>3. mailbox \in Seq(Messages)
    BY DEF OnceInv, FreshInv, TypeInv, TypeOK, MainType
  <1>4. CASE StartCollection
    <2>1. /\ mailbox # <<>> /\ Head(mailbox).op = "start_collection"
          /\ mailbox' = Tail(mailbox) /\ cpc' = "fetch"
          /\ UNCHANGED workVars
      BY <1>4 DEF StartCollection, Receive
    <2>2. /\ mailbox[1].op = "start_collection"
          /\ \A i \in 1 .. Len(mailbox') :
                mailbox'[i] = mailbox[i + 1] /\ i + 1 \in 1 .. Len(mailbox)
      BY <1>3, <2>1
    <2>3. cpc = "unstarted" /\ batch = 0 /\ cidx = 0
      BY <1>3, <2>1, <2>2 DEF OnceInv, CollectorInv, InBatch
    <2>4. CollectorInv'
      BY <1>2, <1>3, <2>1, <2>2, <2>3 DEF OnceInv, CollectorInv
    <2>5. Drawn = Drawn'
      BY <1>2, <2>1, <2>3 DEF Drawn, InBatch, GroupIds
    <2>6. WorkersInv' /\ SlotsInv' /\ GroupsInv' /\ NoLeakedReservation'
      BY <1>2, <2>1, <2>3, <2>5 DEF OnceInv, WorkersInv, AtHand, SlotsInv,
            SlotsConserved, MaxInflight, GroupsInv, Kept, NoLeakedReservation,
            InBatch, storeVars, workVars, trainVars
    <2> QED
      BY <1>1, <2>4, <2>6 DEF OnceInv
  <1>5. CASE ~StartCollection
    <2>1. UNCHANGED collVars /\ mailbox' \in {mailbox, Tail(mailbox)}
          /\ (mailbox' = Tail(mailbox) => mailbox # <<>> \/ mailbox' = mailbox)
      BY <1>5 DEF Serve, SetWeightVersion, WakeCollection, Pause, Resume,
             PrepareForRefit, PollPending, ResumeAfterRefit, Receive
    <2>2. CollectorInv'
      <3>1. \A i \in 1 .. Len(mailbox') : \E j \in 1 .. Len(mailbox) :
               mailbox'[i] = mailbox[j]
        BY <1>3, <2>1
      <3>2. ASSUME NEW i \in 1 .. Len(mailbox'),
                   mailbox'[i].op = "start_collection"
            PROVE  i = 1 /\ cpc = "unstarted"
        <4>1. CASE mailbox' = mailbox
          BY <3>2, <4>1 DEF OnceInv, CollectorInv
        <4>2. CASE mailbox' = Tail(mailbox) /\ mailbox # <<>>
          <5>1. i + 1 \in 1 .. Len(mailbox) /\ mailbox'[i] = mailbox[i + 1]
            BY <1>3, <4>2
          <5>2. i + 1 = 1
            BY <3>2, <5>1 DEF OnceInv, CollectorInv
          <5> QED
            BY <5>2
        <4> QED
          BY <2>1, <4>1, <4>2
      <3> QED
        BY <2>1, <3>2 DEF OnceInv, CollectorInv, InBatch, collVars
    <2>3. Drawn' = Drawn /\ (InBatch' <=> InBatch)
      BY <2>1 DEF Drawn, InBatch, collVars
    <2>4. CASE ~PollPending
      <3>1. UNCHANGED workVars
        BY <1>5, <2>4 DEF Serve, SetWeightVersion, WakeCollection, Pause,
               Resume, PrepareForRefit, ResumeAfterRefit
      <3>2. WorkersInv' /\ SlotsInv' /\ GroupsInv' /\ NoLeakedReservation'
        BY <1>2, <2>1, <2>3, <3>1 DEF OnceInv, WorkersInv, AtHand, SlotsInv,
              SlotsConserved, MaxInflight, GroupsInv, Kept,
              NoLeakedReservation, storeVars, workVars, collVars, trainVars
      <3> QED
        BY <1>1, <2>2, <3>2 DEF OnceInv
    <2>5. CASE PollPending
      <3> DEFINE F(w) == IF w.pc = "new" THEN [w EXCEPT !.tracked = FALSE] ELSE w
      <3> DEFINE f == [w \in workers |-> F(w)]
      <3>1. workers' = {F(w) : w \in workers}
        BY <2>5 DEF PollPending
      <3>2. ASSUME NEW w \in workers
            PROVE  F(w).id = w.id /\ F(w).tgt = w.tgt /\ F(w).pc = w.pc
        <4>1. w \in Workers
          BY DEF OnceInv, FreshInv, TypeInv, TypeOK, WorkType
        <4> QED
          BY <4>1 DEF Workers
      <3>3. f \in Bijection(workers, workers')
        <4> HIDE DEF F
        <4>1. f \in [workers -> workers']
          BY <3>1
        <4>2. \A v, w \in workers : f[v] = f[w] => v = w
          BY <3>2 DEF OnceInv, WorkersInv
        <4>3. \A u \in workers' : \E w \in workers : f[w] = u
          BY <3>1
        <4> HIDE DEF f
        <4> QED
          BY <4>1, <4>2, <4>3 DEF Bijection, Injection, Surjection,
                IsInjective
      <3>4. SlotsInv'
        <4>1. ExistsBijection(workers, workers')
          BY <3>3 DEF ExistsBijection
        <4>2. IsFiniteSet(workers') /\ Cardinality(workers') = Cardinality(workers)
          BY <4>1, FS_Bijection DEF OnceInv, SlotsInv
        <4> QED
          BY <1>2, <4>2 DEF OnceInv, SlotsInv, SlotsConserved, MaxInflight
      <3> HIDE DEF F
      <3>5. WorkersInv'
        BY <2>1, <2>3, <3>1, <3>2 DEF OnceInv, WorkersInv, AtHand, collVars
      <3>6. GroupsInv'
        BY <1>2, <2>3, <3>1, <3>2 DEF OnceInv, GroupsInv, Kept, storeVars,
              trainVars
      <3>7. NoLeakedReservation'
        BY <1>2, <2>3, <3>1, <3>2 DEF OnceInv, NoLeakedReservation
      <3> QED
        BY <1>1, <2>2, <3>4, <3>5, <3>6, <3>7 DEF OnceInv
    <2> QED
      BY <2>4, <2>5
  <1> QED
    BY <1>4, <1>5

-----------------------------------------------------------------------------
(* The trainer.                                                            *)
LEMMA TrainOnceInv == OnceInv /\ Train => OnceInv'
  <1> SUFFICES ASSUME OnceInv, Train PROVE OnceInv'
    OBVIOUS
  <1> USE ConstantTypes
  <1>1. FreshInv'
    BY TrainFreshInv DEF OnceInv
  <1>2. UNCHANGED <<flagVars, collVars, workVars>>
    BY DEF vars, Train, InitialRefit, BeginValidationAtStart,
           EndValidationAtStart, BufferFilled, FillStalls, TakeBatch,
           SampleStalls, SampleRaises, TrainStep, RefitMayBegin, RefitDone,
           BeginValidation, EndValidation, FinishStep
  <1>3. WorkersInv' /\ SlotsInv' /\ NoLeakedReservation' /\ Drawn' = Drawn
    BY <1>2 DEF OnceInv, WorkersInv, AtHand, SlotsInv, SlotsConserved,
          MaxInflight, NoLeakedReservation, InBatch, Drawn, workVars, collVars
  <1>4. CollectorInv'
    <2>1. mailbox \in Seq(Messages)
      BY DEF OnceInv, FreshInv, TypeInv, TypeOK, MainType
    <2>2. \/ mailbox' = mailbox
          \/ \E ops \in Seq(Messages) :
                /\ mailbox' = mailbox \o ops
                /\ \A i \in 1 .. Len(ops) : ops[i].op # "start_collection"
      <3>1. ASSUME NEW op \in {"pause", "resume", "prepare_for_refit"},
                   mailbox' = mailbox \o <<Call(op)>>
            PROVE  \E ops \in Seq(Messages) :
                      /\ mailbox' = mailbox \o ops
                      /\ \A i \in 1 .. Len(ops) : ops[i].op # "start_collection"
        <4>1. <<Call(op)>> \in Seq(Messages)
          BY DEF Call, Messages
        <4>2. \A i \in 1 .. Len(<<Call(op)>>) :
                 <<Call(op)>>[i].op # "start_collection"
          BY DEF Call
        <4> QED
          BY <3>1, <4>1, <4>2
      <3>2. CASE RefitDone
        <4> DEFINE ops == CallsAfterRefit(weightVersion + 1)
        <4>1. weightVersion + 1 \in Versions
          <5>1. weightVersion = step /\ step < MaxSteps /\ step \in Versions
            BY <3>2 DEF RefitDone, OnceInv, FreshInv, TypeInv, TypeOK,
                  TrainType, StepsAgree
          <5> QED
            BY <5>1 DEF Versions
        <4>2. ops \in Seq(Messages)
          BY <4>1 DEF CallsAfterRefit, Call, Messages
        <4>3. \A i \in 1 .. Len(ops) : ops[i].op # "start_collection"
          BY DEF CallsAfterRefit, Call
        <4> QED
          BY <3>2, <4>2, <4>3 DEF RefitDone, Send
      <3>3. CASE BeginValidationAtStart \/ EndValidationAtStart \/ TrainStep
                 \/ BeginValidation \/ EndValidation
        BY <3>1, <3>3 DEF BeginValidationAtStart, EndValidationAtStart,
              TrainStep, BeginValidation, EndValidation, Send
      <3>4. CASE ~(RefitDone \/ BeginValidationAtStart \/ EndValidationAtStart
                   \/ TrainStep \/ BeginValidation \/ EndValidation)
        BY <3>4 DEF vars, Train, InitialRefit, BufferFilled, FillStalls,
              TakeBatch, SampleStalls, SampleRaises, RefitMayBegin, FinishStep,
              mainVars
      <3> QED
        BY <3>2, <3>3, <3>4
    <2>3. ASSUME NEW i \in 1 .. Len(mailbox'),
                 mailbox'[i].op = "start_collection"
          PROVE  i = 1 /\ cpc = "unstarted"
      <3>1. CASE mailbox' = mailbox
        BY <2>3, <3>1 DEF OnceInv, CollectorInv
      <3>2. CASE mailbox' # mailbox
        <4>1. PICK ops \in Seq(Messages) :
                /\ mailbox' = mailbox \o ops
                /\ \A j \in 1 .. Len(ops) : ops[j].op # "start_collection"
          BY <2>2, <3>2
        <4>2. CASE i <= Len(mailbox)
          <5>1. mailbox'[i] = mailbox[i] /\ i \in 1 .. Len(mailbox)
            BY <2>1, <4>1, <4>2
          <5> QED
            BY <2>3, <5>1 DEF OnceInv, CollectorInv
        <4>3. CASE ~(i <= Len(mailbox))
          <5>1. /\ mailbox'[i] = ops[i - Len(mailbox)]
                /\ i - Len(mailbox) \in 1 .. Len(ops)
            BY <2>1, <4>1, <4>3
          <5> QED
            BY <2>3, <4>1, <5>1
        <4> QED
          BY <4>2, <4>3
      <3> QED
        BY <3>1, <3>2
    <2> QED
      BY <1>2, <2>3 DEF OnceInv, CollectorInv, InBatch, collVars
  <1>5. GroupsInv'
    <2>1. CASE TakeBatch
      <3>1. PICK T \in SUBSET Intended(weightVersion) :
               entries' = entries \ T /\ training' = T
        BY <2>1 DEF TakeBatch, Sample
      <3>2. T \subseteq entries
        BY <3>1 DEF Intended
      <3>3. tpc = "sample" /\ tpc' = "train" /\ training = {}
        BY <2>1 DEF TakeBatch, OnceInv, GroupsInv
      <3>4. Kept' = Kept /\ entries' \intersect training' = {}
        BY <3>1, <3>2, <3>3 DEF Kept
      <3> QED
        BY <1>2, <1>3, <3>1, <3>3, <3>4, FS_Subset
           DEF OnceInv, GroupsInv, workVars
    <2>2. CASE ~TakeBatch
      <3>1. entries' = entries /\ training' \in {training, {}}
            /\ (tpc' = "train" => tpc = "train")
            /\ (tpc = "train" => tpc' = "train" \/ training' = {})
        BY <2>2 DEF vars, storeVars, trainVars, Train, InitialRefit,
              BeginValidationAtStart, EndValidationAtStart, BufferFilled,
              FillStalls, SampleStalls, SampleRaises, TrainStep,
              RefitMayBegin, RefitDone, BeginValidation, EndValidation,
              FinishStep
      <3>2. Kept' \subseteq Kept
        BY <3>1 DEF Kept
      <3> QED
        BY <1>2, <1>3, <3>1, <3>2 DEF OnceInv, GroupsInv, workVars
    <2> QED
      BY <2>1, <2>2
  <1> QED
    BY <1>1, <1>3, <1>4, <1>5 DEF OnceInv

LEMMA StutterOnceInv == OnceInv /\ UNCHANGED vars => OnceInv'
  <1> SUFFICES ASSUME OnceInv, UNCHANGED vars PROVE OnceInv'
    OBVIOUS
  <1>1. FreshInv'
    BY StutterFreshInv DEF OnceInv
  <1>2. CollectorInv' /\ WorkersInv' /\ SlotsInv'
    BY DEF OnceInv, CollectorInv, WorkersInv, AtHand, SlotsInv, SlotsConserved,
           MaxInflight, InBatch, Drawn, vars, workVars, collVars, mainVars
  <1>3. GroupsInv' /\ NoLeakedReservation'
    BY DEF OnceInv, GroupsInv, Kept, NoLeakedReservation, InBatch, Drawn, vars,
           storeVars, workVars, collVars, trainVars
  <1> QED
    BY <1>1, <1>2, <1>3 DEF OnceInv

LEMMA OnceInvInvariant == Spec => []OnceInv
  <1>1. OnceInv /\ [Next]_vars => OnceInv'
    BY CollectOnceInv, ServeOnceInv, TrainOnceInv, WorkerOnceInv,
       StutterOnceInv DEF Next, Terminated
  <1> QED
    BY InitOnceInv, <1>1, PTL DEF Spec

(* No slot of the semaphore that bounds the groups in flight is ever lost  *)
(* or given back twice, whichever way the workers' rollouts end.           *)
THEOREM SlotsNeverLost == Spec => []SlotsConserved
  <1>1. OnceInv => SlotsConserved
    BY DEF OnceInv, SlotsInv
  <1> QED
    BY <1>1, OnceInvInvariant, PTL

(* No target stays reserved for ever: somebody alive will give it back.    *)
THEOREM ReservationsNeverLeak == Spec => []NoLeakedReservation
  <1>1. OnceInv => NoLeakedReservation
    BY DEF OnceInv
  <1> QED
    BY <1>1, OnceInvInvariant, PTL

-----------------------------------------------------------------------------
(***************************************************************************)
(* Asynchronous GRPO implements BoundedStaleness: each step of a thread is *)
(* a step of the abstract learner or sampler, or is not visible to them.   *)
(***************************************************************************)
(* What the learner and the pool see stays the same unless the trainer or  *)
(* the buffer moves.                                                       *)
LEMMA SamePools ==
  ASSUME UNCHANGED <<entries, training>>
  PROVE  UNCHANGED <<AsGroups(entries), AsGroups(training)>>
  OBVIOUS

LEMMA SameLearner ==
  ASSUME UNCHANGED <<tpc, weightVersion>>
  PROVE  UNCHANGED Learner
  BY DEF Learner

(* The instance has a Cardinality of its own.                              *)
LEMMA SameCardinality == \A S : Promise!Cardinality(S) = Cardinality(S)
  BY DEF Promise!Cardinality, Cardinality, Promise!IsFiniteSet, IsFiniteSet

LEMMA InitPromise == Init => Promise!Init
  BY DEF Init, StoreInit, Promise!Init, Learner, Drawn, InBatch, GroupIds,
         Rolling, AsGroups

(* The collection thread begins rollouts and passes prompts over.          *)
LEMMA CollectPromise ==
  ASSUME OnceInv, Collect
  PROVE  Promise!Begin \/ Promise!Skip
  <1> USE ConstantTypes
  <1>1. UNCHANGED <<Learner, engine, AsGroups(entries), AsGroups(training)>>
    <2>1. UNCHANGED <<storeVars, trainVars>>
      BY DEF Collect, NextBatch, LoopEnds, ManualGate, RefitGate, LimitAsk,
              LimitCheck, LimitWarn, LimitClear, LimitWait, BatchStart,
              TargetAsk, Reserve, DropBatch, PromptGate, PromptSeesRefit,
              PromptAfterRefit, SpawnWorker, StartWorker
    <2> QED
      BY <2>1, SamePools, SameLearner DEF storeVars, trainVars
  <1>2. Drawn \subseteq Drawn'
    BY DrawnGrows
  <1>3. CASE StartWorker
    <2> DEFINE id == <<batch, cidx>>
    <2>1. PICK w \in workers :
               /\ w.pc = "new"
               /\ workers' = (workers \ {w}) \union
                     {[w EXCEPT !.pc = "rollout", !.born = engine]}
      BY <1>3 DEF StartWorker
    <2>2. w.id = id /\ cpc = "start"
      BY <2>1 DEF OnceInv, WorkersInv, AtHand
    <2>3. batch \in 0 .. NumBatches /\ cidx \in PromptIdx /\ batch >= 1
      BY <2>2 DEF OnceInv, FreshInv, TypeInv, TypeOK, CollType, HoldsBatch
    <2>4. id \in GroupIds \ Drawn
      BY <2>2, <2>3, AtHandNotDrawn DEF GroupIds, InBatch
    <2>5. Drawn' = Drawn \union {id}
      <3>1. batch' = batch
        BY <1>3 DEF StartWorker
      <3>2. CASE MorePrompts
        <4>1. cpc' = "prompt_gate" /\ cidx' = cidx + 1
          BY <1>3, <3>2 DEF StartWorker
        <4>2. \A x \in GroupIds : x[2] \in Int /\ x = <<x[1], x[2]>>
          BY <2>3 DEF GroupIds, PromptIdx
        <4>3. \A x \in GroupIds : x \in Drawn' <=> (x \in Drawn \/ x = id)
          BY <2>2, <2>3, <3>1, <4>1, <4>2 DEF Drawn, InBatch, PromptIdx
        <4> QED
          BY <2>4, <4>3 DEF Drawn
      <3>3. CASE ~MorePrompts
        <4>1. cpc' = "fetch"
          BY <1>3, <3>3 DEF StartWorker, BatchOver
        <4>2. \A x \in GroupIds : /\ x = <<x[1], x[2]>>
                                  /\ x[2] \in Int /\ x[2] <= cidx
          BY <2>3, <3>3 DEF GroupIds, PromptIdx, MorePrompts
        <4>3. \A x \in GroupIds : x \in Drawn' <=> (x \in Drawn \/ x = id)
          BY <2>2, <2>3, <3>1, <4>1, <4>2 DEF Drawn, InBatch, PromptIdx
        <4> QED
          BY <2>4, <4>3 DEF Drawn
      <3> QED
        BY <3>2, <3>3
    <2>6. Rolling' = Rolling \union {[id |-> id, born |-> engine]}
      <3> DEFINE started == [w EXCEPT !.pc = "rollout", !.born = engine]
      <3>1. started.id = id /\ started.born = engine /\ started.pc = "rollout"
        BY <2>1, <2>2 DEF OnceInv, FreshInv, TypeInv, TypeOK, WorkType, Workers
      <3>2. workers' = (workers \ {w}) \union {started}
        BY <2>1
      <3> HIDE DEF started, id
      <3> QED
        BY <2>1, <3>1, <3>2 DEF Rolling
    <2> QED
      BY <1>1, <2>4, <2>5, <2>6 DEF Promise!Begin
  <1>4. CASE ~StartWorker
    <2>1. workers' = workers \/ \E new : new.pc = "new" /\ workers' = workers \union {new}
      <3>1. CASE SpawnWorker
        <4> DEFINE new == [id |-> <<batch, cidx>>, gen |-> cver, tgt |-> ctarget,
                           born |-> Dummy, pc |-> "new", tracked |-> TRUE]
        <4>1. new.pc = "new" /\ workers' = workers \union {new}
          BY <3>1 DEF SpawnWorker
        <4> QED
          BY <4>1
      <3>2. CASE ~SpawnWorker
        BY <1>4, <3>2 DEF Collect, NextBatch, LoopEnds, ManualGate, RefitGate,
              LimitAsk, LimitCheck, LimitWarn, LimitClear, LimitWait,
              BatchStart, TargetAsk, Reserve, DropBatch, PromptGate,
              PromptSeesRefit, PromptAfterRefit, workVars
      <3> QED
        BY <3>1, <3>2
    <2>2. Rolling' = Rolling
      BY <2>1 DEF Rolling
    <2>3. Drawn' \subseteq GroupIds
      BY DEF Drawn, GroupIds
    <2>4. Drawn' \ Drawn \in SUBSET (GroupIds \ Drawn)
          /\ Drawn' = Drawn \union (Drawn' \ Drawn)
      BY <1>2, <2>3
    <2> QED
      BY <1>1, <2>2, <2>4 DEF Promise!Skip
  <1> QED
    BY <1>3, <1>4

(* A worker finishes its group, loses it, or does what nobody sees.        *)
LEMMA WorkerPromise ==
  ASSUME OnceInv, NEW w \in workers, WorkerStep(w)
  PROVE  \/ \E g \in Rolling : Promise!Finish(g) \/ Promise!Lose(g)
         \/ UNCHANGED Promise!vars
  <1> DEFINE g == [id |-> w.id, born |-> w.born]
  <1> USE DEF Promise!vars
  <1>1. UNCHANGED <<flagVars, collVars, mainVars, trainVars>>
    BY DEF WorkerStep, vars, RolloutFails, PushGroup, PushRefused,
              PushAbandoned, ReleaseTarget, CleanupTarget, ExitWorker
  <1>2. UNCHANGED <<Learner, engine, Drawn, AsGroups(training)>>
    BY <1>1, SameLearner DEF collVars, trainVars, Drawn, InBatch
  <1>3. w \in Workers
    BY DEF OnceInv, FreshInv, TypeInv, TypeOK, WorkType
  <1>4. ASSUME NEW pc \in {"release", "cleanup", "exit"}, Becomes(w, pc),
               w.pc = "rollout"
        PROVE  g \in Rolling /\ Rolling' = Rolling \ {g}
    <2> DEFINE moved == [w EXCEPT !.pc = pc]
    <2>1. moved.pc # "rollout"
      BY <1>3, <1>4 DEF Workers
    <2>2. workers' = (workers \ {w}) \union {moved}
      BY <1>4 DEF Becomes
    <2> HIDE DEF moved
    <2>3. g \in Rolling
      BY <1>4 DEF Rolling
    <2>4. \A v \in workers \ {w} : [id |-> v.id, born |-> v.born] # g
      <3>1. \A v \in workers \ {w} : v.id # w.id
        BY DEF OnceInv, WorkersInv
      <3>2. \A v \in workers \ {w} : [id |-> v.id, born |-> v.born].id # g.id
        BY <3>1
      <3> QED
        BY <3>2
    <2> HIDE DEF g
    <2>5. Rolling' = {[id |-> v.id, born |-> v.born] :
                        v \in {x \in workers \ {w} : x.pc = "rollout"}}
      BY <2>1, <2>2 DEF Rolling
    <2>6. Rolling = {[id |-> v.id, born |-> v.born] :
                       v \in {x \in workers \ {w} : x.pc = "rollout"}}
                    \union {g}
      BY <1>4 DEF Rolling, g
    <2>7. g \notin Rolling'
      BY <2>4, <2>5
    <2> QED
      BY <2>3, <2>5, <2>6, <2>7
  <1>5. ASSUME NEW pc \in {"release", "cleanup", "exit"}, Becomes(w, pc),
               w.pc # "rollout"
        PROVE  Rolling' = Rolling
    <2>1. [w EXCEPT !.pc = pc].pc # "rollout"
      BY <1>3, <1>5 DEF Workers
    <2> QED
      BY <1>5, <2>1 DEF Becomes, Rolling
  <1>6. CASE RolloutFails(w) \/ PushAbandoned(w)
    <2>1. Becomes(w, "cleanup") /\ w.pc = "rollout" /\ entries' = entries
      BY <1>6 DEF RolloutFails, PushAbandoned, storeVars
    <2>2. g \in Rolling /\ Rolling' = Rolling \ {g}
      BY <1>4, <2>1
    <2>3. Promise!Lose(g)
      BY <1>2, <2>1, <2>2 DEF Promise!Lose
    <2> QED
      BY <2>2, <2>3
  <1>7. CASE PushGroup(w)
    <2> DEFINE e == [item |-> g, gen |-> w.gen, tgt |-> w.tgt, at |-> arrivals + 1]
    <2>1. /\ Becomes(w, IF w.id[2] = 0 THEN "release" ELSE "cleanup")
          /\ w.pc = "rollout" /\ entries' = entries \union {e}
      BY <1>7 DEF PushGroup, Push
    <2>2. g \in Rolling /\ Rolling' = Rolling \ {g}
      BY <1>4, <2>1
    <2>3. AsGroups(entries') = AsGroups(entries) \union {g}
      <3>1. [id |-> e.item.id, born |-> e.item.born] = g
        OBVIOUS
      <3> HIDE DEF e, g
      <3> QED
        BY <2>1, <3>1 DEF AsGroups
    <2>4. AsGroups(entries)' = AsGroups(entries')
      BY DEF AsGroups
    <2>5. Promise!Finish(g)
      BY <1>2, <2>2, <2>3, <2>4 DEF Promise!Finish
    <2> QED
      BY <2>2, <2>5
  <1>8. CASE PushRefused(w)
    BY <1>2, <1>8 DEF PushRefused, vars, storeVars, workVars, Rolling, AsGroups
  <1>9. CASE ReleaseTarget(w)
    <2>1. Becomes(w, "cleanup") /\ w.pc # "rollout" /\ entries' = entries
      BY <1>9 DEF ReleaseTarget, storeVars
    <2> QED
      BY <1>2, <1>5, <2>1 DEF AsGroups
  <1>10. CASE CleanupTarget(w)
    <2>1. Becomes(w, "exit") /\ w.pc # "rollout" /\ entries' = entries
      BY <1>10 DEF CleanupTarget, storeVars
    <2> QED
      BY <1>2, <1>5, <2>1 DEF AsGroups
  <1>11. CASE ExitWorker(w)
    <2>1. /\ workers' = workers \ {w} /\ w.pc # "rollout" /\ entries' = entries
      BY <1>11 DEF ExitWorker, storeVars
    <2>2. Rolling' = Rolling
      BY <2>1 DEF Rolling
    <2> QED
      BY <1>2, <2>1, <2>2 DEF AsGroups
  <1> QED
    BY <1>6, <1>7, <1>8, <1>9, <1>10, <1>11 DEF WorkerStep

(* The main thread of the collector does nothing the promise speaks of.    *)
LEMMA ServePromise ==
  ASSUME OnceInv, Serve
  PROVE  UNCHANGED Promise!vars
  <1> USE DEF Promise!vars
  <1>1. UNCHANGED <<storeVars, trainVars, batch, cidx>>
    BY DEF Serve, StartCollection, SetWeightVersion, WakeCollection, Pause,
           Resume, PrepareForRefit, PollPending, ResumeAfterRefit, workVars,
           collVars
  <1>2. UNCHANGED <<Learner, engine, AsGroups(entries), AsGroups(training)>>
    BY <1>1, SamePools, SameLearner DEF storeVars, trainVars
  <1>3. Drawn' = Drawn
    <2>1. CASE StartCollection
      <3>1. /\ mailbox \in Seq(Messages) /\ mailbox # <<>>
            /\ Head(mailbox).op = "start_collection" /\ cpc' = "fetch"
        BY <2>1 DEF StartCollection, Receive, OnceInv, FreshInv, TypeInv,
              TypeOK, MainType
      <3>2. mailbox[1].op = "start_collection" /\ 1 \in 1 .. Len(mailbox)
        BY <3>1
      <3>3. cpc = "unstarted" /\ batch = 0
        BY <3>2 DEF OnceInv, CollectorInv
      <3> QED
        BY <1>1, <3>1, <3>3 DEF Drawn, InBatch, GroupIds
    <2>2. CASE ~StartCollection
      BY <2>2 DEF Serve, SetWeightVersion, WakeCollection, Pause, Resume,
             PrepareForRefit, PollPending, ResumeAfterRefit, Drawn, InBatch,
             collVars
    <2> QED
      BY <2>1, <2>2
  <1>4. Rolling' = Rolling
    <2>1. CASE PollPending
      <3> DEFINE F(w) == IF w.pc = "new" THEN [w EXCEPT !.tracked = FALSE] ELSE w
      <3>1. workers' = {F(w) : w \in workers}
        BY <2>1 DEF PollPending
      <3>2. \A w \in workers : IF w.pc = "new" THEN F(w).pc = "new" ELSE F(w) = w
        BY DEF OnceInv, FreshInv, TypeInv, TypeOK, WorkType, Workers
      <3> HIDE DEF F
      <3>3. {x \in workers' : x.pc = "rollout"} = {x \in workers : x.pc = "rollout"}
        BY <3>1, <3>2
      <3> QED
        BY <3>3 DEF Rolling
    <2>2. CASE ~PollPending
      BY <2>2 DEF Serve, StartCollection, SetWeightVersion, WakeCollection,
             Pause, Resume, PrepareForRefit, ResumeAfterRefit, workVars, Rolling
    <2> QED
      BY <2>1, <2>2
  <1> QED
    BY <1>2, <1>3, <1>4

(* The trainer learns from whole, fresh batches and synchronises.          *)
LEMMA TrainPromise ==
  ASSUME OnceInv, Train
  PROVE  \/ Promise!TakeBatch \/ Promise!Learn \/ Promise!Synchronise
         \/ UNCHANGED Promise!vars
  <1> USE ConstantTypes DEF Promise!vars
  <1>1. UNCHANGED <<flagVars, collVars, workVars>>
    BY DEF vars, Train, InitialRefit, BeginValidationAtStart,
           EndValidationAtStart, BufferFilled, FillStalls, TakeBatch,
           SampleStalls, SampleRaises, TrainStep, RefitMayBegin, RefitDone,
           BeginValidation, EndValidation, FinishStep
  <1>2. UNCHANGED <<Drawn, Rolling>>
    BY <1>1 DEF collVars, workVars, Drawn, InBatch, Rolling
  <1>3. /\ weightVersion \in Nat /\ step \in Nat /\ weightVersion >= StartStep
        /\ engine \in {weightVersion, Dummy} /\ (engine = Dummy => tpc = "init_refit")
        /\ entries \subseteq Entries
    BY DEF OnceInv, FreshInv, TypeInv, TypeOK, TrainType, StoreType, EngineInv,
           Versions
  <1>4. CASE TakeBatch
    <2>1. PICK T \in SUBSET Intended(weightVersion) :
             /\ FirstOf(T, Intended(weightVersion))
             /\ entries' = entries \ T /\ training' = T
      BY <1>4 DEF TakeBatch, Sample
    <2>2. /\ tpc = "sample" /\ tpc' = "train" /\ training = {}
          /\ UNCHANGED <<weightVersion, engine>>
      BY <1>4 DEF TakeBatch, OnceInv, GroupsInv
    <2>3. Learner = weightVersion /\ UNCHANGED Learner /\ engine = weightVersion
          /\ weightVersion < MaxSteps
      BY <1>3, <2>2 DEF Learner, OnceInv, FreshInv, TypeInv, StepsAgree
    <2>4. T \subseteq entries /\ IsFiniteSet(T) /\ Cardinality(T) = NumPrompts
      BY <2>1, FS_Subset DEF Intended, FirstOf, OnceInv, GroupsInv
    <2>5. \A c, d \in entries : c.item.id = d.item.id => c = d
      BY DEF OnceInv, GroupsInv, Kept
    <2>6. Cardinality(AsGroups(T)) = NumPrompts
      <3> DEFINE f == [e \in T |-> [id |-> e.item.id, born |-> e.item.born]]
      <3>1. f \in [T -> AsGroups(T)] /\ \A u \in AsGroups(T) : \E e \in T : f[e] = u
        BY DEF AsGroups
      <3>2. \A c, d \in T : f[c] = f[d] => c = d
        <4> TAKE c, d \in T
        <4> HAVE f[c] = f[d]
        <4>1. f[c].id = c.item.id /\ f[d].id = d.item.id
          OBVIOUS
        <4> QED
          BY <2>4, <2>5, <4>1
      <3> HIDE DEF f
      <3>3. f \in Bijection(T, AsGroups(T))
        BY <3>1, <3>2 DEF Bijection, Injection, Surjection, IsInjective
      <3>4. ExistsBijection(T, AsGroups(T))
        BY <3>3 DEF ExistsBijection
      <3> QED
        BY <2>4, <3>4, FS_Bijection
    <2>7. AsGroups(entries \ T) = AsGroups(entries) \ AsGroups(T)
      <3>1. \A c \in entries \ T, d \in T :
               [id |-> c.item.id, born |-> c.item.born]
                  # [id |-> d.item.id, born |-> d.item.born]
        <4> TAKE c \in entries \ T, d \in T
        <4>1. c.item.id # d.item.id
          BY <2>4, <2>5
        <4>2. [id |-> c.item.id, born |-> c.item.born].id
                 # [id |-> d.item.id, born |-> d.item.born].id
          BY <4>1
        <4> QED
          BY <4>2
      <3> QED
        BY <2>4, <3>1 DEF AsGroups
    <2>8. ASSUME NEW e \in T
          PROVE  Promise!Usable([id |-> e.item.id, born |-> e.item.born])
      <3>1. /\ e \in entries /\ e.gen \in Nat /\ e.item.born \in Int
            /\ MinValidVersion(weightVersion) <= e.gen /\ e.gen <= weightVersion
        BY <1>3, <2>4 DEF Intended, Entries, Items, Versions, Dummy
      <3>2. weightVersion - MaxAge <= e.gen
        BY <1>3, <3>1 DEF MinValidVersion
      <3>3. /\ e.gen <= e.item.born \/ (e.item.born = Dummy /\ e.gen = StartStep)
            /\ e.item.born <= weightVersion
        BY <2>3, <3>1 DEF OnceInv, FreshInv, StoreInv, Honest
      <3> QED
        BY <1>3, <2>3, <3>1, <3>2, <3>3 DEF Promise!Usable
    <2>9. AsGroups(T) \in SUBSET {g \in AsGroups(entries) : Promise!Usable(g)}
      BY <2>4, <2>8 DEF AsGroups
    <2>10. AsGroups(training) = {}
      BY <2>2 DEF AsGroups
    <2>11. AsGroups(training)' = AsGroups(T)
           /\ AsGroups(entries)' = AsGroups(entries) \ AsGroups(T)
      BY <2>1, <2>7 DEF AsGroups
    <2> QED
      <3> DEFINE G == AsGroups(T)
      <3>1. /\ G \in SUBSET {g \in AsGroups(entries) : Promise!Usable(g)}
            /\ Cardinality(G) = NumPrompts
            /\ AsGroups(training)' = G /\ AsGroups(entries)' = AsGroups(entries) \ G
        BY <2>6, <2>9, <2>11
      <3>2. /\ AsGroups(training) = {} /\ engine = Learner /\ Learner < MaxSteps
            /\ UNCHANGED <<Learner, engine, Drawn, Rolling>>
        BY <1>2, <2>2, <2>3, <2>10
      <3> HIDE DEF G
      <3> QED
        BY <3>1, <3>2, SameCardinality DEF Promise!TakeBatch
  <1>5. CASE TrainStep
    <2>1. /\ tpc = "train" /\ training' = {} /\ tpc' = "await_prepared"
          /\ UNCHANGED <<weightVersion, engine, entries>>
      BY <1>5 DEF TrainStep, storeVars
    <2>2. training # {}
      <3>1. Cardinality(training) = NumPrompts
        BY <2>1 DEF OnceInv, FreshInv, TrainInv, TrainedBatchFresh
      <3>2. Cardinality({}) = 0
        BY FS_EmptySet
      <3> QED
        BY <3>1, <3>2
    <2>3. AsGroups(training) # {} /\ AsGroups(training)' = {}
          /\ UNCHANGED AsGroups(entries)
      BY <2>1, <2>2 DEF AsGroups
    <2>4. Learner' = Learner + 1
      BY <2>1 DEF Learner
    <2> QED
      BY <1>2, <2>1, <2>3, <2>4 DEF Promise!Learn
  <1>6. CASE InitialRefit \/ RefitDone
    <2>1. training = {} /\ UNCHANGED <<training, entries>>
      BY <1>6 DEF InitialRefit, RefitDone, OnceInv, GroupsInv, storeVars
    <2>2. AsGroups(training) = {} /\ UNCHANGED <<AsGroups(entries), AsGroups(training)>>
      BY <2>1 DEF AsGroups
    <2>3. UNCHANGED Learner /\ engine' = Learner
      BY <1>6 DEF InitialRefit, RefitDone, Learner
    <2>4. CASE engine # Learner
      BY <1>2, <2>2, <2>3, <2>4 DEF Promise!Synchronise
    <2>5. CASE engine = Learner
      BY <1>2, <2>2, <2>3, <2>5
    <2> QED
      BY <2>4, <2>5
  <1>7. CASE ~TakeBatch /\ ~TrainStep /\ ~InitialRefit /\ ~RefitDone
    <2>1. UNCHANGED <<entries, training, engine, weightVersion>>
          /\ (tpc \in {"await_prepared", "refit"} <=> tpc' \in {"await_prepared", "refit"})
      BY <1>7 DEF vars, storeVars, trainVars, Train, BeginValidationAtStart,
            EndValidationAtStart, BufferFilled, FillStalls, SampleStalls,
            SampleRaises, RefitMayBegin, BeginValidation, EndValidation,
            FinishStep
    <2>2. UNCHANGED <<Learner, AsGroups(entries), AsGroups(training)>>
      BY <2>1 DEF Learner, AsGroups
    <2> QED
      BY <1>2, <2>1, <2>2
  <1> QED
    BY <1>4, <1>5, <1>6, <1>7

LEMMA StutterPromise ==
  ASSUME UNCHANGED vars
  PROVE  UNCHANGED Promise!vars
  <1>1. UNCHANGED <<Learner, engine, AsGroups(entries), AsGroups(training)>>
    BY SamePools, SameLearner DEF vars, storeVars, trainVars
  <1>2. UNCHANGED <<Drawn, Rolling>>
    BY DEF vars, collVars, workVars, Drawn, InBatch, Rolling
  <1> QED
    BY <1>1, <1>2 DEF Promise!vars

(* Every behaviour of the threads, the calls and the buffer together is one*)
(* the documentation promises: whole batches, groups at most MaxAge steps  *)
(* old and used once, new weights before the next batch.                   *)
THEOREM ImplementsPromise == Spec => KeepsPromise
  <1>1. OnceInv /\ [Next]_vars => [Promise!Next]_Promise!vars
    BY CollectPromise, WorkerPromise, ServePromise, TrainPromise,
       StutterPromise DEF Next, Terminated, Promise!Next
  <1> QED
    BY InitPromise, OnceInvInvariant, <1>1, PTL
       DEF Spec, Promise!Spec, KeepsPromise
=============================================================================
