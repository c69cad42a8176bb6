----------------------------- MODULE AsyncGRPO -----------------------------
(***************************************************************************)
(* Asynchronous GRPO: the training loop async_grpo_train                   *)
(* (nemo_rl/algorithms/grpo.py), the Ray actor AsyncTrajectoryCollector    *)
(* and the Ray actor ReplayBuffer (nemo_rl/algorithms/async_utils.py), and *)
(* the inference engine they share.                                        *)
(*                                                                         *)
(* Threads: the trainer (tpc); the main thread of the collector actor      *)
(* (mpc), which serves the trainer's calls one at a time, in the order     *)
(* they were made (mailbox); the collection thread of that actor (cpc);    *)
(* and one worker thread for each prompt group in flight (workers).  A     *)
(* step ends where another thread can act: at an event, a lock, the        *)
(* semaphore, a call to the buffer actor, or a read of a shared field.     *)
(*                                                                         *)
(* Weights are numbered by the training step they are used for.  engine is *)
(* the number of the weights the inference engine holds and Dummy before   *)
(* the first refit, since vLLM is built with load_format "dummy".          *)
(***************************************************************************)
EXTENDS ReplayStore, Sequences

CONSTANTS
    StartStep,      \* grpo_save_state["current_step"] when the run starts
    MaxSteps,       \* grpo.max_num_steps
    NumBatches,     \* batches the dataloader yields before it is exhausted
    InFlight,       \* async_engine and in_flight_weight_updates
    MaxFailures,    \* bound on the rollouts that raise an exception
    ValPeriod,      \* grpo.val_period, 0 for never
    ValAtStart,     \* grpo.val_at_start
    ValAtEnd        \* grpo.val_at_end

ASSUME AsyncAssumption ==
    /\ MaxAge >= 1
    /\ MaxSize = NumPrompts * MaxAge * 2
    /\ StartStep \in Nat
    /\ MaxSteps \in Nat /\ MaxSteps > StartStep
    /\ NumBatches \in Nat
    /\ InFlight \in BOOLEAN
    /\ MaxFailures \in Nat
    /\ ValPeriod \in Nat
    /\ ValAtStart \in BOOLEAN
    /\ ValAtEnd \in BOOLEAN

Dummy == -1             \* engine weights nobody has loaded yet
NoTarget == -1          \* no reservation made for the batch at hand
NoVersion == -1         \* Python's None for _last_limit_warning_version
MaxInflight == NumPrompts * MaxAge
PromptIdx == 0 .. NumPrompts - 1
GroupIds == (1 .. NumBatches) \X PromptIdx

VARIABLES
    running,        \* self.running
    version,        \* self.current_weight_version
    manualClear,    \* event _manual_pause_cleared
    refitClear,     \* event _refit_pause_cleared
    limitClear,     \* event _generation_limit_cleared
    limitWarned,    \* _last_limit_warning_version
    sema,           \* free slots of _inflight_sema
    generating,     \* _generating_targets, the reservations
    workers,        \* live worker threads: [id, gen, tgt, born, pc, tracked]
    cpc,            \* collection thread
    batch,          \* batches drawn from the dataloader
    cver, clast,    \* its local weight version and last target
    ctarget, cidx,  \* the target reserved for the batch, the next prompt
    mpc, mailbox,   \* main thread of the collector actor and its calls
    prepared,       \* the answer to prepare_for_refit is available
    tpc,            \* trainer
    step,           \* its step
    weightVersion,  \* its weight_version
    training,       \* the groups it is training on
    engine,         \* the weights the inference engine generates with
    failures        \* rollouts that have raised so far

flagVars ==
    <<running, version, manualClear, refitClear, limitClear, limitWarned>>
collVars == <<cpc, batch, cver, clast, ctarget, cidx>>
workVars == <<sema, generating, workers, failures>>
mainVars == <<mpc, mailbox, prepared>>
trainVars == <<tpc, step, weightVersion, training, engine>>
vars == <<storeVars, flagVars, collVars, workVars, mainVars, trainVars>>

Init ==
    /\ StoreInit
    /\ running = FALSE
    /\ version = StartStep
    /\ manualClear = TRUE /\ refitClear = TRUE /\ limitClear = TRUE
    /\ limitWarned = NoVersion
    /\ sema = MaxInflight /\ generating = {} /\ workers = {} /\ failures = 0
    /\ cpc = "unstarted" /\ batch = 0
    /\ cver = StartStep /\ clast = -1 /\ ctarget = NoTarget /\ cidx = 0
    /\ mpc = "idle" /\ prepared = FALSE
    /\ mailbox = <<[op |-> "start_collection", v |-> 0],
                   [op |-> "set_weight_version", v |-> StartStep]>>
    /\ tpc = "init_refit" /\ step = StartStep /\ weightVersion = StartStep
    /\ training = {} /\ engine = Dummy

(* ray.kill ends both actors with the training loop.                       *)
Alive == tpc \notin {"done", "aborted"}

TargetWeightsOneMore(v) == v + 1 .. v + MaxAge + 1     \* mutant

TargetWeights(v) ==
    IF v = StartStep THEN StartStep .. StartStep + MaxAge
                     ELSE v + 1 .. v + MaxAge

(* The targets of version v that are neither pushed, as far as the value   *)
(* "last" read from the buffer tells, nor reserved.                        *)
OpenTargets(v, last) ==
    {t \in TargetWeights(v) : t > last /\ t \notin generating}

-----------------------------------------------------------------------------
(* The collection thread: _collection_loop and _process_batch.             *)

NextBatch ==
    /\ cpc = "fetch" /\ batch < NumBatches
    /\ batch' = batch + 1
    /\ cpc' = "manual_gate"
    /\ UNCHANGED <<storeVars, flagVars, cver, clast, ctarget, cidx, workVars,
                   mainVars, trainVars>>

(* The dataloader is exhausted; workers still in flight see running FALSE. *)
LoopEnds ==
    /\ cpc = "fetch" /\ batch = NumBatches
    /\ running' = FALSE
    /\ cpc' = "stopped"
    /\ UNCHANGED <<storeVars, version, manualClear, refitClear, limitClear,
                   limitWarned, batch, cver, clast, ctarget, cidx, workVars,
                   mainVars, trainVars>>

ManualGate ==
    /\ cpc = "manual_gate" /\ manualClear
    /\ cpc' = "refit_gate"
    /\ UNCHANGED <<storeVars, flagVars, batch, cver, clast, ctarget, cidx,
                   workVars, mainVars, trainVars>>

(* Past the refit gate _should_pause_for_generation_limits reads the       *)
(* version it computes the targets of.                                     *)
RefitGate ==
    /\ cpc = "refit_gate" /\ refitClear
    /\ cver' = version
    /\ cpc' = "limit_ask"
    /\ UNCHANGED <<storeVars, flagVars, batch, clast, ctarget, cidx, workVars,
                   mainVars, trainVars>>

(* The call to the buffer, made before the reservations are looked at.     *)
LimitAsk ==
    /\ cpc = "limit_ask"
    /\ clast' = lastTarget
    /\ cpc' = "limit_check"
    /\ UNCHANGED <<storeVars, flagVars, batch, cver, ctarget, cidx, workVars,
                   mainVars, trainVars>>

LimitCheck ==
    /\ cpc = "limit_check"
    /\ cpc' = IF OpenTargets(cver, clast) = {} THEN "limit_warn"
                                               ELSE "batch_start"
    /\ cver' = StartStep /\ clast' = -1             \* locals out of scope
    /\ UNCHANGED <<storeVars, flagVars, batch, ctarget, cidx, workVars,
                   mainVars, trainVars>>

(* The event is cleared at most once for each weight version.              *)
LimitWarn ==
    /\ cpc = "limit_warn"
    /\ limitWarned' = version
    /\ cpc' = IF limitWarned # version THEN "limit_clear" ELSE "limit_wait"
    /\ UNCHANGED <<storeVars, running, version, manualClear, refitClear,
                   limitClear, batch, cver, clast, ctarget, cidx, workVars,
                   mainVars, trainVars>>

LimitClear ==
    /\ cpc = "limit_clear"
    /\ limitClear' = FALSE
    /\ cpc' = "limit_wait"
    /\ UNCHANGED <<storeVars, running, version, manualClear, refitClear,
                   limitWarned, batch, cver, clast, ctarget, cidx, workVars,
                   mainVars, trainVars>>

LimitWait ==
    /\ cpc = "limit_wait" /\ limitClear
    /\ cpc' = "batch_start"
    /\ UNCHANGED <<storeVars, flagVars, batch, cver, clast, ctarget, cidx,
                   workVars, mainVars, trainVars>>

BatchStart ==
    /\ cpc = "batch_start"
    /\ cver' = version
    /\ cpc' = "target_ask"
    /\ UNCHANGED <<storeVars, flagVars, batch, clast, ctarget, cidx, workVars,
                   mainVars, trainVars>>

TargetAsk ==
    /\ cpc = "target_ask"
    /\ clast' = lastTarget
    /\ cpc' = "reserve"
    /\ UNCHANGED <<storeVars, flagVars, batch, cver, ctarget, cidx, workVars,
                   mainVars, trainVars>>

(* _process_batch returns and its local variables go out of scope.         *)
BatchOver ==
    /\ cpc' = "fetch"
    /\ cver' = StartStep /\ clast' = -1 /\ ctarget' = NoTarget /\ cidx' = 0

(* The lowest open target is reserved; the lock covers this step and not   *)
(* the call before it.                                                     *)
Reserve ==
    /\ cpc = "reserve"
    /\ \E t \in OpenTargets(cver, clast) :
          /\ \A u \in OpenTargets(cver, clast) : t <= u
          /\ generating' = generating \union {t}
          /\ ctarget' = t
    /\ clast' = -1
    /\ cpc' = "prompt_gate"
    /\ UNCHANGED <<storeVars, flagVars, batch, cver, cidx, sema, workers,
                   failures, mainVars, trainVars>>

(* No target needs groups: _process_batch returns and the batch is gone.   *)
DropBatch ==
    /\ cpc = "reserve" /\ OpenTargets(cver, clast) = {}
    /\ BatchOver
    /\ UNCHANGED <<storeVars, flagVars, batch, workVars, mainVars, trainVars>>

PromptGate ==
    /\ cpc = "prompt_gate" /\ refitClear
    /\ cpc' = "acquire"
    /\ UNCHANGED <<storeVars, flagVars, batch, cver, clast, ctarget, cidx,
                   workVars, mainVars, trainVars>>

PromptSeesRefit ==
    /\ cpc = "prompt_gate" /\ ~refitClear
    /\ cpc' = "prompt_wait"
    /\ UNCHANGED <<storeVars, flagVars, batch, cver, clast, ctarget, cidx,
                   workVars, mainVars, trainVars>>

(* Only a prompt that met the pause takes the version of the new weights.  *)
PromptAfterRefit ==
    /\ cpc = "prompt_wait" /\ refitClear
    /\ cver' = version
    /\ cpc' = "acquire"
    /\ UNCHANGED <<storeVars, flagVars, batch, clast, ctarget, cidx, workVars,
                   mainVars, trainVars>>

(* _inflight_sema.acquire(), then the thread object is made and recorded   *)
(* in _inflight_threads.                                                   *)
SpawnWorker ==
    /\ cpc = "acquire" /\ sema > 0
    /\ sema' = sema - 1
    /\ workers' = workers \union
          {[id |-> <<batch, cidx>>, gen |-> cver, tgt |-> ctarget,
            born |-> Dummy, pc |-> "new", tracked |-> TRUE]}
    /\ cpc' = "start"
    /\ UNCHANGED <<storeVars, flagVars, batch, cver, clast, ctarget, cidx,
                   generating, failures, mainVars, trainVars>>

MorePromptsOffByOne == cidx < NumPrompts               \* mutant

MorePrompts == cidx + 1 < NumPrompts

(* worker.start(): the rollout begins with the engine's present weights.   *)
StartWorker ==
    /\ cpc = "start"
    /\ \E w \in workers :
          /\ w.pc = "new"
          /\ workers' = (workers \ {w}) \union
                {[w EXCEPT !.pc = "rollout", !.born = engine]}
    /\ IF MorePrompts
          THEN /\ cidx' = cidx + 1
               /\ cpc' = "prompt_gate"
               /\ UNCHANGED <<cver, clast, ctarget>>
          ELSE BatchOver
    /\ UNCHANGED <<storeVars, flagVars, batch, sema, generating, failures,
                   mainVars, trainVars>>

Collect ==
    \/ NextBatch \/ LoopEnds \/ ManualGate \/ RefitGate
    \/ LimitAsk \/ LimitCheck \/ LimitWarn \/ LimitClear \/ LimitWait
    \/ BatchStart \/ TargetAsk \/ Reserve \/ DropBatch
    \/ PromptGate \/ PromptSeesRefit \/ PromptAfterRefit
    \/ SpawnWorker \/ StartWorker

-----------------------------------------------------------------------------
(* A worker thread: _run_prompt_group_worker.  The end of the rollout is   *)
(* seen by nobody; the worker's next visible step is its call to the buffer.*)

Becomes(w, pc) == workers' = (workers \ {w}) \union {[w EXCEPT !.pc = pc]}

(* The rollout, or the call to the buffer, raises.  The exception is       *)
(* printed and swallowed; nothing replaces the group.                      *)
RolloutFails(w) ==
    /\ w.pc = "rollout" /\ failures < MaxFailures
    /\ failures' = failures + 1
    /\ Becomes(w, "cleanup")
    /\ UNCHANGED <<storeVars, flagVars, collVars, sema, generating, mainVars,
                   trainVars>>

PushGroupNoBreak(w) ==                                  \* mutant
    /\ w.pc = "rollout" /\ running
    /\ Push([id |-> w.id, born |-> w.born], w.gen, w.tgt)
    /\ UNCHANGED <<flagVars, collVars, workVars, mainVars, trainVars>>

PushGroup(w) ==
    /\ w.pc = "rollout" /\ running
    /\ Push([id |-> w.id, born |-> w.born], w.gen, w.tgt)
    /\ Becomes(w, IF w.id[2] = 0 THEN "release" ELSE "cleanup")
    /\ UNCHANGED <<flagVars, collVars, sema, generating, failures, mainVars,
                   trainVars>>

(* The answer is "full": the worker sleeps and asks again.                 *)
PushRefused(w) ==
    /\ w.pc = "rollout" /\ running /\ Full
    /\ UNCHANGED vars

(* "while self.running" ends without a push: the finished group is lost.   *)
PushAbandoned(w) ==
    /\ w.pc = "rollout" /\ ~running
    /\ Becomes(w, "cleanup")
    /\ UNCHANGED <<storeVars, flagVars, collVars, sema, generating, failures,
                   mainVars, trainVars>>

(* The worker of the first prompt gives the reservation back on success.   *)
ReleaseTarget(w) ==
    /\ w.pc = "release"
    /\ generating' = generating \ {w.tgt}
    /\ Becomes(w, "cleanup")
    /\ UNCHANGED <<storeVars, flagVars, collVars, sema, failures, mainVars,
                   trainVars>>

CleanupNothing(w) ==                                    \* mutant
    /\ w.pc = "cleanup"
    /\ Becomes(w, "exit")
    /\ UNCHANGED <<storeVars, flagVars, collVars, sema, generating, failures,
                   mainVars, trainVars>>

(* The finally clause gives it back whatever happened and whoever holds it.*)
CleanupTarget(w) ==
    /\ w.pc = "cleanup"
    /\ generating' = generating \ {w.tgt}
    /\ Becomes(w, "exit")
    /\ UNCHANGED <<storeVars, flagVars, collVars, sema, failures, mainVars,
                   trainVars>>

ExitWorkerTracked(w) ==                                 \* mutant
    /\ w.pc = "exit"
    /\ workers' = workers \ {w}
    /\ sema' = IF w.tracked THEN sema + 1 ELSE sema
    /\ UNCHANGED <<storeVars, flagVars, collVars, generating, failures,
                   mainVars, trainVars>>

ExitWorker(w) ==
    /\ w.pc = "exit"
    /\ workers' = workers \ {w}
    /\ sema' = sema + 1
    /\ UNCHANGED <<storeVars, flagVars, collVars, generating, failures,
                   mainVars, trainVars>>

WorkerStep(w) ==
    \/ RolloutFails(w) \/ PushGroup(w) \/ PushRefused(w) \/ PushAbandoned(w)
    \/ ReleaseTarget(w) \/ CleanupTarget(w) \/ ExitWorker(w)

-----------------------------------------------------------------------------
(* The main thread of the collector actor.                                 *)

Receive(op) ==
    /\ mpc = "idle" /\ mailbox # <<>> /\ Head(mailbox).op = op
    /\ mailbox' = Tail(mailbox)

StartCollection ==
    /\ Receive("start_collection")
    /\ running' = TRUE
    /\ cpc' = "fetch"
    /\ UNCHANGED <<storeVars, version, manualClear, refitClear, limitClear,
                   limitWarned, batch, cver, clast, ctarget, cidx, workVars,
                   mpc, prepared, trainVars>>

SetWeightVersion ==
    /\ Receive("set_weight_version")
    /\ version' = Head(mailbox).v
    /\ mpc' = "wake"
    /\ UNCHANGED <<storeVars, running, manualClear, refitClear, limitClear,
                   limitWarned, collVars, workVars, prepared, trainVars>>

(* The second half of set_weight_version: the event is set if found clear. *)
WakeCollection ==
    /\ mpc = "wake"
    /\ limitClear' = TRUE
    /\ mpc' = "idle"
    /\ UNCHANGED <<storeVars, running, version, manualClear, refitClear,
                   limitWarned, collVars, workVars, mailbox, prepared,
                   trainVars>>

Pause ==
    /\ Receive("pause")
    /\ manualClear' = FALSE
    /\ UNCHANGED <<storeVars, running, version, refitClear, limitClear,
                   limitWarned, collVars, workVars, mpc, prepared, trainVars>>

Resume ==
    /\ Receive("resume")
    /\ manualClear' = TRUE
    /\ UNCHANGED <<storeVars, running, version, refitClear, limitClear,
                   limitWarned, collVars, workVars, mpc, prepared, trainVars>>

PrepareForRefit ==
    /\ Receive("prepare_for_refit")
    /\ refitClear' = FALSE
    /\ mpc' = IF InFlight THEN "idle" ELSE "pending"
    /\ prepared' = InFlight
    /\ UNCHANGED <<storeVars, running, version, manualClear, limitClear,
                   limitWarned, collVars, workVars, trainVars>>

PollOnce ==                                             \* mutant
    /\ mpc = "pending"
    /\ mpc' = "idle" /\ prepared' = TRUE
    /\ UNCHANGED <<storeVars, flagVars, collVars, workVars, mailbox, trainVars>>

(* One round of wait_for_pending_generations.  Threads that are not alive  *)
(* are struck off the record, and a thread that was recorded and has not   *)
(* been started yet is not alive either.                                   *)
PollPending ==
    /\ mpc = "pending"
    /\ LET alive == {w \in workers : w.tracked /\ w.pc # "new"}
       IN  /\ workers' = {IF w.pc = "new" THEN [w EXCEPT !.tracked = FALSE]
                                          ELSE w : w \in workers}
           /\ IF alive = {} THEN mpc' = "idle" /\ prepared' = TRUE
                            ELSE UNCHANGED <<mpc, prepared>>
    /\ UNCHANGED <<storeVars, flagVars, collVars, sema, generating, failures,
                   mailbox, trainVars>>

ResumeAfterRefit ==
    /\ Receive("resume_after_refit")
    /\ refitClear' = TRUE
    /\ UNCHANGED <<storeVars, running, version, manualClear, limitClear,
                   limitWarned, collVars, workVars, mpc, prepared, trainVars>>

Serve ==
    \/ StartCollection \/ SetWeightVersion \/ WakeCollection
    \/ Pause \/ Resume \/ PrepareForRefit \/ PollPending \/ ResumeAfterRefit

-----------------------------------------------------------------------------
(* The trainer: async_grpo_train.                                          *)

Send(ops) == mailbox' = mailbox \o ops
Call(op) == [op |-> op, v |-> 0]

(* The first refit; the collector has been started before it.              *)
InitialRefit ==
    /\ tpc = "init_refit"
    /\ engine' = weightVersion
    /\ tpc' = IF ValAtStart /\ step = 0 THEN "val_start" ELSE "fill"
    /\ UNCHANGED <<storeVars, flagVars, collVars, workVars, mainVars, step,
                   weightVersion, training>>

BeginValidationAtStart ==
    /\ tpc = "val_start"
    /\ Send(<<Call("pause")>>)
    /\ tpc' = "validating_start"
    /\ UNCHANGED <<storeVars, flagVars, collVars, workVars, mpc, prepared,
                   step, weightVersion, training, engine>>

EndValidationAtStart ==
    /\ tpc = "validating_start"
    /\ Send(<<Call("resume")>>)
    /\ tpc' = "fill"
    /\ UNCHANGED <<storeVars, flagVars, collVars, workVars, mpc, prepared,
                   step, weightVersion, training, engine>>

BufferFilled ==
    /\ tpc = "fill" /\ Cardinality(entries) >= NumPrompts
    /\ tpc' = "sample"
    /\ UNCHANGED <<storeVars, flagVars, collVars, workVars, mainVars, step,
                   weightVersion, training, engine>>

(* The trainer polls the size of the buffer until it holds a batch.        *)
FillStalls ==
    /\ tpc = "fill" /\ Cardinality(entries) < NumPrompts
    /\ UNCHANGED vars

TakeBatch ==
    /\ tpc = "sample"
    /\ \E T \in SUBSET Intended(weightVersion) :
          /\ Sample(weightVersion, T)
          /\ training' = T
    /\ tpc' = "train"
    /\ UNCHANGED <<flagVars, collVars, workVars, mainVars, step,
                   weightVersion, engine>>

(* sample() answers None: the trainer sleeps and asks again.               *)
SampleStalls ==
    /\ tpc = "sample"
    /\ ~Expired(weightVersion) /\ ~CanSample(weightVersion)
    /\ UNCHANGED vars

(* sample() raises; the loop's except clause prints it and training ends.  *)
SampleRaises ==
    /\ tpc = "sample" /\ Expired(weightVersion)
    /\ tpc' = "aborted"
    /\ UNCHANGED <<storeVars, flagVars, collVars, workVars, mainVars, step,
                   weightVersion, training, engine>>

TrainStepTellsEarly ==                                  \* mutant
    /\ tpc = "train"
    /\ training' = {}
    /\ Send(<<[op |-> "set_weight_version", v |-> weightVersion + 1],
              Call("prepare_for_refit")>>)
    /\ tpc' = "await_prepared"
    /\ UNCHANGED <<storeVars, flagVars, collVars, workVars, mpc, prepared,
                   step, weightVersion, engine>>

(* policy.train, then the call whose answer the trainer waits for.         *)
TrainStep ==
    /\ tpc = "train"
    /\ training' = {}
    /\ Send(<<Call("prepare_for_refit")>>)
    /\ tpc' = "await_prepared"
    /\ UNCHANGED <<storeVars, flagVars, collVars, workVars, mpc, prepared,
                   step, weightVersion, engine>>

RefitMayBegin ==
    /\ tpc = "await_prepared" /\ prepared
    /\ prepared' = FALSE
    /\ tpc' = "refit"
    /\ UNCHANGED <<storeVars, flagVars, collVars, workVars, mpc, mailbox, step,
                   weightVersion, training, engine>>

ValidationDue ==
    \/ ValPeriod > 0 /\ (step + 1) % ValPeriod = 0
    \/ ValAtEnd /\ step + 1 = MaxSteps

CallsWithOldVersion(v) ==                               \* mutant
    <<[op |-> "set_weight_version", v |-> v - 1], Call("resume_after_refit")>>

(* The version first, then the end of the pause: the new version is known  *)
(* before any prompt that waited for the refit goes on.                    *)
CallsAfterRefit(v) ==
    <<[op |-> "set_weight_version", v |-> v], Call("resume_after_refit")>>

RefitDone ==
    /\ tpc = "refit"
    /\ engine' = weightVersion + 1
    /\ weightVersion' = weightVersion + 1
    /\ Send(CallsAfterRefit(weightVersion + 1))
    /\ tpc' = IF ValidationDue THEN "validate" ELSE "finish"
    /\ UNCHANGED <<storeVars, flagVars, collVars, workVars, mpc, prepared,
                   step, training>>

BeginValidation ==
    /\ tpc = "validate"
    /\ Send(<<Call("pause")>>)
    /\ tpc' = "validating"
    /\ UNCHANGED <<storeVars, flagVars, collVars, workVars, mpc, prepared,
                   step, weightVersion, training, engine>>

EndValidationPaused ==                                  \* mutant
    /\ tpc = "validating"
    /\ tpc' = "finish"
    /\ UNCHANGED <<storeVars, flagVars, collVars, workVars, mainVars,
                   step, weightVersion, training, engine>>

EndValidation ==
    /\ tpc = "validating"
    /\ Send(<<Call("resume")>>)
    /\ tpc' = "finish"
    /\ UNCHANGED <<storeVars, flagVars, collVars, workVars, mpc, prepared,
                   step, weightVersion, training, engine>>

(* The loop returns after the last step, and after any step at which the  *)
(* TimeoutChecker says that the checkpoint must be saved by now.           *)
FinishStep ==
    /\ tpc = "finish"
    /\ step' = step + 1
    /\ \/ step + 1 < MaxSteps /\ tpc' = "sample"
       \/ tpc' = "done"
    /\ UNCHANGED <<storeVars, flagVars, collVars, workVars, mainVars,
                   weightVersion, training, engine>>

Train ==
    \/ InitialRefit \/ BeginValidationAtStart \/ EndValidationAtStart
    \/ BufferFilled \/ FillStalls \/ TakeBatch \/ SampleStalls \/ SampleRaises
    \/ TrainStep \/ RefitMayBegin \/ RefitDone
    \/ BeginValidation \/ EndValidation \/ FinishStep

-----------------------------------------------------------------------------
Terminated == ~Alive /\ UNCHANGED vars

Next ==
    \/ Alive /\ (Collect \/ Serve \/ Train \/ \E w \in workers : WorkerStep(w))
    \/ Terminated

Spec == Init /\ [][Next]_vars

(* Every thread runs for ever: the trainer, the two threads of the actor   *)
(* and each worker are operating-system threads, and a rollout ends.       *)
Fairness ==
    /\ WF_vars(Alive /\ Collect)
    /\ WF_vars(Alive /\ Serve)
    /\ WF_vars(Alive /\ Train)
    /\ \A id \in GroupIds :
          WF_vars(Alive /\ \E w \in workers : w.id = id /\ WorkerStep(w))

FairSpec == Spec /\ Fairness
-----------------------------------------------------------------------------
(* Properties                                                              *)

Versions == StartStep .. MaxSteps
Targets == StartStep .. MaxSteps + MaxAge
Items == [id : GroupIds, born : Versions \union {Dummy}]
Entries == [item : Items, gen : Versions, tgt : Targets,
            at : Nat]
Workers == [id : GroupIds, gen : Versions, tgt : Targets,
            born : Versions \union {Dummy},
            pc : {"new", "rollout", "release", "cleanup", "exit"},
            tracked : BOOLEAN]
Messages == [op : {"set_weight_version"}, v : Versions]
            \union [op : {"start_collection", "pause", "resume",
                          "prepare_for_refit", "resume_after_refit"}, v : {0}]

StoreType ==
    /\ entries \subseteq Entries
    /\ arrivals \in Nat
    /\ lastTarget \in Targets \union {-1}

FlagType ==
    /\ running \in BOOLEAN
    /\ manualClear \in BOOLEAN
    /\ refitClear \in BOOLEAN
    /\ limitClear \in BOOLEAN
    /\ prepared \in BOOLEAN

VersionType ==
    /\ version \in Versions
    /\ limitWarned \in Versions \union {NoVersion}

CollType ==
    /\ cpc \in {"unstarted", "fetch", "manual_gate", "refit_gate", "limit_ask",
                "limit_check", "limit_warn", "limit_clear", "limit_wait",
                "batch_start", "target_ask", "reserve", "prompt_gate",
                "prompt_wait", "acquire", "start", "stopped"}
    /\ batch \in 0 .. NumBatches
    /\ cver \in Versions
    /\ clast \in Targets \union {-1}
    /\ ctarget \in Targets \union {NoTarget}
    /\ cidx \in PromptIdx

WorkType ==
    /\ sema \in Nat
    /\ generating \subseteq Targets
    /\ workers \subseteq Workers
    /\ failures \in 0 .. MaxFailures

MainType ==
    /\ mpc \in {"idle", "wake", "pending"}
    /\ mailbox \in Seq(Messages)

TrainType ==
    /\ tpc \in {"init_refit", "val_start", "validating_start", "fill", "sample",
                "train", "await_prepared", "refit", "validate", "validating",
                "finish", "done", "aborted"}
    /\ step \in Versions /\ weightVersion \in Versions
    /\ training \subseteq Entries
    /\ engine \in Versions \union {Dummy}

(* Every variable holds a value its Python counterpart can hold.           *)
TypeOK ==
    /\ StoreType /\ FlagType /\ VersionType
    /\ CollType /\ WorkType /\ MainType /\ TrainType

(* The weights the rollouts of prompt groups really began with, beside the *)
(* version they are labelled with.                                         *)
Labelled ==
    {[gen |-> w.gen, born |-> w.born] : w \in {x \in workers : x.pc # "new"}}
    \union {[gen |-> e.gen, born |-> e.item.born] :
               e \in entries \union training}

(* A group is never labelled with weights newer than those it was          *)
(* generated with, once the engine has been loaded: the new version number *)
(* reaches the collector only after the refit it belongs to, whatever the  *)
(* actor's main thread is doing when the call arrives.                     *)
LabelNotAhead ==
    \A g \in Labelled : \/ g.gen <= g.born
                        \/ g.born = Dummy /\ g.gen = StartStep

(* The batch in training has exactly one step's groups, all meant for this *)
(* step, and the weights they were really generated with (not only their   *)
(* labels) are at most MaxAge steps old.                                   *)
TrainedBatchFresh ==
    tpc = "train" =>
        /\ Cardinality(training) = NumPrompts
        /\ \A e \in training :
              /\ e.tgt = step
              /\ e.item.born <= step
              /\ \/ e.item.born >= step - MaxAge
                 \/ e.item.born = Dummy /\ step <= StartStep + MaxAge

(* The collector's version, the engine's and the trainer's never drift: the*)
(* engine holds the trainer's version, and the collector lags by at most   *)
(* one, with the call that brings it up to date already in its mailbox.    *)
VersionsInStep ==
    /\ engine \in {weightVersion, Dummy}
    /\ version <= weightVersion /\ weightVersion <= version + 1
    /\ version < weightVersion =>
          \E i \in 1 .. Len(mailbox) :
              mailbox[i] = [op |-> "set_weight_version", v |-> weightVersion]

(* Generation never runs further than MaxAge steps ahead of the trainer.   *)
BoundedLookahead ==
    /\ \A w \in workers : w.tgt <= weightVersion + MaxAge
    /\ \A e \in entries : e.tgt <= weightVersion + MaxAge
    /\ lastTarget <= weightVersion + MaxAge

(* While weights are being replaced the start of new generations is paused *)
(* on the collector's side, whatever calls of earlier steps it still had.  *)
PausedDuringRefit == tpc = "refit" => ~refitClear

(* Without in-flight updates at most one recorded thread, the one that was *)
(* past the pause check, generates meanwhile.  (One struck off the record  *)
(* before it was started escapes the count.)                               *)
AlmostQuiet ==
    ~InFlight /\ tpc = "refit" => Cardinality({w \in workers : w.tracked}) <= 1

(* prepare_for_refit has done what it is for when the trainer replaces the *)
(* weights: no prompt passes the pause, and hardly anybody generates.      *)
RefitGuarded == PausedDuringRefit /\ AlmostQuiet

(* Every slot of _inflight_sema is free or belongs to a live thread,       *)
(* however its rollout ended: none is lost, which would narrow generation  *)
(* for good, and none is given back twice, which would widen it beyond one *)
(* window of prompts.                                                      *)
SlotsConserved == sema + Cardinality(workers) = MaxInflight

(* The collection thread is handing out the prompts of a batch.            *)
InBatch == cpc \in {"prompt_gate", "prompt_wait", "acquire", "start"}

(* A reservation never outlives the batch it was made for: the collection  *)
(* thread is still handing out its prompts, or a worker that will give the *)
(* reservation back is still alive.                                        *)
NoLeakedReservation ==
    \A t \in generating :
        \/ ctarget = t /\ InBatch
        \/ \E w \in workers : w.tgt = t /\ w.pc # "exit"

(* prepare_for_refit returns: workers that wait for room in the buffer     *)
(* never block the trainer, who alone makes room.                          *)
RefitNotBlocked == tpc = "await_prepared" ~> tpc = "refit"

(* A validation never leaves collection paused.                            *)
PauseEnds == ~manualClear ~> (manualClear \/ ~Alive)

(* The documentation: trajectories that are too old are discarded.  No     *)
(* group, not even one generated twice for its target, makes sample() raise.*)
NeverAborts == tpc # "aborted"

(* The whole machine, threads and calls left out, does what                *)
(* BoundedStaleness promises.                                              *)
AsGroups(E) == {[id |-> e.item.id, born |-> e.item.born] : e \in E}

(* The prompts already given to a worker, or passed over.                  *)
Drawn ==
    {id \in GroupIds : \/ id[1] < batch
                       \/ id[1] = batch /\ cpc \in {"fetch", "stopped"}
                       \/ id[1] = batch /\ InBatch /\ id[2] < cidx}

(* Weights the trainer has made, which the engine receives in the refit.   *)
Learner == IF tpc \in {"await_prepared", "refit"} THEN weightVersion + 1
                                                  ELSE weightVersion

Rolling == {[id |-> w.id, born |-> w.born] : w \in {x \in workers : x.pc = "rollout"}}

Promise == INSTANCE BoundedStaleness WITH
    learner <- Learner,
    sampler <- engine,
    begun <- Drawn,
    rolling <- Rolling,
    pool <- AsGroups(entries),
    batch <- AsGroups(training)

KeepsPromise == Promise!Spec
=============================================================================
