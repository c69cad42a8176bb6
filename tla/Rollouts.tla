------------------------------ MODULE Rollouts ------------------------------
(***************************************************************************)
(* Multi-turn rollouts (experience/rollouts.py) with the front end of the  *)
(* inference engine (models/generation/vllm).  With a synchronous engine   *)
(* the samples of a batch move turn by turn together                       *)
(* (run_multi_turn_rollout); with an asynchronous one every sample is a    *)
(* coroutine of its own, in the event loop of the thread that rolls out    *)
(* its batch (run_async_multi_turn_rollout), and its requests go to the    *)
(* data-parallel engines in turn.                                          *)
(***************************************************************************)
EXTENDS BatchSharding

CONSTANTS
    NumSamples, NumThreads,     \* the samples of a thread are one batch
    ThreadOf,                   \* the thread of a sample
    TaskOf,                     \* the task, hence the environment, of a sample
    NumEngines,                 \* dp_size
    PromptLengths,              \* the batches: the length of every prompt
    AnswerLengths, ObservationLengths,
    MaxSeqLen, MaxNewTokens, MaxTurns,
    MaxErrors                   \* bound: failing requests and environments

Samples == 1..NumSamples
Threads == 1..NumThreads

ASSUME RolloutsAssumption ==
    /\ NumSamples \in Nat /\ NumThreads \in Nat /\ MaxSeqLen \in Nat
    /\ ThreadOf \in [Samples -> Threads] /\ DOMAIN TaskOf = Samples
    /\ NumEngines \in Nat \ {0}
    /\ PromptLengths \subseteq [Samples -> 1..MaxSeqLen]
    /\ AnswerLengths \cup ObservationLengths \subseteq Nat
    /\ MaxTurns \in Nat \ {0} /\ MaxNewTokens \in Nat \ {0} /\ MaxErrors \in Nat

VARIABLES
    asyncEngine,    \* vllm_cfg.async_engine
    length,         \* tokens of a sample's messages
    answers,        \* its answers, each <<whose, at which turn>>
    earned,         \* the results of its environment, in the same way
    info,           \* extra_env_info: the last result it went on from
    stage,          \* where a sample is: "ask", "asked", "counted", "wait",
                    \* "score", "over", "failed" or "raised"
    cut,            \* its answer ended for want of tokens
    errors,         \* failures still to come
    shardIdx,       \* current_generate_dp_shard_idx
    loop,           \* the sample whose coroutine holds its thread's loop, or 0
    queue,          \* result_queue of a sample's request
    got,            \* the tokens of its output, once taken from the queue
    finished        \* its consumer has ended

sampleVars == <<length, answers, earned, info, cut>>
requestVars == <<queue, got, finished>>
frontVars == <<shardIdx, loop, requestVars>>
rolloutVars == <<asyncEngine, sampleVars, stage, errors, frontVars>>

Nothing == -1

RolloutsInit ==
    /\ asyncEngine \in BOOLEAN
    /\ length \in PromptLengths
    /\ answers = [s \in Samples |-> <<>>]
    /\ earned = [s \in Samples |-> <<>>]
    /\ info = [s \in Samples |-> <<s, 0>>]
    /\ stage = [s \in Samples |-> "ask"]
    /\ cut = [s \in Samples |-> FALSE]
    /\ errors = MaxErrors
    /\ shardIdx = 0
    /\ loop = [t \in Threads |-> 0]
    /\ queue = [s \in Samples |-> <<>>]
    /\ got = [s \in Samples |-> Nothing]
    /\ finished = [s \in Samples |-> FALSE]

\* The answer may have no token at all if the messages fill the context.
AllowedTokens(s) == Min({MaxNewTokens, MaxSeqLen - length[s]})

AnswersOf(s) ==
    {n \in AnswerLengths \cup {AllowedTokens(s)} :
        n <= AllowedTokens(s) /\ (n = 0 => AllowedTokens(s) = 0)}

\* finish_reason "length", or a stop at the last token; a request for no tokens
\* is not sent to the engine.
MayBeCut(s, n) == n = AllowedTokens(s) /\ n > 0

-----------------------------------------------------------------------------
\* calculate_rewards: rows go to the environments of their tasks.

\* The tasks of a batch, as they first occur.
Tasks(batch) ==
    LET task == [i \in DOMAIN batch |-> TaskOf[batch[i]]]
        first(name) == Min({i \in DOMAIN task : task[i] = name})
    IN  Sorted(ToSet(task), LAMBDA a, b : first(a) < first(b))

IndicesByTask(batch) ==
    LET tasks == Tasks(batch)
    IN  FlattenSeq([g \in DOMAIN tasks |->
            Kept(Rows(batch), {i \in DOMAIN batch : TaskOf[batch[i]] = tasks[g]})])

\* An environment answers the messages of a sample, given its info.
ResultFor(s) == <<s, info[s][2] + 1>>

\* mutant: leaves the results grouped by tasks.
ResultsGrouped(batch) ==
    LET order == IndicesByTask(batch)
    IN  [n \in DOMAIN batch |-> ResultFor(batch[order[n]])]

Results(batch) ==
    LET order == IndicesByTask(batch)
    IN  Reordered([n \in DOMAIN batch |-> ResultFor(batch[order[n]])], order)

RowOf(batch, s) == CHOOSE i \in DOMAIN batch : batch[i] = s

Overflows(s, tokens) == length[s] + tokens >= MaxSeqLen

\* An observation that goes over the limit is cut.
Observed(s, tokens) == Min({length[s] + tokens, MaxSeqLen})

\* The results of a batch are added to its samples, with "tokens" of
\* observation; the episodes of "ending" end.
Score(batch, tokens, ending) ==
    LET results == Results(batch)
        result(s) == results[RowOf(batch, s)]
        scored == ToSet(batch)
    IN  /\ earned' = [s \in Samples |->
                         IF s \in scored THEN Append(earned[s], result(s)) ELSE earned[s]]
        /\ length' = [s \in Samples |->
                         IF s \in scored THEN Observed(s, tokens[s]) ELSE length[s]]
        /\ stage' = [s \in Samples |->
                         IF s \notin scored THEN stage[s]
                         ELSE IF s \in ending \/ Len(answers[s]) = MaxTurns THEN "over"
                         ELSE "ask"]
        /\ info' = [s \in Samples |->
                         IF s \in scored \ ending THEN result(s) ELSE info[s]]

-----------------------------------------------------------------------------
\* The synchronous engine.

Ended(s) == stage[s] \in {"over", "failed", "raised"}

Active == {s \in Samples : ~Ended(s)}

\* The active rows, in their order.
ActiveBatch == Sorted(Active, <)

\* generate: the rows are sharded over the engines, whose outputs are put
\* together again.
Generated(batch) == FlattenSeq(UnevenShards(batch, NumEngines))

GenerateBatch ==
    /\ ~asyncEngine
    /\ Active # {} /\ \A s \in Active : stage[s] = "ask"
    /\ \E tokens \in [Active -> AnswerLengths \cup 0..MaxNewTokens] :
           /\ \A s \in Active : tokens[s] \in AnswersOf(s)
           /\ length' = [s \in Samples |->
                  IF s \in Active THEN length[s] + tokens[s] ELSE length[s]]
           /\ \E atLimit \in SUBSET {s \in Active : MayBeCut(s, tokens[s])} :
                  cut' = [s \in Samples |-> cut[s] \/ s \in atLimit]
    /\ LET batch == ActiveBatch
           generated == Generated(batch)
           whose(s) == generated[RowOf(batch, s)]
       IN  answers' = [s \in Samples |->
               IF s \in Active
               THEN Append(answers[s], <<whose(s), Len(answers[whose(s)]) + 1>>)
               ELSE answers[s]]
    /\ stage' = [s \in Samples |-> IF s \in Active THEN "score" ELSE stage[s]]
    /\ UNCHANGED <<asyncEngine, earned, info, errors, frontVars>>

\* A sample goes on although its answer was cut.
ScoreBatch ==
    /\ ~asyncEngine
    /\ Active # {} /\ \A s \in Active : stage[s] = "score"
    /\ \E tokens \in [Active -> ObservationLengths], terminated \in SUBSET Active :
           Score(ActiveBatch, tokens,
                 terminated \cup {s \in Active : Overflows(s, tokens[s])})
    /\ UNCHANGED <<asyncEngine, answers, cut, errors, frontVars>>

\* An engine or an environment that raises ends the rollout of the batch.
BatchRaises ==
    /\ ~asyncEngine
    /\ Active # {}
    /\ errors > 0
    /\ errors' = errors - 1
    /\ stage' = [s \in Samples |-> "raised"]
    /\ UNCHANGED <<asyncEngine, sampleVars, frontVars>>

-----------------------------------------------------------------------------
\* The asynchronous engine.

\* Coroutines of a thread change places only where they await.
LoopFree(s) == loop[ThreadOf[s]] = 0

Becomes(s, value) == stage' = [stage EXCEPT ![s] = value]

\* _async_generate_base: the leader of the next data-parallel rank is asked.
\* Threads share the index: another one may have it beyond the last rank, where
\* get_dp_leader_worker_idx raises and the sample's rollout ends.
Ask(s) ==
    /\ asyncEngine
    /\ stage[s] = "ask" /\ LoopFree(s)
    /\ IF shardIdx < NumEngines
       THEN /\ loop' = [loop EXCEPT ![ThreadOf[s]] = s]
            /\ Becomes(s, "asked")
       ELSE Becomes(s, "failed") /\ UNCHANGED loop
    /\ UNCHANGED <<asyncEngine, sampleVars, errors, shardIdx, requestVars>>

Increment(s) ==
    /\ stage[s] = "asked"
    /\ shardIdx' = shardIdx + 1
    /\ Becomes(s, "counted")
    /\ UNCHANGED <<asyncEngine, sampleVars, errors, loop, requestVars>>

Wrap == shardIdx' = shardIdx % NumEngines

WrapAndWait(s) ==
    /\ stage[s] = "counted"
    /\ Wrap
    /\ loop' = [loop EXCEPT ![ThreadOf[s]] = 0]
    /\ queue' = [queue EXCEPT ![s] = <<>>]
    /\ got' = [got EXCEPT ![s] = Nothing]
    /\ finished' = [finished EXCEPT ![s] = FALSE]
    /\ Becomes(s, "wait")
    /\ UNCHANGED <<asyncEngine, sampleVars, errors>>

\* consume_worker_generator runs in the event loop as well: it puts the output
\* of the engine into the queue, waits for the end of the stream, and ends.
Consuming(s) == stage[s] = "wait" /\ ~finished[s] /\ LoopFree(s)

Message(kind, tokens) == [kind |-> kind, tokens |-> tokens]
Put(s, messages) == queue' = [queue EXCEPT ![s] = @ \o messages]

WorkerYields(s) ==
    /\ Consuming(s)
    /\ queue[s] = <<>> /\ got[s] = Nothing
    /\ \E n \in AnswersOf(s) : Put(s, <<Message("sample", n)>>)
    /\ UNCHANGED <<asyncEngine, sampleVars, stage, errors, shardIdx, loop,
                   got, finished>>

\* mutant: leaves nothing in the queue.
WorkerEndsQuietly(s) ==
    /\ Consuming(s)
    /\ queue[s] # <<>> \/ got[s] # Nothing
    /\ finished' = [finished EXCEPT ![s] = TRUE]
    /\ UNCHANGED <<asyncEngine, sampleVars, stage, errors, shardIdx, loop,
                   queue, got>>

WorkerEnds(s) ==
    /\ Consuming(s)
    /\ queue[s] # <<>> \/ got[s] # Nothing
    /\ finished' = [finished EXCEPT ![s] = TRUE]
    /\ Put(s, <<Message("worker_done", 0)>>)
    /\ UNCHANGED <<asyncEngine, sampleVars, stage, errors, shardIdx, loop, got>>

WorkerRaises(s) ==
    /\ Consuming(s)
    /\ errors > 0
    /\ errors' = errors - 1
    /\ finished' = [finished EXCEPT ![s] = TRUE]
    /\ Put(s, <<Message("error", 0), Message("worker_done", 0)>>)
    /\ UNCHANGED <<asyncEngine, sampleVars, stage, shardIdx, loop, got>>

\* The loop over the queue has ended: without an output there is nothing to go
\* on with ("Generation returned no outputs").
LeaveQueue(s, tokens) ==
    IF tokens = Nothing
    THEN Becomes(s, "failed") /\ UNCHANGED sampleVars
    ELSE /\ Becomes(s, "score")
         /\ answers' = [answers EXCEPT ![s] = Append(@, <<s, Len(@) + 1>>)]
         /\ length' = [length EXCEPT ![s] = @ + tokens]
         /\ \E atLimit \in {FALSE, MayBeCut(s, tokens)} :
                cut' = [cut EXCEPT ![s] = atLimit]
         /\ UNCHANGED <<earned, info>>

\* mutant: looks at the flag first.
TakeMessageUnlessFinished(s) ==
    /\ stage[s] = "wait" /\ LoopFree(s)
    /\ queue[s] # <<>>
    /\ LET message == Head(queue[s])
       IN  /\ queue' = [queue EXCEPT ![s] = Tail(@)]
           /\ got' = [got EXCEPT ![s] =
                  IF message.kind = "sample" /\ ~finished[s] THEN message.tokens ELSE @]
           /\ IF message.kind = "error" THEN Becomes(s, "failed") /\ UNCHANGED sampleVars
              ELSE IF finished[s] THEN LeaveQueue(s, got'[s])
              ELSE UNCHANGED <<stage, sampleVars>>
    /\ UNCHANGED <<asyncEngine, errors, shardIdx, loop, finished>>

\* The flag is looked at when a message has been dealt with, by when the
\* consumer may have put more; an error raises.
TakeMessage(s) ==
    /\ stage[s] = "wait" /\ LoopFree(s)
    /\ queue[s] # <<>>
    /\ LET message == Head(queue[s])
       IN  /\ queue' = [queue EXCEPT ![s] = Tail(@)]
           /\ got' = [got EXCEPT ![s] =
                  IF message.kind = "sample" THEN message.tokens ELSE @]
           /\ IF message.kind = "error" THEN Becomes(s, "failed") /\ UNCHANGED sampleVars
              ELSE IF finished[s] THEN LeaveQueue(s, got'[s])
              ELSE UNCHANGED <<stage, sampleVars>>
    /\ UNCHANGED <<asyncEngine, errors, shardIdx, loop, finished>>

\* Nothing came for NRL_VLLM_ASYNC_TIMEOUT_SECONDS, or the loop was kept busy
\* for so long.
TimesOut(s) ==
    /\ stage[s] = "wait" /\ LoopFree(s)
    /\ queue[s] = <<>>
    /\ errors > 0
    /\ errors' = errors - 1
    /\ Becomes(s, "failed")
    /\ UNCHANGED <<asyncEngine, sampleVars, frontVars>>

\* The environment is waited for with ray.get, which holds the event loop.  A
\* sample whose answer was cut ends here.
ScoreSample(s) ==
    /\ asyncEngine
    /\ stage[s] = "score" /\ LoopFree(s)
    /\ \E tokens \in ObservationLengths, terminated \in BOOLEAN :
           Score(<<s>>, [r \in {s} |-> tokens],
                 IF terminated \/ cut[s] \/ Overflows(s, tokens) THEN {s} ELSE {})
    /\ UNCHANGED <<asyncEngine, answers, cut, errors, frontVars>>

\* An environment that raises ends the rollouts of all samples of the batch.
EnvironmentRaises(s) ==
    /\ asyncEngine
    /\ stage[s] = "score" /\ LoopFree(s)
    /\ errors > 0
    /\ errors' = errors - 1
    /\ stage' = [r \in Samples |->
           IF ThreadOf[r] = ThreadOf[s] THEN "raised" ELSE stage[r]]
    /\ UNCHANGED <<asyncEngine, sampleVars, frontVars>>

-----------------------------------------------------------------------------

BatchStep == GenerateBatch \/ ScoreBatch \/ BatchRaises

Dispatch(s) == Ask(s) \/ Increment(s) \/ WrapAndWait(s)

Receive(s) ==
    \/ WorkerYields(s) \/ WorkerEnds(s) \/ WorkerRaises(s)
    \/ TakeMessage(s) \/ TimesOut(s)

SampleStep(s) == Dispatch(s) \/ Receive(s) \/ ScoreSample(s) \/ EnvironmentRaises(s)

RolloutsNext == BatchStep \/ \E s \in Samples : SampleStep(s)

RolloutsSpec == RolloutsInit /\ [][RolloutsNext]_rolloutVars

\* An event loop goes on with every coroutine that can, the engines answer or
\* time out, and the environments return.
FairRolloutsSpec ==
    RolloutsSpec /\ \A s \in Samples : WF_rolloutVars(SampleStep(s))

-----------------------------------------------------------------------------
\* Properties.

\* Every sample goes through an Episode, whichever way it is rolled out: its
\* answers and rewards are its own, one for the other, although the rows are
\* dealt to engines and grouped by tasks; its environment goes on from the
\* state it left; and its messages never exceed the maximum length.
EpisodeOf(s) == INSTANCE Episode WITH
    Sample <- s,
    length <- length[s],
    answers <- answers[s],
    earned <- earned[s],
    status <- CASE stage[s] = "score" -> "answered"
                [] Ended(s) -> "over"
                [] OTHER -> "asking"

FollowsEpisodes ==
    /\ \A s \in Samples : EpisodeOf(s)!Init
    /\ [][\A s \in Samples : [EpisodeOf(s)!Next]_(EpisodeOf(s)!vars)]_rolloutVars

\* A request finds an engine: "Async engine supports concurrent generation;
\* avoid locking" (async_utils.py:650).
EveryRequestDispatched ==
    \A s \in Samples : stage[s] = "ask" /\ LoopFree(s) => shardIdx < NumEngines

\* A sample's rollout fails only by an error or a time-out: no output that the
\* engine has given is left in the queue, whenever the consumer ends.
FailsOnlyByErrors ==
    Cardinality({s \in Samples : stage[s] = "failed"}) <= MaxErrors - errors

\* Every rollout of an asynchronous engine ends: no consumer leaves the loop
\* over its queue waiting for a message that does not come.
RolloutsEnd == asyncEngine => <>(\A s \in Samples : Ended(s))
=============================================================================
