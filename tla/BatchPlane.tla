----------------------------- MODULE BatchPlane -----------------------------
(***************************************************************************)
(* A batch goes through the policy (models/policy/lm_policy.py): it is     *)
(* sharded for the log-probabilities, whose results come back from the     *)
(* workers in any order, and sharded again, by global batches, to train.   *)
(* While they train, the data-parallel ranks meet in every microbatch.     *)
(***************************************************************************)
EXTENDS BatchSharding

CONSTANTS
    Batches,            \* the lengths of the rows: a set of sequences
    Shards,             \* data-parallel size
    Copies,             \* workers that compute the same shard
    GlobalBatchSizes,   \* train_global_batch_size
    MicroBatchSize,     \* of plain batching
    MaxTokens,          \* max_tokens_per_microbatch
    LengthRound,        \* sequence_length_round, sequence_length_pad_multiple
    Orders              \* shuffles of the first-fit shuffle packer

ASSUME BatchAssumption ==
    /\ Shards \in Nat \ {0} /\ Copies \in Nat \ {0}
    /\ MicroBatchSize \in Nat \ {0} /\ LengthRound \in Nat \ {0} /\ MaxTokens \in Nat
    /\ \A lens \in Batches :
           /\ lens \in Seq(Nat) /\ lens # <<>>
           /\ \A i \in DOMAIN lens : RoundUp(lens[i], LengthRound) \in 1..MaxTokens
           /\ Len(lens) % (Shards * MicroBatchSize) = 0
    /\ \A size \in GlobalBatchSizes :
           size \in Nat \ {0} /\ size % (Shards * MicroBatchSize) = 0
    /\ \A order \in Orders :
           /\ order \in Seq(Nat \ {0}) /\ IsInjective(order)
           /\ \A lens \in Batches : DOMAIN lens \subseteq ToSet(order)

Packers == {"concatenative", "ffd", "shuffle", "mffd"}

VARIABLES
    lens,       \* the batch
    batching,   \* "plain", "dynamic" or a packer
    shuffle,    \* the order the shuffle packer draws
    phase,      \* "start", "logprobs", "ready", "training", "trained"
    shard,      \* rows by shard, chunk and microbatch
    arrived,    \* the workers that have answered, in that order
    logprobs,   \* for each row the row its result belongs to
    entered     \* microbatches each shard has entered

vars == <<lens, batching, shuffle, phase, shard, arrived, logprobs, entered>>

Ranks == 1..Shards
Workers == Ranks \X (1..Copies)

Init ==
    /\ lens \in Batches
    /\ batching \in {"plain", "dynamic"} \cup Packers
    /\ shuffle \in IF batching = "shuffle" THEN Orders ELSE {<<>>}
    /\ phase = "start"
    /\ shard = <<>>
    /\ arrived = <<>>
    /\ logprobs = <<>>
    /\ entered = [k \in Ranks |-> 0]

packer == [algorithm |-> batching, order |-> shuffle, capacity |-> MaxTokens]

Sharded(batchSize) ==
    CASE batching = "plain" ->
             PlainShards(lens, Shards, batchSize, MicroBatchSize)
      [] batching = "dynamic" ->
             DynamicShards(lens, Shards, batchSize, LengthRound, MaxTokens)
      [] batching \in Packers ->
             PackedShards(lens, Shards, batchSize, LengthRound, packer)

\* get_logprobs shards the whole batch at once.
SubmitLogprobs ==
    /\ phase = "start"
    /\ shard' = Sharded(Len(lens))
    /\ phase' = "logprobs"
    /\ UNCHANGED <<lens, batching, shuffle, arrived, logprobs, entered>>

WorkerAnswers(w) ==
    /\ phase = "logprobs"
    /\ w \notin ToSet(arrived)
    /\ arrived' = Append(arrived, w)
    /\ UNCHANGED <<lens, batching, shuffle, phase, shard, logprobs, entered>>

\* mutant: takes the results as they come.
ReturningAsTheyCome == SelectSeq(arrived, LAMBDA w : w[2] = 1)

\* MultiWorkerFuture.get_results: of the copies the first, shard by shard.
ReturningWorkers == [k \in Ranks |-> <<k, 1>>]

Restored(results) ==
    IF batching = "plain" THEN results ELSE Reordered(results, Concatenated(shard))

CollectLogprobs ==
    /\ phase = "logprobs"
    /\ ToSet(arrived) = Workers
    /\ LET results == [k \in Ranks |-> shard[ReturningWorkers[k][1]]]
       IN  logprobs' = Restored(Concatenated(results))
    /\ phase' = "ready"
    /\ UNCHANGED <<lens, batching, shuffle, shard, arrived, entered>>

\* train shards by global batches.
SubmitTraining(batchSize) ==
    /\ phase = "ready"
    /\ Len(lens) % batchSize = 0
    /\ shard' = Sharded(batchSize)
    /\ phase' = "training"
    /\ UNCHANGED <<lens, batching, shuffle, arrived, logprobs, entered>>

\* The microbatches of a shard, whatever their chunk.
MicroBatches(k) == FlattenSeq(shard[k])

\* A microbatch ends with a collective operation: the next one is entered when
\* all ranks have come to the last one.
LastOneEnded(k) == \A j \in Ranks : entered[j] >= entered[k]

MayEnter(k) == entered[k] < Len(MicroBatches(k)) /\ LastOneEnded(k)

EnterMicroBatch(k) ==
    /\ phase = "training"
    /\ MayEnter(k)
    /\ entered' = [entered EXCEPT ![k] = @ + 1]
    /\ UNCHANGED <<lens, batching, shuffle, phase, shard, arrived, logprobs>>

AllEntered == \A k \in Ranks : entered[k] = Len(MicroBatches(k)) /\ LastOneEnded(k)

FinishTraining ==
    /\ phase = "training"
    /\ AllEntered
    /\ phase' = "trained"
    /\ UNCHANGED <<lens, batching, shuffle, shard, arrived, logprobs, entered>>

Next ==
    \/ SubmitLogprobs
    \/ \E w \in Workers : WorkerAnswers(w)
    \/ CollectLogprobs
    \/ \E size \in GlobalBatchSizes : SubmitTraining(size)
    \/ \E k \in Ranks : EnterMicroBatch(k)
    \/ FinishTraining

Spec == Init /\ [][Next]_vars

-----------------------------------------------------------------------------
\* Properties.

\* The shards of a batch hold each of its rows once, and what they hold of a
\* chunk is of that chunk: a global batch is trained as it was put together
\* (the examples at batched_data_dict.py:331-337).
EveryRowOnce ==
    phase \in {"logprobs", "training"} =>
        /\ Len(Concatenated(shard)) = Len(lens)
        /\ ToSet(Concatenated(shard)) = DOMAIN lens
        /\ \A k \in Ranks : \A c \in DOMAIN shard[k] :
               LET size == Len(lens) \div Len(shard[k])
               IN  ToSet(FlattenSeq(shard[k][c])) \subseteq ((c - 1) * size + 1)..(c * size)

\* No microbatch has more tokens than max_tokens_per_microbatch: with dynamic
\* batching its rows padded to the longest, with packing their sum.
WithinCapacity ==
    phase \in {"logprobs", "training"} =>
        \A k \in Ranks : \A m \in DOMAIN MicroBatches(k) :
            LET rows == MicroBatches(k)[m]
                padded == [n \in DOMAIN rows |-> RoundUp(lens[rows[n]], LengthRound)]
            IN  /\ rows # <<>>
                /\ batching = "dynamic" =>
                       \A n \in DOMAIN rows : Len(rows) * lens[rows[n]] <= MaxTokens
                /\ batching \in Packers =>
                       Load(Rows(rows), padded) <= MaxTokens

\* Log-probabilities are returned at the rows they were computed for, however
\* the batch was sorted, packed and dealt.
RightRows == logprobs # <<>> => logprobs = Rows(lens)

\* Otherwise _adjust_bin_count raises.
CanShard(batchSize) ==
    batching \in Packers =>
        \A c \in 1..NumChunks(lens, batchSize) :
            LET chunk == Chunk(lens, c, batchSize)
                bins == Pack(packer, [n \in DOMAIN chunk |-> RoundUp(chunk[n], LengthRound)])
            IN  EnoughFor(TargetCount(bins, Shards), bins)

\* A batch is trained to its end: every chunk has enough rows for its bins, and
\* no rank waits for one that has no microbatch left.
NobodyLeftWaiting ==
    /\ phase = "start" => CanShard(Len(lens))
    /\ phase = "ready" =>
           \A size \in GlobalBatchSizes : Len(lens) % size = 0 => CanShard(size)
    /\ phase = "training" => AllEntered \/ \E k \in Ranks : MayEnter(k)
=============================================================================
