---------------------------- MODULE BatchSharding ----------------------------
(***************************************************************************)
(* BatchedDataDict.shard_by_batch_size (distributed/batched_data_dict.py): *)
(* a batch is cut into chunks of one global batch each, every chunk into   *)
(* shards, and a shard's part of a chunk into microbatches.  Rows are      *)
(* their numbers 1..n in the batch.                                        *)
(***************************************************************************)
EXTENDS SequencePacking

RoundUp(n, multiple) == ((n + multiple - 1) \div multiple) * multiple

Rows(lens) == [i \in DOMAIN lens |-> i]

\* Rows first..last-1 of a sequence, counted from 0.
Slice(rows, first, last) == SubSeq(rows, first + 1, Min({last, Len(rows)}))

Chunk(rows, c, batchSize) == Slice(rows, (c - 1) * batchSize, c * batchSize)

NumChunks(rows, batchSize) == Len(rows) \div batchSize

\* For each shard the pieces it has of the chunks.
EvenShards(rows, shards, batchSize) ==
    LET size == batchSize \div shards
    IN  [k \in 1..shards |->
            [c \in 1..NumChunks(rows, batchSize) |->
                Chunk(Chunk(rows, c, batchSize), k, size)]]

\* allow_uneven_shards: the last shards may be smaller, or empty.
UnevenShards(rows, shards) ==
    [k \in 1..shards |->
        Chunk(rows, k, (Len(rows) + shards - 1) \div shards)]

-----------------------------------------------------------------------------
\* Dynamic batching.

\* The rows of a chunk by length, dealt to the shards in turn.
Dealt(chunk, shards, lens) ==
    LET sorted == Ascending(ToSet(chunk), lens)
        hand(k) == [n \in 1..(Len(chunk) \div shards) |-> sorted[(n - 1) * shards + k]]
    IN  FlattenSeq([k \in 1..shards |-> hand(k)])

DynamicOrder(lens, shards, batchSize) ==
    FlattenSeq([c \in 1..NumChunks(lens, batchSize) |->
        Dealt(Chunk(Rows(lens), c, batchSize), shards, lens)])

\* The tokens of a row: the longest of the shards' n-th rows, rounded up, and
\* no more than the width of the batch.
PaddedLength(pieces, n, lens, round) ==
    Min({RoundUp(Max({lens[pieces[k][n]] : k \in DOMAIN pieces}), round),
         Max({lens[i] : i \in DOMAIN lens})})

\* mutant: multiplies by the width before the new row.
MicroBatchSizesStale(pieces, lens, round, maxTokens) ==
    LET Take(cut, length) ==
            IF (Last(cut.sizes) + 1) * Max({cut.widest, 1}) <= maxTokens
            THEN [sizes |-> [cut.sizes EXCEPT ![Len(cut.sizes)] = @ + 1],
                  widest |-> Max({cut.widest, length})]
            ELSE [sizes |-> Append(cut.sizes, 1), widest |-> length]
        taken[n \in 0..Len(pieces[1])] ==
            IF n = 0 THEN [sizes |-> <<0>>, widest |-> 0]
            ELSE Take(taken[n - 1], PaddedLength(pieces, n, lens, round))
    IN  taken[Len(pieces[1])].sizes

\* The sizes of the microbatches of one chunk, the same for all shards: a
\* microbatch takes the next row as long as all of its rows, padded to the
\* longest, stay within the limit.
MicroBatchSizes(pieces, lens, round, maxTokens) ==
    LET Take(cut, length) ==
            LET widest == Max({cut.widest, length})
            IN  IF (Last(cut.sizes) + 1) * widest <= maxTokens
                THEN [sizes |-> [cut.sizes EXCEPT ![Len(cut.sizes)] = @ + 1],
                      widest |-> widest]
                ELSE [sizes |-> Append(cut.sizes, 1), widest |-> length]
        taken[n \in 0..Len(pieces[1])] ==
            IF n = 0 THEN [sizes |-> <<0>>, widest |-> 0]
            ELSE Take(taken[n - 1], PaddedLength(pieces, n, lens, round))
    IN  taken[Len(pieces[1])].sizes

\* A piece of a chunk cut into microbatches of the given sizes.
Cut(piece, sizes) ==
    LET end[m \in 0..Len(sizes)] == IF m = 0 THEN 0 ELSE end[m - 1] + sizes[m]
    IN  [m \in DOMAIN sizes |-> Slice(piece, end[m - 1], end[m])]

DynamicShards(lens, shards, batchSize, round, maxTokens) ==
    LET pieces == EvenShards(DynamicOrder(lens, shards, batchSize), shards, batchSize)
        sizes(c) == MicroBatchSizes([k \in 1..shards |-> pieces[k][c]],
                                    lens, round, maxTokens)
    IN  [k \in 1..shards |->
            [c \in DOMAIN pieces[k] |-> Cut(pieces[k][c], sizes(c))]]

\* Microbatches of a fixed size.
PlainShards(lens, shards, batchSize, microBatchSize) ==
    LET pieces == EvenShards(Rows(lens), shards, batchSize)
    IN  [k \in 1..shards |->
            [c \in DOMAIN pieces[k] |->
                Cut(pieces[k][c],
                    [m \in 1..(Len(pieces[k][c]) \div microBatchSize) |-> microBatchSize])]]

-----------------------------------------------------------------------------
\* Sequence packing: a bin is a microbatch, and the bins of a chunk go to the
\* shards in turn.

\* get_packer: the packer's algorithm, capacity and, if it shuffles, its order.
Pack(packer, padded) ==
    CASE packer.algorithm = "concatenative" -> Concatenative(padded, packer.capacity)
      [] packer.algorithm = "ffd" -> FirstFitDecreasing(padded, packer.capacity)
      [] packer.algorithm = "mffd" -> ModifiedFirstFitDecreasing(padded, packer.capacity)
      [] packer.algorithm = "shuffle" ->
             FirstFit(padded, packer.capacity,
                      Kept(packer.order, {n \in DOMAIN packer.order :
                                             packer.order[n] <= Len(padded)}))

\* mutant: takes the numbers in the chunk for rows of the batch.
PackedBinsNoOffset(lens, chunk, shards, round, packer) ==
    AdjustBinCount(Pack(packer, [n \in DOMAIN chunk |-> RoundUp(lens[chunk[n]], round)]), shards)

\* The rows of a chunk in bins, by their padded lengths.
PackedBins(lens, chunk, shards, round, packer) ==
    LET padded == [n \in DOMAIN chunk |-> RoundUp(lens[chunk[n]], round)]
        bins == AdjustBinCount(Pack(packer, padded), shards)
    IN  [b \in DOMAIN bins |-> [n \in DOMAIN bins[b] |-> chunk[bins[b][n]]]]

PackedShards(lens, shards, batchSize, round, packer) ==
    LET bins == [c \in 1..NumChunks(lens, batchSize) |->
                    PackedBins(lens, Chunk(Rows(lens), c, batchSize), shards, round, packer)]
    IN  [k \in 1..shards |->
            [c \in DOMAIN bins |->
                [m \in 1..((Len(bins[c]) + shards - k) \div shards) |-> bins[c][(m - 1) * shards + k]]]]

-----------------------------------------------------------------------------
\* Results come back shard by shard; reorder_data puts them into the order in
\* which the rows were before the sharding.

Concatenated(shard) == FlattenSeq([k \in DOMAIN shard |-> FlattenSeq(FlattenSeq(shard[k]))])

Reordered(results, order) ==
    LET position == Ascending(DOMAIN order, order)
    IN  [i \in DOMAIN results |-> results[position[i]]]
=============================================================================
