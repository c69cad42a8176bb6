-------------------------- MODULE BatchPlane_proofs --------------------------
(***************************************************************************)
(* Theorems about a batch in the policy: its invariant, and the four       *)
(* properties the runs check.                                              *)
(***************************************************************************)
EXTENDS BatchPlane, BatchSharding_proofs

-----------------------------------------------------------------------------
(* A batch goes through the policy.                                         *)

\* B rows are sharded at a time, in C chunks, and G is what a microbatch is.
ShardedBy(s, B, C, G) ==
    /\ B \in Nat \ {0} /\ C \in Nat \ {0}
    /\ lens \in Seq(Nat) /\ Len(lens) = Area(B, C)
    /\ G \subseteq UsedRows(Len(lens))
    /\ Sharding(s, Shards, C, B, G)
    /\ batching = "dynamic" => G = RectangularRows(lens, MaxTokens)
    /\ batching \in Packers => G = PackedRows(lens, LengthRound, MaxTokens)

\* The batch and how it is batched.
Prepared ==
    /\ lens \in Batches
    /\ batching \in {"plain", "dynamic"} \cup Packers
    /\ batching = "shuffle" => shuffle \in Orders

LEMMA BatchIs ==
  ASSUME Prepared
  PROVE  /\ lens \in Seq(Nat) /\ Len(lens) \in Nat \ {0} /\ DOMAIN lens = 1 .. Len(lens)
         /\ Rounded(lens, LengthRound, MaxTokens)
         /\ Len(lens) % (Shards * MicroBatchSize) = 0
         /\ Shards \in Nat \ {0} /\ MicroBatchSize \in Nat \ {0}
<1>1. /\ lens \in Seq(Nat) /\ lens # <<>>
      /\ \A i \in DOMAIN lens : RoundUp(lens[i], LengthRound) \in 1 .. MaxTokens
      /\ Len(lens) % (Shards * MicroBatchSize) = 0
      /\ Shards \in Nat \ {0} /\ MicroBatchSize \in Nat \ {0} /\ LengthRound \in Nat \ {0}
      /\ MaxTokens \in Nat
  BY BatchAssumption DEF Prepared
<1>2. Len(lens) \in Nat \ {0} /\ DOMAIN lens = 1 .. Len(lens)
  BY <1>1, EmptySeq, LenProperties
<1>3. Rounded(lens, LengthRound, MaxTokens)
  BY <1>1 DEF Rounded
<1> QED
  BY <1>1, <1>2, <1>3

LEMMA PackerIs ==
  ASSUME Prepared, batching \in Packers, NEW B \in Nat, B <= Len(lens)
  PROVE  IsPacker(packer, MaxTokens, B)
<1>1. /\ packer.capacity = MaxTokens /\ packer.algorithm = batching
      /\ packer.order = shuffle
  BY DEF packer
<1>2. ASSUME batching = "shuffle"
      PROVE  /\ shuffle \in Seq(Nat \ {0}) /\ Once(shuffle)
             /\ \A i \in 1 .. B : MemberOf(shuffle, i)
  <2>1. /\ shuffle \in Seq(Nat \ {0}) /\ IsInjective(shuffle) /\ DOMAIN lens \subseteq ToSet(shuffle)
    BY <1>2, BatchAssumption DEF Prepared
  <2>2. DOMAIN shuffle = 1 .. Len(shuffle)
    BY <2>1, LenProperties
  <2>3. Once(shuffle)
    BY <2>1, <2>2 DEF Once, IsInjective
  <2>4. DOMAIN lens = 1 .. Len(lens) /\ Len(lens) \in Nat
    BY BatchIs
  <2>5. \A i \in 1 .. B : i \in ToSet(shuffle)
    BY <2>1, <2>4
  <2> QED
    BY <2>1, <2>2, <2>3, <2>5 DEF ToSet, MemberOf
<1> QED
  BY <1>1, <1>2 DEF IsPacker, Packers

\* However it is batched, the shards get the batch.
LEMMA ShardedIs ==
  ASSUME Prepared, NEW B \in Nat \ {0}, B % (Shards * MicroBatchSize) = 0, Len(lens) % B = 0
  PROVE  \E C, G : ShardedBy(Sharded(B), B, C, G)
<1> DEFINE n == Len(lens)
<1>1. /\ lens \in Seq(Nat) /\ n \in Nat \ {0} /\ DOMAIN lens = 1 .. n
      /\ Rounded(lens, LengthRound, MaxTokens)
      /\ Shards \in Nat \ {0} /\ MicroBatchSize \in Nat \ {0}
  BY BatchIs
<1> HIDE DEF n
<1>2. PICK q \in Nat, C \in Nat : Dims(Shards, Area(MicroBatchSize, q), C, B, n)
  BY <1>1, BatchDims DEF n
<1> DEFINE size == Area(MicroBatchSize, q)
<1>3. Dims(Shards, size, C, B, n)
  BY <1>2
<1> HIDE DEF size
<1>4. n = Area(B, C) /\ C \in Nat
  BY <1>3, DimsAre
<1>5. C # 0
  BY <1>1, <1>4, NextRow
<1>6. n = Len(lens)
  BY DEF n
<1>7. CASE batching = "plain"
  <2>1. Sharded(B) = PlainShards(lens, Shards, B, MicroBatchSize)
    BY <1>7 DEF Sharded, Packers
  <2>2. size = Area(MicroBatchSize, q)
    BY DEF size
  <2>3. Sharding(PlainShards(lens, Shards, B, MicroBatchSize), Shards, C, B, UsedRows(n))
    BY <1>1, <1>2, <1>3, <1>6, <2>2, PlainSharding
  <2>4. batching # "dynamic" /\ batching \notin Packers
    BY <1>7 DEF Packers
  <2>5. ShardedBy(Sharded(B), B, C, UsedRows(n))
    BY <1>1, <1>4, <1>5, <1>6, <2>1, <2>3, <2>4 DEF ShardedBy
  <2> QED
    BY <2>5
<1>8. CASE batching = "dynamic"
  <2> DEFINE G == RectangularRows(lens, MaxTokens)
  <2>1. Sharded(B) = DynamicShards(lens, Shards, B, LengthRound, MaxTokens)
    BY <1>8 DEF Sharded, Packers
  <2>2. Sharding(DynamicShards(lens, Shards, B, LengthRound, MaxTokens), Shards, C, B, G)
    BY <1>1, <1>3, <1>6, DynamicSharding
  <2>3. batching \notin Packers
    BY <1>8 DEF Packers
  <2>4. G \subseteq UsedRows(n)
    BY <1>6 DEF UsedRows, RectangularRows
  <2> HIDE DEF G
  <2>5. G = RectangularRows(lens, MaxTokens)
    BY DEF G
  <2>6. ShardedBy(Sharded(B), B, C, G)
    BY <1>1, <1>4, <1>5, <1>6, <2>1, <2>2, <2>3, <2>4, <2>5 DEF ShardedBy
  <2> QED
    BY <2>6
<1>9. CASE batching \in Packers
  <2> DEFINE G == PackedRows(lens, LengthRound, MaxTokens)
  <2>1. batching # "plain" /\ batching # "dynamic"
    BY <1>9 DEF Packers
  <2>2. Sharded(B) = PackedShards(lens, Shards, B, LengthRound, packer)
    BY <1>9, <2>1 DEF Sharded
  <2>a. B <= n
    BY <1>4, <1>5, Times DEF Area
  <2>b. IsPacker(packer, MaxTokens, B)
    BY <1>6, <1>9, <2>a, PackerIs
  <2>3. Sharding(PackedShards(lens, Shards, B, LengthRound, packer), Shards, C, B, G)
    BY <1>1, <1>3, <1>6, <2>b, PackedSharding
  <2>4. G \subseteq UsedRows(n)
    BY <1>6 DEF UsedRows, PackedRows
  <2> HIDE DEF G
  <2>5. G = PackedRows(lens, LengthRound, MaxTokens)
    BY DEF G
  <2>6. ShardedBy(Sharded(B), B, C, G)
    BY <1>1, <1>4, <1>5, <1>6, <2>1, <2>2, <2>3, <2>4, <2>5 DEF ShardedBy
  <2> QED
    BY <2>6
<1> QED
  BY <1>7, <1>8, <1>9 DEF Prepared

LEMMA CanShardIs ==
  ASSUME Prepared, NEW B \in Nat \ {0}, B % (Shards * MicroBatchSize) = 0, Len(lens) % B = 0
  PROVE  CanShard(B)
<1> DEFINE n == Len(lens)
<1>1. /\ lens \in Seq(Nat) /\ n \in Nat \ {0} /\ DOMAIN lens = 1 .. n
      /\ Rounded(lens, LengthRound, MaxTokens)
      /\ Shards \in Nat \ {0} /\ MicroBatchSize \in Nat \ {0}
  BY BatchIs
<1> HIDE DEF n
<1>2. PICK q \in Nat, C \in Nat : Dims(Shards, Area(MicroBatchSize, q), C, B, n)
  BY <1>1, BatchDims DEF n
<1> DEFINE size == Area(MicroBatchSize, q)
<1>3. Dims(Shards, size, C, B, n)
  BY <1>2
<1> HIDE DEF size
<1>4. n = Area(B, C) /\ C \in Nat /\ n \div B = C
  BY <1>3, DimsAre
<1>5. C # 0
  BY <1>1, <1>4, NextRow
<1>6. n = Len(lens)
  BY DEF n
<1>7. B <= n
  BY <1>4, <1>5, Times DEF Area
<1>8. NumChunks(lens, B) = C
  BY <1>4, <1>6 DEF NumChunks
<1>9. ASSUME batching \in Packers, NEW c \in 1 .. C
      PROVE  LET chunk == Chunk(lens, c, B)
                 bins == Pack(packer, [i \in DOMAIN chunk |-> RoundUp(chunk[i], LengthRound)])
             IN  EnoughFor(TargetCount(bins, Shards), bins)
  <2>1. IsPacker(packer, MaxTokens, B)
    BY <1>6, <1>7, <1>9, PackerIs
  <2> QED
    BY <1>1, <1>3, <1>6, <2>1, PackedEnough
<1> QED
  BY <1>8, <1>9, Zenon DEF CanShard

\* What is known of the shards while they are used.
LEMMA ShardsHold ==
  ASSUME NEW B, NEW C, NEW G, ShardedBy(shard, B, C, G), Shards \in Nat \ {0}
  PROVE  /\ DOMAIN shard = Ranks
         /\ \A k \in Ranks :
               /\ MicroBatches(k) \in Seq(G) /\ Len(MicroBatches(k)) \in Nat
               /\ Len(MicroBatches(k)) = Len(MicroBatches(1))
               /\ \A m \in DOMAIN MicroBatches(k) : MicroBatches(k)[m] \in G
         /\ EveryRowOnce
<1> DEFINE n == Len(lens)
<1>1. /\ B \in Nat \ {0} /\ C \in Nat \ {0} /\ C \in Nat /\ n = Area(B, C)
      /\ G \subseteq UsedRows(n) /\ Sharding(shard, Shards, C, B, G)
      /\ DOMAIN lens = 1 .. n /\ n \in Nat
  BY LenProperties DEF ShardedBy
<1> HIDE DEF n
<1>2. Ranks = 1 .. Shards /\ 1 \in Ranks
  BY DEF Ranks
<1>3. DOMAIN shard = Ranks
  BY <1>1, <1>2 DEF Sharding
<1>4. ASSUME NEW k \in Ranks
      PROVE  /\ shard[k] \in Seq(Seq(G)) /\ Len(shard[k]) = C
             /\ \A c \in 1 .. C : /\ shard[k][c] \in Seq(G)
                                  /\ \A x : Held(shard[k][c], x) => x \in RowsOf(c, B)
             /\ \A c \in 1 .. C : Len(shard[k][c]) = Len(shard[1][c])
             /\ MicroBatches(k) \in Seq(G)
  <2>1. k \in 1 .. Shards
    BY <1>2
  <2>2. MicroBatches(k) = MicroBatchesOf(shard, k)
    BY Zenon DEF MicroBatches, MicroBatchesOf
  <2>3. /\ shard[k] \in Seq(Seq(G)) /\ Len(shard[k]) = C
        /\ \A c \in 1 .. C : /\ shard[k][c] \in Seq(G)
                             /\ \A x : Held(shard[k][c], x) => x \in RowsOf(c, B)
        /\ \A c \in 1 .. C : Len(shard[k][c]) = Len(shard[1][c])
        /\ MicroBatchesOf(shard, k) \in Seq(G)
    <3>1. ShardPart(shard, Shards, C, B, G, k)
      BY <1>1, <2>1, ShardParts
    <3> QED
      BY <3>1 DEF ShardPart
  <2> QED
    BY <2>2, <2>3, Zenon
<1>5. ASSUME NEW k \in Ranks
      PROVE  /\ Len(MicroBatches(k)) \in Nat
             /\ Len(MicroBatches(k)) = Len(MicroBatches(1))
             /\ \A m \in DOMAIN MicroBatches(k) : MicroBatches(k)[m] \in G
  <2>1. MicroBatches(k) \in Seq(G)
    BY <1>4
  <2>2. /\ Len(MicroBatches(k)) \in Nat
        /\ \A m \in DOMAIN MicroBatches(k) : MicroBatches(k)[m] \in G
    BY <2>1, ElementOfSeq, LenProperties
  <2> DEFINE a == shard[k]
             b == shard[1]
  <2>3. /\ a \in Seq(Seq(G)) /\ Len(a) = C /\ b \in Seq(Seq(G)) /\ Len(b) = C
        /\ \A c \in 1 .. C : Len(a[c]) = Len(b[c])
    BY <1>2, <1>4
  <2>4. MicroBatches(k) = FlattenSeq(a) /\ MicroBatches(1) = FlattenSeq(b)
    BY Zenon DEF MicroBatches
  <2> HIDE DEF a, b
  <2>5. Len(FlattenSeq(a)) = Len(FlattenSeq(b))
    BY <2>3, FlattenLength
  <2> QED
    BY <2>2, <2>4, <2>5
<1>6. Len(Concatenated(shard)) = n /\ ToSet(Concatenated(shard)) = 1 .. n
  <2> DEFINE all == Concatenated(shard)
  <2>1. all \in Seq(1 .. n) /\ Contents(all, 1 .. n) /\ Len(all) = n
    BY <1>1, ShardRows
  <2> HIDE DEF all
  <2>2. DOMAIN all = 1 .. Len(all)
    BY <2>1, LenProperties
  <2>3. \A x : x \in ToSet(all) <=> MemberOf(all, x)
    BY <2>2 DEF ToSet, MemberOf
  <2>4. ToSet(all) = 1 .. n
    BY <2>1, <2>3 DEF Contents
  <2> QED
    BY <2>1, <2>4 DEF all
<1>7. n \div C = B
  <2>1. Area(B, C) = Area(C, B) /\ Area(C, B) \div C = B
    BY <1>1, DivArea
  <2> QED
    BY <1>1, <2>1, Zenon
<1>8. ASSUME NEW k \in Ranks, NEW c \in DOMAIN shard[k]
      PROVE  LET size == n \div Len(shard[k])
             IN  ToSet(FlattenSeq(shard[k][c])) \subseteq ((c - 1) * size + 1) .. (c * size)
  <2>1. shard[k] \in Seq(Seq(G)) /\ Len(shard[k]) = C
    BY <1>4
  <2>2. c \in 1 .. C
    BY <2>1, LenProperties
  <2> DEFINE p == shard[k][c]
             t == FlattenSeq(p)
             X == 1 .. n
  <2>3. p \in Seq(G) /\ \A x : Held(p, x) => x \in RowsOf(c, B)
    BY <1>4, <2>2
  <2>4. G \subseteq Seq(X)
    BY <1>1 DEF UsedRows
  <2> HIDE DEF p, X
  <2>5. p \in Seq(Seq(X))
    BY <2>3, <2>4, SeqMonotonic
  <2>6. t \in Seq(X) /\ \A x : MemberOf(t, x) <=> \E b \in 1 .. Len(p) : MemberOf(p[b], x)
    BY <2>5, FlattenMembers
  <2> HIDE DEF t
  <2>7. \A x \in ToSet(t) : x \in RowsOf(c, B)
    <3>1. DOMAIN t = 1 .. Len(t)
      BY <2>6, LenProperties
    <3>2. \A x \in ToSet(t) : MemberOf(t, x)
      BY <3>1 DEF ToSet, MemberOf
    <3> QED
      BY <2>3, <2>6, <3>2 DEF Held
  <2>8. RowsOf(c, B) = ((c - 1) * B + 1) .. (c * B)
    <3>1. \A a, b \in Int : a * b = b * a
      OBVIOUS
    <3>2. B * (c - 1) = (c - 1) * B /\ B * c = c * B
      BY <1>1, <2>2, <3>1
    <3> QED
      BY <3>2, Zenon DEF RowsOf, Area
  <2>9. ToSet(t) \subseteq ((c - 1) * B + 1) .. (c * B)
    BY <2>7, <2>8, Zenon
  <2>10. n \div Len(shard[k]) = B
    BY <1>7, <2>1
  <2> QED
    BY <2>9, <2>10, Zenon DEF t, p
<1>9. EveryRowOnce
  BY <1>1, <1>6, <1>8, Zenon DEF EveryRowOnce, n
<1> QED
  BY <1>3, <1>4, <1>5, <1>9

LEMMA ShardsFit ==
  ASSUME NEW B, NEW C, NEW G, ShardedBy(shard, B, C, G), Shards \in Nat \ {0}
  PROVE  WithinCapacity
<1> SUFFICES ASSUME NEW k \in Ranks, NEW m \in DOMAIN MicroBatches(k)
             PROVE  LET rows == MicroBatches(k)[m]
                        padded == [i \in DOMAIN rows |-> RoundUp(lens[rows[i]], LengthRound)]
                    IN  /\ rows # <<>>
                        /\ batching = "dynamic" =>
                               \A i \in DOMAIN rows : Len(rows) * lens[rows[i]] <= MaxTokens
                        /\ batching \in Packers =>
                               Load(Rows(rows), padded) <= MaxTokens
  BY Zenon DEF WithinCapacity
<1> DEFINE rows == MicroBatches(k)[m]
<1>1. rows \in G
  BY ShardsHold
<1> HIDE DEF rows
<1>2. rows \in Seq(1 .. Len(lens)) /\ rows # <<>>
  BY <1>1 DEF ShardedBy, UsedRows
<1>3. DOMAIN rows = 1 .. Len(rows)
  BY <1>2, LenProperties
<1>4. ASSUME batching = "dynamic"
      PROVE  \A i \in DOMAIN rows : Len(rows) * lens[rows[i]] <= MaxTokens
  <2>1. rows \in RectangularRows(lens, MaxTokens)
    BY <1>1, <1>4 DEF ShardedBy
  <2> QED
    BY <1>3, <2>1 DEF RectangularRows
<1>5. ASSUME batching \in Packers
      PROVE  Load(Rows(rows), [i \in DOMAIN rows |-> RoundUp(lens[rows[i]], LengthRound)])
                 <= MaxTokens
  <2>1. rows \in PackedRows(lens, LengthRound, MaxTokens)
    BY <1>1, <1>5 DEF ShardedBy
  <2> QED
    BY <2>1 DEF PackedRows
<1> QED
  BY <1>2, <1>4, <1>5, Zenon DEF rows

\* The batch sharded at once and put together again.
LEMMA RestoredIs ==
  ASSUME Prepared, shard = Sharded(Len(lens))
  PROVE  Restored(Concatenated(shard)) = Rows(lens)
<1> DEFINE n == Len(lens)
<1>1. /\ lens \in Seq(Nat) /\ n \in Nat \ {0} /\ n \in Nat /\ DOMAIN lens = 1 .. n
      /\ n % (Shards * MicroBatchSize) = 0
      /\ Shards \in Nat \ {0} /\ MicroBatchSize \in Nat \ {0}
  BY BatchIs
<1>2. n % n = 0
  BY <1>1
<1>3. CASE batching = "plain"
  <2>1. Sharded(n) = PlainShards(lens, Shards, n, MicroBatchSize)
    BY <1>3 DEF Sharded, Packers
  <2> HIDE DEF n
  <2>2. PICK q \in Nat, C \in Nat : Dims(Shards, Area(MicroBatchSize, q), C, n, n)
    BY <1>1, <1>2, BatchDims
  <2> DEFINE size == Area(MicroBatchSize, q)
  <2>3. Dims(Shards, size, C, n, n)
    BY <2>2
  <2>4. size = Area(MicroBatchSize, q)
    OBVIOUS
  <2> HIDE DEF size
  <2>5. n \div n = C
    BY <2>3, DimsAre
  <2>6. C = 1
    BY <1>1, <2>5
  <2>7. Dims(Shards, size, 1, n, n)
    BY <2>3, <2>6
  <2>8. Len(lens) = n
    BY DEF n
  <2>9. Concatenated(PlainShards(lens, Shards, n, MicroBatchSize)) = Rows(lens)
    BY <1>1, <2>2, <2>4, <2>7, <2>8, PlainRows
  <2> QED
    BY <1>3, <2>1, <2>9 DEF Restored, n
<1>4. CASE batching # "plain"
  <2> HIDE DEF n
  <2>1. PICK C, G : ShardedBy(Sharded(n), n, C, G)
    BY <1>1, <1>2, ShardedIs DEF n
  <2>2. ShardedBy(shard, n, C, G)
    BY <2>1 DEF n
  <2> DEFINE all == Concatenated(shard)
  <2>3. /\ C \in Nat /\ n = Area(n, C) /\ G \subseteq UsedRows(n)
        /\ Sharding(shard, Shards, C, n, G)
    BY <2>2 DEF ShardedBy, n
  <2>4. all \in Seq(1 .. n) /\ Once(all) /\ Contents(all, 1 .. n) /\ Len(all) = n
    BY <1>1, <2>3, ShardRows
  <2> HIDE DEF all
  <2>5. Reordered(all, all) = [i \in 1 .. n |-> i]
    BY <1>1, <2>4, ReorderedIs
  <2>6. Rows(lens) = [i \in 1 .. n |-> i]
    BY <1>1 DEF Rows
  <2>7. Restored(all) = Reordered(all, all)
    BY <1>4 DEF Restored, all
  <2> QED
    BY <2>5, <2>6, <2>7, Zenon DEF all
<1> QED
  BY <1>3, <1>4

-----------------------------------------------------------------------------
(* The invariant.                                                           *)

\* What is sharded is the whole batch, or its global batches; before it trains
\* no rank has entered a microbatch, then none more than it has.
IInv ==
    /\ Prepared
    /\ phase \in {"start", "logprobs", "ready", "training", "trained"}
    /\ entered \in [Ranks -> Nat]
    /\ phase = "logprobs" => shard = Sharded(Len(lens))
    /\ phase = "training" =>
           /\ \E size \in GlobalBatchSizes : Len(lens) % size = 0 /\ shard = Sharded(size)
           /\ \A k \in Ranks : entered[k] <= Len(MicroBatches(k))
    /\ phase \in {"start", "logprobs", "ready"} => \A k \in Ranks : entered[k] = 0
    /\ logprobs # <<>> => logprobs = Rows(lens)

LEMMA InitIInv == Init => IInv
<1> SUFFICES ASSUME Init
             PROVE  IInv
  OBVIOUS
<1>1. Prepared
  BY DEF Init, Prepared
<1> QED
  BY <1>1 DEF Init, IInv

\* A sharded batch is sharded, the whole of it or by a size of GlobalBatchSizes.
LEMMA WhatIsSharded ==
  ASSUME Prepared,
         NEW B, B = Len(lens) \/ (B \in GlobalBatchSizes /\ Len(lens) % B = 0)
  PROVE  /\ B \in Nat \ {0} /\ B % (Shards * MicroBatchSize) = 0 /\ Len(lens) % B = 0
         /\ \E C, G : ShardedBy(Sharded(B), B, C, G)
         /\ CanShard(B)
<1>1. /\ Len(lens) \in Nat \ {0} /\ Len(lens) % (Shards * MicroBatchSize) = 0
  BY BatchIs
<1>2. B \in Nat \ {0} /\ B % (Shards * MicroBatchSize) = 0 /\ Len(lens) % B = 0
  <2>1. CASE B = Len(lens)
    <3>1. \A n \in Nat \ {0} : n % n = 0
      OBVIOUS
    <3> QED
      BY <1>1, <2>1, <3>1
  <2>2. CASE B \in GlobalBatchSizes /\ Len(lens) % B = 0
    BY <2>2, BatchAssumption
  <2> QED
    BY <2>1, <2>2
<1> QED
  BY <1>2, ShardedIs, CanShardIs

LEMMA ShardsAre ==
  ASSUME IInv, phase \in {"logprobs", "training"}
  PROVE  \E B, C, G : ShardedBy(shard, B, C, G)
<1>1. Prepared
  BY DEF IInv
<1>2. PICK B : /\ B = Len(lens) \/ (B \in GlobalBatchSizes /\ Len(lens) % B = 0)
               /\ shard = Sharded(B)
  BY DEF IInv
<1> QED
  BY <1>1, <1>2, WhatIsSharded

\* The operators that shard a batch read it, and how it is batched.
LEMMA SameBatch ==
  ASSUME UNCHANGED <<lens, batching, shuffle>>, Prepared
  PROVE  Prepared' /\ \A B : Sharded(B)' = Sharded(B)
<1>1. Prepared'
  BY DEF Prepared
<1>2. packer' = packer
  BY DEF packer
<1>3. \A B : Sharded(B)' = Sharded(B)
  BY <1>2, Zenon DEF Sharded
<1> QED
  BY <1>1, <1>3

LEMMA NextIInv == IInv /\ [Next]_vars => IInv'
<1> SUFFICES ASSUME IInv, [Next]_vars
             PROVE  IInv'
  OBVIOUS
<1>1. Prepared /\ Shards \in Nat \ {0}
  BY BatchIs DEF IInv
<1>2. CASE SubmitLogprobs
  <2>1. UNCHANGED <<lens, batching, shuffle>> /\ shard' = Sharded(Len(lens))
        /\ phase = "start" /\ phase' = "logprobs" /\ UNCHANGED <<logprobs, entered>>
    BY <1>2 DEF SubmitLogprobs
  <2>2. Prepared' /\ Sharded(Len(lens))' = Sharded(Len(lens))
    BY <1>1, <2>1, SameBatch
  <2> QED
    BY <2>1, <2>2 DEF IInv
<1>3. ASSUME NEW w \in Workers, WorkerAnswers(w)
      PROVE  IInv'
  <2>1. UNCHANGED <<lens, batching, shuffle>> /\ phase = "logprobs"
        /\ UNCHANGED <<phase, shard, logprobs, entered>>
    BY <1>3 DEF WorkerAnswers
  <2>2. Prepared' /\ Sharded(Len(lens))' = Sharded(Len(lens))
    BY <1>1, <2>1, SameBatch
  <2> QED
    BY <2>1, <2>2 DEF IInv
<1>4. CASE CollectLogprobs
  <2>1. UNCHANGED <<lens, batching, shuffle>> /\ phase = "logprobs"
        /\ phase' = "ready" /\ UNCHANGED <<shard, entered>>
        /\ logprobs' = Restored(Concatenated([k \in Ranks |-> shard[ReturningWorkers[k][1]]]))
    BY <1>4 DEF CollectLogprobs
  <2>2. Prepared'
    BY <1>1, <2>1, SameBatch
  <2>3. shard = Sharded(Len(lens))
    BY <2>1 DEF IInv
  <2>4. PICK B, C, G : ShardedBy(shard, B, C, G)
    BY <2>1, ShardsAre
  <2>5. DOMAIN shard = Ranks
    BY <1>1, <2>4, ShardsHold
  <2>6. shard = [k \in DOMAIN shard |-> shard[k]]
    <3>1. Sharding(shard, Shards, C, B, G)
      BY <2>4 DEF ShardedBy
    <3> QED
      BY <3>1 DEF Sharding
  <2>7. [k \in Ranks |-> shard[ReturningWorkers[k][1]]] = shard
    BY <2>5, <2>6 DEF ReturningWorkers
  <2>8. logprobs' = Rows(lens)
    BY <1>1, <2>1, <2>3, <2>7, RestoredIs, Zenon
  <2> QED
    BY <2>1, <2>2, <2>8 DEF IInv
<1>5. ASSUME NEW size \in GlobalBatchSizes, SubmitTraining(size)
      PROVE  IInv'
  <2>1. UNCHANGED <<lens, batching, shuffle>> /\ shard' = Sharded(size)
        /\ phase = "ready" /\ phase' = "training" /\ UNCHANGED <<logprobs, entered>>
        /\ Len(lens) % size = 0
    BY <1>5 DEF SubmitTraining
  <2>2. Prepared' /\ Sharded(size)' = Sharded(size)
    BY <1>1, <2>1, SameBatch
  <2>3. PICK C, G : ShardedBy(Sharded(size), size, C, G)
    BY <1>1, <2>1, WhatIsSharded
  <2>5. \A k \in Ranks : entered[k] = 0
    BY <2>1 DEF IInv
  <2>6. ASSUME NEW k \in Ranks
        PROVE  Len(MicroBatches(k))' \in Nat
    <3> DEFINE s == Sharded(size)
    <3>1. /\ Sharding(s, Shards, C, size, G) /\ C \in Nat /\ k \in 1 .. Shards
          /\ size \in Nat \ {0} /\ G \subseteq UsedRows(Area(size, C))
      BY <2>3 DEF ShardedBy, Ranks
    <3> HIDE DEF s
    <3>2. ShardPart(s, Shards, C, size, G, k)
      BY <1>1, <3>1, ShardParts
    <3>3. MicroBatchesOf(s, k) \in Seq(G)
      BY <3>2 DEF ShardPart
    <3>4. Len(MicroBatchesOf(s, k)) \in Nat
      BY <3>3, LenProperties
    <3>5. shard' = s
      BY <2>1 DEF s
    <3>6. MicroBatches(k)' = MicroBatchesOf(s, k)
      BY <3>5, Zenon DEF MicroBatches, MicroBatchesOf
    <3> QED
      BY <3>4, <3>6, Zenon
  <2>7. \A k \in Ranks : entered'[k] <= Len(MicroBatches(k))'
    BY <2>1, <2>5, <2>6
  <2> QED
    BY <2>1, <2>2, <2>7 DEF IInv
<1>6. ASSUME NEW k \in Ranks, EnterMicroBatch(k)
      PROVE  IInv'
  <2>1. UNCHANGED <<lens, batching, shuffle>> /\ phase = "training"
        /\ UNCHANGED <<phase, shard, logprobs>>
        /\ entered[k] < Len(MicroBatches(k)) /\ entered' = [entered EXCEPT ![k] = @ + 1]
    BY <1>6 DEF EnterMicroBatch, MayEnter
  <2>2. Prepared' /\ \A B : Sharded(B)' = Sharded(B)
    BY <1>1, <2>1, SameBatch
  <2>3. PICK B, C, G : ShardedBy(shard, B, C, G)
    BY <2>1, ShardsAre
  <2>4. \A j \in Ranks : Len(MicroBatches(j)) \in Nat
    BY <1>1, <2>3, ShardsHold
  <2>5. \A j \in Ranks : MicroBatches(j)' = MicroBatches(j)
    BY <2>1 DEF MicroBatches
  <2>6. /\ entered \in [Ranks -> Nat]
        /\ \A j \in Ranks : entered[j] <= Len(MicroBatches(j))
        /\ \E size \in GlobalBatchSizes : Len(lens) % size = 0 /\ shard = Sharded(size)
        /\ logprobs # <<>> => logprobs = Rows(lens)
    BY <2>1 DEF IInv
  <2>7. entered' \in [Ranks -> Nat]
    BY <2>1, <2>6
  <2>8. \A j \in Ranks : entered'[j] <= Len(MicroBatches(j))'
    <3>1. \A j \in Ranks : entered'[j] <= Len(MicroBatches(j))
      BY <2>1, <2>4, <2>6
    <3> QED
      BY <2>5, <3>1
  <2>9. \E size \in GlobalBatchSizes : Len(lens') % size = 0 /\ shard' = Sharded(size)'
    BY <2>1, <2>2, <2>6
  <2> QED
    BY <2>1, <2>2, <2>6, <2>7, <2>8, <2>9 DEF IInv
<1>7. CASE FinishTraining
  <2>1. UNCHANGED <<lens, batching, shuffle>> /\ phase' = "trained"
        /\ UNCHANGED <<logprobs, entered>>
    BY <1>7 DEF FinishTraining
  <2>2. Prepared'
    BY <1>1, <2>1, SameBatch
  <2> QED
    BY <2>1, <2>2 DEF IInv
<1>8. CASE UNCHANGED vars
  <2>1. UNCHANGED <<lens, batching, shuffle>>
        /\ UNCHANGED <<phase, shard, logprobs, entered>>
    BY <1>8 DEF vars
  <2>2. Prepared' /\ \A B : Sharded(B)' = Sharded(B)
    BY <1>1, <2>1, SameBatch
  <2>3. \A j \in Ranks : MicroBatches(j)' = MicroBatches(j)
    BY <2>1 DEF MicroBatches
  <2> QED
    BY <2>1, <2>2, <2>3 DEF IInv
<1> QED
  BY <1>2, <1>3, <1>4, <1>5, <1>6, <1>7, <1>8 DEF Next

\* While a batch trains, the rank that has entered the fewest microbatches may
\* enter one more, unless every rank has entered all.
LEMMA SlowestMayEnter ==
  ASSUME IInv, phase = "training"
  PROVE  AllEntered \/ \E k \in Ranks : MayEnter(k)
<1>1. Shards \in Nat \ {0} /\ entered \in [Ranks -> Nat]
      /\ \A k \in Ranks : entered[k] <= Len(MicroBatches(k))
  BY BatchIs DEF IInv
<1>2. PICK B, C, G : ShardedBy(shard, B, C, G)
  BY ShardsAre
<1> DEFINE most == Len(MicroBatches(1))
           T == {entered[k] : k \in Ranks}
<1>3. \A k \in Ranks : Len(MicroBatches(k)) = most /\ most \in Nat
  BY <1>1, <1>2, ShardsHold
<1>4. 1 \in Ranks
  BY <1>1 DEF Ranks
<1> HIDE DEF most
<1>5. Min(T) \in T /\ \A y \in T : Min(T) <= y
  <2>1. T \in SUBSET Nat /\ T # {}
    BY <1>1, <1>4
  <2> HIDE DEF T
  <2> QED
    BY <2>1, MinIs
<1>6. PICK k \in Ranks : entered[k] = Min(T)
  BY <1>5
<1>7. \A j \in Ranks : entered[j] \in T
  OBVIOUS
<1> HIDE DEF T
<1>8. \A j \in Ranks : entered[j] >= entered[k]
  BY <1>1, <1>5, <1>6, <1>7
<1>9. CASE entered[k] < most
  BY <1>3, <1>8, <1>9 DEF MayEnter, LastOneEnded
<1>10. CASE ~(entered[k] < most)
  <2>1. \A j \in Ranks : entered[j] = most
    BY <1>1, <1>3, <1>8, <1>10
  <2> QED
    BY <1>1, <1>3, <2>1 DEF AllEntered, LastOneEnded
<1> QED
  BY <1>9, <1>10

\* The invariant implies what is wanted of the batch.
LEMMA WhatIInvSays ==
  ASSUME IInv
  PROVE  EveryRowOnce /\ WithinCapacity /\ RightRows /\ NobodyLeftWaiting
<1>1. Prepared /\ Shards \in Nat \ {0}
  BY BatchIs DEF IInv
<1>2. EveryRowOnce /\ WithinCapacity
  <2>1. CASE phase \in {"logprobs", "training"}
    BY <1>1, <2>1, ShardsAre, ShardsHold, ShardsFit
  <2>2. CASE phase \notin {"logprobs", "training"}
    BY <2>2, Zenon DEF EveryRowOnce, WithinCapacity
  <2> QED
    BY <2>1, <2>2
<1>3. RightRows
  BY DEF IInv, RightRows
<1>4. CanShard(Len(lens))
  BY <1>1, WhatIsSharded
<1>5. \A size \in GlobalBatchSizes : Len(lens) % size = 0 => CanShard(size)
  BY <1>1, WhatIsSharded
<1>6. NobodyLeftWaiting
  BY <1>4, <1>5, SlowestMayEnter DEF NobodyLeftWaiting
<1> QED
  BY <1>2, <1>3, <1>6

\* The invariant holds of every behaviour.
THEOREM BatchInvariant == Spec => []IInv
<1> QED
  BY InitIInv, NextIInv, PTL DEF Spec

\* Whatever the batch, its batching and the shards, every row is in one shard,
\* in the chunk it belongs to: nothing is lost, computed twice or moved to
\* another global batch (EveryRowOnce).
THEOREM ShardsHoldTheBatch == Spec => []EveryRowOnce
<1>1. IInv => EveryRowOnce
  BY WhatIInvSays
<1> QED
  BY <1>1, BatchInvariant, PTL

\* No microbatch of a dynamically batched or packed batch has more tokens than
\* max_tokens_per_microbatch, and none is empty (WithinCapacity).
THEOREM MicroBatchesFit == Spec => []WithinCapacity
<1>1. IInv => WithinCapacity
  BY WhatIInvSays
<1> QED
  BY <1>1, BatchInvariant, PTL

\* However the rows were sorted, packed and dealt, and in whatever order the
\* workers answered, the log-probabilities come back at their rows (RightRows).
THEOREM LogprobsComeBack == Spec => []RightRows
<1>1. IInv => RightRows
  BY WhatIInvSays
<1> QED
  BY <1>1, BatchInvariant, PTL

\* Every chunk can be packed into a number of bins the shards divide, and a rank
\* that has microbatches left never waits for one that has none
\* (NobodyLeftWaiting).
THEOREM EveryRankTrains == Spec => []NobodyLeftWaiting
<1>1. IInv => NobodyLeftWaiting
  BY WhatIInvSays
<1> QED
  BY <1>1, BatchInvariant, PTL
=============================================================================
