--------------------------- MODULE PackedBroadcast ---------------------------
(***************************************************************************)
(* The refit of an engine with GPUs of its own (utils/packed_tensor.py):   *)
(* the policy broadcasts its tensors in packets.  The processors of both   *)
(* sides only enqueue work, on a ring of CUDA streams; the GPUs do it      *)
(* later.  Nobody sends lengths: each side decides for itself where a      *)
(* packet ends, the producer from its tensors, the consumers from the      *)
(* shapes they were told (prepare_refit_info).                             *)
(*                                                                         *)
(* External: a broadcast of the communicator takes place when every member *)
(* has reached it, in the order in which each enqueued its own.            *)
(***************************************************************************)
EXTENDS EngineWeights, FiniteSetsExt

CONSTANTS NumBuffers,       \* NRL_REFIT_NUM_BUFFERS
          Target            \* target_packed_tensor_size

ASSUME BroadcastAssumption ==
    /\ NumBuffers \in Nat \ {0}
    /\ Target \in Nat

VARIABLES
    cpu,            \* what each side's processor has enqueued
    stream,         \* the work that each of its streams still has to do
    broadcasts      \* broadcasts that have taken place

broadcastVars == <<cpu, stream, broadcasts>>

Source == "source"
Members == Ranks \cup {Source}
Buffers == 0 .. NumBuffers - 1

BroadcastInit ==
    /\ cpu = [m \in Members |-> [pc |-> "run", next |-> 1, buffer |-> 0,
                                 enqueued |-> 0]]
    /\ stream = [m \in Members |-> [b \in Buffers |-> <<>>]]
    /\ broadcasts = 0

Bytes(sizes, lo, hi) == MapThenSumSet(LAMBDA i : sizes[i], lo .. hi)

\* mutant: a packet that is exactly full is sent.
CutWhenFull(lo) ==
    LET full == {hi \in lo .. Len(tensors) : Bytes(tensors, lo, hi) >= Target}
    IN  IF full = {} THEN Len(tensors) ELSE Min(full)

\* A packet is full once it is larger than the target.
IsFull(lo, hi) == Bytes(tensors, lo, hi) > Target

\* The producer adds tensors until the packet is full; the last packet holds
\* what is left.
ProducerCut(lo) ==
    LET full == {hi \in lo .. Len(tensors) : IsFull(lo, hi)}
    IN  IF full = {} THEN Len(tensors) ELSE Min(full)

\* The consumer's own loop, over names and shapes.
ConsumerCut(lo) ==
    LET full == {hi \in lo .. Len(tensors) : IsFull(lo, hi)}
    IN  IF full = {} THEN Len(tensors) ELSE Min(full)

\* The iterator ended before the packet was full.
IsTail(lo, hi) == ~IsFull(lo, hi)

\* streams[buffer_idx].synchronize()
StreamIsFree(m, b) == stream[m][b] = <<>>

Broadcast(n, lo, hi) ==
    [op |-> "broadcast", n |-> n, from |-> lo, to |-> hi]
LoadPacket(n, lo, hi) ==
    [op |-> "load", n |-> n, from |-> lo, to |-> hi]

\* Member m goes on to its next buffer and enqueues the operations work there.
Enqueue(m, hi, work, pc) ==
    LET b == (cpu[m].buffer + 1) % NumBuffers
    IN  /\ StreamIsFree(m, b)
        /\ stream' = [stream EXCEPT ![m][b] = @ \o work]
        /\ cpu' = [cpu EXCEPT ![m] =
              [pc |-> pc, next |-> hi + 1, buffer |-> b,
               enqueued |-> @.enqueued + (IF work = <<>> THEN 0 ELSE 1)]]

ProducePacket ==
    LET lo == cpu[Source].next
        hi == ProducerCut(lo)
        n == cpu[Source].enqueued + 1
    IN  /\ cpu[Source].pc = "run"
        /\ Enqueue(Source, hi,
                   IF lo <= hi THEN <<Broadcast(n, lo, hi)>> ELSE <<>>,
                   IF IsTail(lo, hi) THEN "returned" ELSE "run")
        /\ UNCHANGED <<broadcasts, loaded, faults>>

\* The consumer returns True when the iterator has ended, whatever is still
\* in its streams.
ConsumePacket(r) ==
    LET lo == cpu[r].next
        hi == ConsumerCut(lo)
        n == cpu[r].enqueued + 1
    IN  /\ cpu[r].pc = "run"
        /\ Enqueue(r, hi,
                   IF lo <= hi
                   THEN <<Broadcast(n, lo, hi), LoadPacket(n, lo, hi)>>
                   ELSE <<>>,
                   IF IsTail(lo, hi) THEN "returned" ELSE "run")
        /\ UNCHANGED <<broadcasts, loaded, faults>>

\* post_unpack_func raises: the broadcast is enqueued, the load is not, and
\* the worker answers False.
ConsumerFails(r) ==
    LET lo == cpu[r].next
        hi == ConsumerCut(lo)
    IN  /\ cpu[r].pc = "run" /\ lo <= hi
        /\ faults > 0
        /\ faults' = faults - 1
        /\ Enqueue(r, hi, <<Broadcast(cpu[r].enqueued + 1, lo, hi)>>, "failed")
        /\ UNCHANGED <<broadcasts, loaded>>

-----------------------------------------------------------------------------
\* The GPUs.

AtBroadcast(m, b) ==
    /\ stream[m][b] # <<>>
    /\ Head(stream[m][b]).op = "broadcast"
    /\ Head(stream[m][b]).n = broadcasts + 1

RunBroadcast ==
    \E at \in [Members -> Buffers] :
        /\ \A m \in Members : AtBroadcast(m, at[m])
        /\ stream' = [m \in Members |->
                        [stream[m] EXCEPT ![at[m]] = Tail(@)]]
        /\ broadcasts' = broadcasts + 1
        /\ UNCHANGED <<cpu, loaded, faults>>

RunLoad(r) ==
    \E b \in Buffers :
        /\ stream[r][b] # <<>>
        /\ Head(stream[r][b]).op = "load"
        /\ LET p == Head(stream[r][b])
           IN  loaded' = [loaded EXCEPT ![r] =
                   @ \o [i \in 1 .. p.to - p.from + 1 |-> p.from + i - 1]]
        /\ stream' = [stream EXCEPT ![r][b] = Tail(@)]
        /\ UNCHANGED <<cpu, broadcasts, faults>>

GPUStep == RunBroadcast \/ \E r \in Ranks : RunLoad(r)

ProcessorStep(m) ==
    IF m = Source THEN ProducePacket ELSE ConsumePacket(m) \/ ConsumerFails(m)

BroadcastStep ==
    /\ (\E m \in Members : ProcessorStep(m)) \/ GPUStep
    /\ UNCHANGED tensors

BroadcastEnded(r) == cpu[r].pc \in {"returned", "failed"}

-----------------------------------------------------------------------------
\* Properties.

\* The members that meet in a broadcast mean the same packet.
SamePackets ==
    \A m1, m2 \in Members : \A b1, b2 \in Buffers :
        AtBroadcast(m1, b1) /\ AtBroadcast(m2, b2)
            => Head(stream[m1][b1]) = Head(stream[m2][b2])

PacketsOf(m) ==
    UNION {{stream[m][b][i].n : i \in DOMAIN stream[m][b]} : b \in Buffers}

\* No member ever has more than NumBuffers packets in its memory, however far
\* its GPU lags behind its processor.
MemoryBounded == \A m \in Members : Cardinality(PacketsOf(m)) <= NumBuffers

\* The two GPU sides of a broadcast never get out of step, nor the processors
\* too far ahead of them.
BroadcastSafe == SamePackets /\ MemoryBounded
=============================================================================
