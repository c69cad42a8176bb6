--------------------------- MODULE Rollouts_proofs ---------------------------
(***************************************************************************)
(* Two theorems, for any number of samples, engines and errors.            *)
(*                                                                         *)
(* A sample's rollout fails only by an error or a time-out, when one event *)
(* loop rolls them all out.  The index of the engine asked next is beyond  *)
(* the last one only while the coroutine that counted it up holds the      *)
(* loop, so that every request finds an engine; with several loops this is *)
(* not so.  And the queue of a request always holds, or has given, an      *)
(* output or an error before it says that the consumer has ended.          *)
(*                                                                         *)
(* Every sample goes through an Episode, with any number of loops.  Its    *)
(* stage says how many answers it has and which result it went on from,    *)
(* every output on its way to it fits into its messages, and the rows of a *)
(* batch come back to their samples from the engines and environments.     *)
(***************************************************************************)
EXTENDS Rollouts, BatchSharding_proofs

OneLoop == \A s, r \in Samples : ThreadOf[s] = ThreadOf[r]

Stages ==
    {"ask", "asked", "counted", "wait", "score", "over", "failed", "raised"}

Messages == [kind : {"sample", "error", "worker_done"}, tokens : Nat]

Output(n) == Message("sample", n)
Failure == Message("error", 0)
Done == Message("worker_done", 0)

\* What an answer may add to a sample's messages.
Room(s) == {n \in Nat : length[s] + n <= MaxSeqLen}

AsyncType ==
    /\ stage \in [Samples -> Stages]
    /\ errors \in 0..MaxErrors
    /\ shardIdx \in 0..NumEngines
    /\ loop \in [Threads -> Nat]
    /\ queue \in [Samples -> Seq(Messages)]
    /\ got \in [Samples -> Int]
    /\ finished \in [Samples -> BOOLEAN]
    /\ length \in [Samples -> 0..MaxSeqLen]

\* The index is beyond the last engine only while a coroutine holds the loop.
Dispatching(s) == stage[s] \in {"asked", "counted"}

DispatchInv ==
    /\ \A s \in Samples : Dispatching(s) <=> loop[ThreadOf[s]] = s
    /\ \A s \in Samples : stage[s] = "asked" => shardIdx < NumEngines
    /\ shardIdx = NumEngines => \E s \in Samples : stage[s] = "counted"

\* An error is on its way to the coroutine.
Errored(s) ==
    /\ finished[s]
    /\ \/ queue[s] = <<Failure, Done>>
       \/ \E n \in Room(s) : queue[s] = <<Output(n), Failure, Done>>

QueueInv(s) ==
    stage[s] = "wait" =>
        /\ got[s] = Nothing \/ got[s] \in Room(s)
        /\ ~finished[s] =>
               queue[s] = <<>> \/ \E n \in Room(s) : queue[s] = <<Output(n)>>
        /\ finished[s] =>
               \/ \E n \in Room(s) : queue[s] = <<Output(n), Done>>
               \/ queue[s] = <<Done>> /\ got[s] # Nothing
               \/ Errored(s)

Fails(s) == stage[s] = "failed" \/ (stage[s] = "wait" /\ Errored(s))

Failing == {s \in Samples : Fails(s)}

CountInv == Cardinality(Failing) <= MaxErrors - errors

AsyncInv ==
    AsyncType /\ DispatchInv /\ (\A s \in Samples : QueueInv(s)) /\ CountInv

BatchInv ==
    /\ stage \in [Samples -> {"ask", "score", "over", "raised"}]
    /\ errors \in 0..MaxErrors

RolloutsInv ==
    asyncEngine \in BOOLEAN /\ IF asyncEngine THEN AsyncInv ELSE BatchInv

-----------------------------------------------------------------------------
\* Numbers and sequences.

LEMMA LeastOfTwo ==
    ASSUME NEW a \in Int, NEW b \in Int
    PROVE  Min({a, b}) \in {a, b} /\ Min({a, b}) <= a /\ Min({a, b}) <= b
<1>1. \E x \in {a, b} : \A y \in {a, b} : x <= y
  BY DEF Min
<1> QED
  BY <1>1 DEF Min

LEMMA HeadsAndTails ==
    ASSUME NEW a, NEW b, NEW c
    PROVE  /\ Head(<<a>>) = a /\ Head(<<a, b>>) = a /\ Head(<<a, b, c>>) = a
           /\ Tail(<<a>>) = <<>> /\ Tail(<<a, b>>) = <<b>>
           /\ Tail(<<a, b, c>>) = <<b, c>>
<1>1. Head(<<a>>) = a /\ Head(<<a, b>>) = a /\ Head(<<a, b, c>>) = a
  OBVIOUS
<1>2. Tail(<<a>>) = <<>>
  OBVIOUS
<1>3. Tail(<<a, b>>) = <<b>>
  OBVIOUS
<1>4. Tail(<<a, b, c>>) = <<b, c>>
  OBVIOUS
<1> QED
  BY <1>1, <1>2, <1>3, <1>4

LEMMA Joined ==
    ASSUME NEW a, NEW b, NEW c
    PROVE  /\ <<>> \o <<a>> = <<a>> /\ <<>> \o <<a, b>> = <<a, b>>
           /\ <<a>> \o <<b>> = <<a, b>> /\ <<a>> \o <<b, c>> = <<a, b, c>>
<1> DEFINE S == {a, b, c}
<1>1. /\ <<a>> \in Seq(S) /\ <<b>> \in Seq(S)
      /\ <<a, b>> \in Seq(S) /\ <<b, c>> \in Seq(S) /\ <<a, b, c>> \in Seq(S)
  OBVIOUS
<1> HIDE DEF S
<1>2. <<>> \o <<a>> = <<a>> /\ <<>> \o <<a, b>> = <<a, b>>
  BY <1>1, ConcatEmptySeq
<1>3. <<a>> \o <<b>> = <<a, b>>
  <2>1. /\ <<a>> \o <<b>> \in Seq(S)
        /\ Len(<<a>> \o <<b>>) = 2
        /\ \A i \in 1 .. 2 : (<<a>> \o <<b>>)[i] =
               IF i <= 1 THEN <<a>>[i] ELSE <<b>>[i - 1]
    BY <1>1, ConcatProperties
  <2>2. \A i \in 1 .. 2 : (<<a>> \o <<b>>)[i] = <<a, b>>[i]
    BY <2>1
  <2> QED
    BY <1>1, <2>1, <2>2, SeqEqual
<1>4. <<a>> \o <<b, c>> = <<a, b, c>>
  <2>1. /\ <<a>> \o <<b, c>> \in Seq(S)
        /\ Len(<<a>> \o <<b, c>>) = 3
        /\ \A i \in 1 .. 3 : (<<a>> \o <<b, c>>)[i] =
               IF i <= 1 THEN <<a>>[i] ELSE <<b, c>>[i - 1]
    BY <1>1, ConcatProperties
  <2>2. \A i \in 1 .. 3 : (<<a>> \o <<b, c>>)[i] = <<a, b, c>>[i]
    BY <2>1
  <2> QED
    BY <1>1, <2>1, <2>2, SeqEqual
<1> QED
  BY <1>2, <1>3, <1>4

LEMMA MessageKinds ==
    /\ Failure \in Messages /\ Done \in Messages
    /\ \A n \in Nat : Output(n) \in Messages
    /\ Failure.kind = "error" /\ Done.kind = "worker_done"
    /\ \A n : Output(n).kind = "sample" /\ Output(n).tokens = n
  BY DEF Messages, Failure, Done, Output, Message

\* Without the error a queue that has ended is none of those with it.
LEMMA QueuesDiffer ==
    ASSUME NEW n
    PROVE  /\ <<Done>> # <<Failure, Done>> /\ <<Output(n), Done>> # <<Failure, Done>>
           /\ \A k : /\ <<Done>> # <<Output(k), Failure, Done>>
                     /\ <<Output(n), Done>> # <<Output(k), Failure, Done>>
<1>1. Failure # Done /\ Output(n) # Failure
  BY MessageKinds
<1>2. /\ Len(<<Done>>) = 1 /\ Len(<<Failure, Done>>) = 2
      /\ Len(<<Output(n), Done>>) = 2
      /\ \A k : Len(<<Output(k), Failure, Done>>) = 3
  OBVIOUS
<1>3. <<Output(n), Done>>[1] = Output(n) /\ <<Failure, Done>>[1] = Failure
  OBVIOUS
<1> QED
  BY <1>1, <1>2, <1>3

LEMMA AnswersFit ==
    ASSUME NEW s \in Samples, length[s] \in 0..MaxSeqLen,
           NEW n \in AnswersOf(s)
    PROVE  n \in Room(s)
<1> DEFINE a == AllowedTokens(s)
<1>1. /\ MaxSeqLen \in Nat /\ MaxNewTokens \in Nat /\ AnswerLengths \subseteq Nat
  BY RolloutsAssumption
<1>2. MaxSeqLen - length[s] \in Nat
  BY <1>1
<1>3. a \in Nat /\ a <= MaxSeqLen - length[s]
  <2> DEFINE b == MaxSeqLen - length[s]
  <2>1. a = Min({MaxNewTokens, b})
    BY DEF AllowedTokens
  <2> HIDE DEF a, b
  <2>2. b \in Nat
    BY <1>2 DEF b
  <2>3. a \in {MaxNewTokens, b} /\ a <= b
    <3>1. MaxNewTokens \in Int /\ b \in Int
      BY <1>1, <2>2
    <3>2. /\ Min({MaxNewTokens, b}) \in {MaxNewTokens, b}
          /\ Min({MaxNewTokens, b}) <= b
      BY <3>1, LeastOfTwo, Zenon
    <3> QED
      BY <2>1, <3>2
  <2> QED
    BY <1>1, <2>2, <2>3 DEF b
<1> HIDE DEF a
<1>4. n \in AnswerLengths \cup {a} /\ n <= a
  BY DEF AnswersOf, a
<1>5. n \in Nat
  BY <1>1, <1>3, <1>4
<1>6. length[s] \in Int /\ n <= MaxSeqLen - length[s]
  BY <1>1, <1>2, <1>3, <1>4, <1>5
<1>7. length[s] + n <= MaxSeqLen
  BY <1>1, <1>5, <1>6
<1> QED
  BY <1>5, <1>7 DEF Room

LEMMA ThreadsOfSamples == \A s \in Samples : ThreadOf[s] \in Threads
  BY RolloutsAssumption

-----------------------------------------------------------------------------
\* What one coroutine does leaves the others alone.

LEMMA FailingCounted ==
    /\ IsFiniteSet(Failing) /\ Cardinality(Failing) \in Nat
    /\ IsFiniteSet(Samples)
<1>1. IsFiniteSet(Samples)
  BY RolloutsAssumption, FS_Interval DEF Samples
<1> QED
  BY <1>1, FS_Subset, FS_CardinalityType DEF Failing

LEMMA OthersKeep ==
    ASSUME NEW r \in Samples,
           stage'[r] = stage[r], queue'[r] = queue[r], got'[r] = got[r],
           finished'[r] = finished[r], length'[r] = length[r]
    PROVE  /\ QueueInv(r) => QueueInv(r)'
           /\ Fails(r)' => Fails(r)
  BY DEF QueueInv, Fails, Errored, Room

OthersUnchanged(s) ==
    \A r \in Samples \ {s} :
        /\ stage'[r] = stage[r] /\ queue'[r] = queue[r] /\ got'[r] = got[r]
        /\ finished'[r] = finished[r] /\ length'[r] = length[r]

LEMMA OneSample ==
    ASSUME NEW s \in Samples, AsyncType, AsyncType',
           \A r \in Samples : QueueInv(r), CountInv,
           OthersUnchanged(s), QueueInv(s)',
           \/ (Fails(s)' => Fails(s)) /\ errors' = errors
           \/ errors' = errors - 1
    PROVE  (\A r \in Samples : QueueInv(r)') /\ CountInv'
<1>1. \A r \in Samples : QueueInv(r)'
  BY OthersKeep DEF OthersUnchanged
<1>2. MaxErrors \in Nat /\ errors \in Int /\ errors' \in Int
  BY RolloutsAssumption DEF AsyncType
<1>3. CASE (Fails(s)' => Fails(s)) /\ errors' = errors
  <2>1. Failing' \subseteq Failing
    BY <1>3, OthersKeep DEF Failing, OthersUnchanged
  <2>2. Cardinality(Failing') <= Cardinality(Failing) /\ Cardinality(Failing') \in Nat
    BY <2>1, FailingCounted, FS_Subset, FS_CardinalityType
  <2> QED
    BY <1>1, <1>2, <1>3, <2>2, FailingCounted DEF CountInv
<1>4. CASE errors' = errors - 1
  <2>1. Failing' \subseteq Failing \cup {s}
    BY OthersKeep DEF Failing, OthersUnchanged
  <2>2. /\ IsFiniteSet(Failing \cup {s})
        /\ Cardinality(Failing \cup {s}) <= Cardinality(Failing) + 1
        /\ Cardinality(Failing \cup {s}) \in Nat
    <3>1. /\ IsFiniteSet(Failing \cup {s})
          /\ Cardinality(Failing \cup {s}) =
                 IF s \in Failing THEN Cardinality(Failing)
                 ELSE Cardinality(Failing) + 1
      BY FailingCounted, FS_AddElement
    <3> QED
      BY <3>1, FailingCounted
  <2>3. Cardinality(Failing') <= Cardinality(Failing \cup {s})
        /\ Cardinality(Failing') \in Nat
    BY <2>1, <2>2, FS_Subset, FS_CardinalityType
  <2> QED
    BY <1>1, <1>2, <1>4, <2>2, <2>3, FailingCounted DEF CountInv
<1> QED
  BY <1>3, <1>4

\* A step taken while nobody holds the loop, of a sample that does not take it.
LEMMA NotDispatching ==
    ASSUME OneLoop, AsyncType, DispatchInv, NEW s \in Samples, LoopFree(s),
           UNCHANGED <<loop, shardIdx>>,
           \A r \in Samples : stage'[r] = stage[r] \/ ~Dispatching(r)'
    PROVE  DispatchInv'
<1>1. \A r \in Samples : ~Dispatching(r) /\ loop[ThreadOf[r]] = 0
  BY DEF OneLoop, DispatchInv, LoopFree, Samples
<1>2. \A r \in Samples : ~Dispatching(r)'
  BY <1>1 DEF Dispatching
<1>3. shardIdx # NumEngines
  BY <1>1 DEF DispatchInv, Dispatching
<1>4. \A r \in Samples : loop'[ThreadOf[r]] # r
  BY <1>1 DEF Samples
<1> QED
  BY <1>2, <1>3, <1>4 DEF DispatchInv, Dispatching

-----------------------------------------------------------------------------
\* Asking an engine.

LEMMA DispatchKeeps ==
    ASSUME OneLoop, AsyncInv, NEW s \in Samples, Dispatch(s)
    PROVE  AsyncInv'
<1> USE DEF AsyncInv
<1>t. /\ ThreadOf[s] \in Threads /\ NumEngines \in Nat \ {0} /\ s # 0
      /\ \A r \in Samples : ThreadOf[r] = ThreadOf[s]
      /\ stage[s] \in Stages
  BY ThreadsOfSamples, RolloutsAssumption DEF OneLoop, Samples, AsyncType
\* No other coroutine is at its dispatch.
<1>o. Dispatching(s) => \A r \in Samples \ {s} : ~Dispatching(r)
  BY <1>t DEF DispatchInv
<1>1. CASE Ask(s)
  <2>1. /\ stage[s] = "ask" /\ LoopFree(s)
        /\ UNCHANGED <<length, errors, shardIdx, queue, got, finished>>
    BY <1>1 DEF Ask, sampleVars, requestVars
  <2>2. \A r \in Samples : ~Dispatching(r)
    BY <1>t, <2>1 DEF DispatchInv, LoopFree, Samples
  <2>3. shardIdx < NumEngines
    BY <1>t, <2>2 DEF DispatchInv, Dispatching, AsyncType
  <2>4. /\ loop' = [loop EXCEPT ![ThreadOf[s]] = s]
        /\ stage' = [stage EXCEPT ![s] = "asked"]
    BY <1>1, <2>3 DEF Ask, Becomes
  <2>5. AsyncType'
    BY <1>t, <2>1, <2>4 DEF AsyncType, Stages, Samples
  <2>6. /\ stage'[s] = "asked" /\ loop'[ThreadOf[s]] = s
        /\ \A r \in Samples \ {s} : stage'[r] = stage[r]
    BY <1>t, <2>4 DEF AsyncType
  <2>7. DispatchInv'
    BY <1>t, <2>1, <2>2, <2>3, <2>6 DEF DispatchInv, Dispatching
  <2>8. QueueInv(s)' /\ ~Fails(s)'
    BY <2>6 DEF QueueInv, Fails
  <2>9. OthersUnchanged(s)
    BY <2>1, <2>6 DEF OthersUnchanged
  <2> QED
    BY <2>1, <2>5, <2>7, <2>8, <2>9, OneSample
<1>2. CASE Increment(s)
  <2>1. /\ stage[s] = "asked" /\ shardIdx' = shardIdx + 1
        /\ stage' = [stage EXCEPT ![s] = "counted"]
        /\ UNCHANGED <<length, errors, loop, queue, got, finished>>
    BY <1>2 DEF Increment, Becomes, sampleVars, requestVars
  <2>2. shardIdx < NumEngines /\ Dispatching(s) /\ shardIdx \in Nat
    BY <1>t, <2>1 DEF DispatchInv, Dispatching, AsyncType
  <2>3. AsyncType'
    BY <1>t, <2>1, <2>2 DEF AsyncType, Stages
  <2>4. stage'[s] = "counted" /\ \A r \in Samples \ {s} : stage'[r] = stage[r]
    BY <2>1 DEF AsyncType
  <2>5. DispatchInv'
    BY <1>t, <1>o, <2>1, <2>2, <2>4 DEF DispatchInv, Dispatching
  <2>6. QueueInv(s)' /\ ~Fails(s)'
    BY <2>4 DEF QueueInv, Fails
  <2>7. OthersUnchanged(s)
    BY <2>1, <2>4 DEF OthersUnchanged
  <2> QED
    BY <2>1, <2>3, <2>5, <2>6, <2>7, OneSample
<1>3. CASE WrapAndWait(s)
  <2>1. /\ stage[s] = "counted" /\ shardIdx' = shardIdx % NumEngines
        /\ stage' = [stage EXCEPT ![s] = "wait"]
        /\ loop' = [loop EXCEPT ![ThreadOf[s]] = 0]
        /\ queue' = [queue EXCEPT ![s] = <<>>]
        /\ got' = [got EXCEPT ![s] = Nothing]
        /\ finished' = [finished EXCEPT ![s] = FALSE]
        /\ UNCHANGED <<length, errors>>
    BY <1>3 DEF WrapAndWait, Wrap, Becomes, sampleVars
  <2>2. shardIdx' \in 0..NumEngines - 1
    BY <1>t, <2>1 DEF AsyncType
  <2>3. AsyncType'
    <3>1. <<>> \in Seq(Messages) /\ Nothing \in Int
      BY EmptySeq DEF Nothing
    <3> QED
      BY <1>t, <2>1, <2>2, <3>1 DEF AsyncType, Stages
  <2>4. /\ stage'[s] = "wait" /\ queue'[s] = <<>> /\ got'[s] = Nothing
        /\ finished'[s] = FALSE /\ loop'[ThreadOf[s]] = 0
    BY <1>t, <2>1 DEF AsyncType
  <2>5. \A r \in Samples \ {s} :
            /\ stage'[r] = stage[r] /\ queue'[r] = queue[r]
            /\ got'[r] = got[r] /\ finished'[r] = finished[r]
    BY <2>1 DEF AsyncType
  <2>6. DispatchInv'
    <3>1. \A r \in Samples : ~Dispatching(r)'
      BY <1>o, <2>1, <2>4, <2>5 DEF Dispatching
    <3>2. \A r \in Samples : loop'[ThreadOf[r]] # r
      BY <1>t, <2>4 DEF Samples
    <3> QED
      BY <1>t, <2>2, <3>1, <3>2 DEF DispatchInv, Dispatching
  <2>7. QueueInv(s)' /\ ~Fails(s)'
    BY <2>4 DEF QueueInv, Fails, Errored
  <2>8. OthersUnchanged(s)
    BY <2>1, <2>5 DEF OthersUnchanged
  <2> QED
    BY <2>1, <2>3, <2>6, <2>7, <2>8, OneSample
<1> QED
  BY <1>1, <1>2, <1>3 DEF Dispatch

-----------------------------------------------------------------------------
\* The consumer's side of the queue.

LEMMA WorkerKeeps ==
    ASSUME OneLoop, AsyncInv, NEW s \in Samples,
           WorkerYields(s) \/ WorkerEnds(s) \/ WorkerRaises(s)
    PROVE  AsyncInv'
<1> USE DEF AsyncInv
<1>1. /\ stage[s] = "wait" /\ finished[s] = FALSE /\ LoopFree(s)
      /\ UNCHANGED <<stage, length, loop, shardIdx, got>>
  BY DEF WorkerYields, WorkerEnds, WorkerRaises, Consuming, sampleVars, AsyncType
<1>2. /\ queue[s] \in Seq(Messages) /\ length[s] \in 0..MaxSeqLen
      /\ got[s] = Nothing \/ got[s] \in Room(s)
      /\ queue[s] = <<>> \/ \E n \in Room(s) : queue[s] = <<Output(n)>>
  BY <1>1 DEF AsyncType, QueueInv
<1>3. DispatchInv'
  BY <1>1, NotDispatching
<1>4. ASSUME NEW q \in Seq(Messages), NEW f \in BOOLEAN,
             queue' = [queue EXCEPT ![s] = q],
             finished' = [finished EXCEPT ![s] = f],
             errors' \in 0..MaxErrors,
             /\ ~f => \E n \in Room(s) : q = <<Output(n)>>
             /\ f => \/ \E n \in Room(s) : q = <<Output(n), Done>>
                     \/ q = <<Done>> /\ got[s] # Nothing
                     \/ q = <<Failure, Done>>
                     \/ \E n \in Room(s) : q = <<Output(n), Failure, Done>>,
             \/ errors' = errors - 1
             \/ /\ errors' = errors
                /\ q # <<Failure, Done>>
                /\ \A n : q # <<Output(n), Failure, Done>>
      PROVE  AsyncInv'
  <2>1. AsyncType'
    BY <1>1, <1>4 DEF AsyncType
  <2>2. /\ queue'[s] = q /\ finished'[s] = f
        /\ \A r \in Samples \ {s} :
               queue'[r] = queue[r] /\ finished'[r] = finished[r]
    BY <1>4 DEF AsyncType
  <2>3. OthersUnchanged(s)
    BY <1>1, <2>2 DEF OthersUnchanged
  <2>4. Room(s)' = Room(s)
    BY <1>1 DEF Room
  <2>5. QueueInv(s)'
    BY <1>1, <1>2, <1>4, <2>2, <2>4 DEF QueueInv, Errored, Nothing
  <2>6. errors' = errors => ~Fails(s)'
    <3>1. CASE errors' = errors - 1
      BY <3>1 DEF AsyncType
    <3>2. CASE /\ q # <<Failure, Done>>
               /\ \A n : q # <<Output(n), Failure, Done>>
      <4>1. stage'[s] # "failed"
        BY <1>1
      <4> QED
        BY <2>2, <3>2, <4>1 DEF Fails, Errored
    <3> QED
      BY <1>4, <3>1, <3>2
  <2>7. (\A r \in Samples : QueueInv(r)') /\ CountInv'
    BY <1>4, <2>1, <2>3, <2>5, <2>6, OneSample
  <2> QED
    BY <1>3, <2>1, <2>7
<1>5. CASE WorkerYields(s)
  <2>1. PICK n \in AnswersOf(s) : queue' = [queue EXCEPT ![s] = @ \o <<Output(n)>>]
    BY <1>5 DEF WorkerYields, Put, Output
  <2>2. n \in Room(s) /\ n \in Nat
    BY <1>2, AnswersFit DEF Room
  <2>3. queue[s] = <<>> /\ errors' = errors /\ finished' = finished
    BY <1>5 DEF WorkerYields
  <2>4. queue' = [queue EXCEPT ![s] = <<Output(n)>>]
    BY <2>1, <2>3, Joined
  <2>5. <<Output(n)>> \in Seq(Messages)
    BY <2>2, MessageKinds
  <2>6. finished' = [finished EXCEPT ![s] = FALSE]
    BY <1>1, <2>3 DEF AsyncType
  <2>7. /\ errors' \in 0..MaxErrors
        /\ <<Output(n)>> # <<Failure, Done>>
        /\ \A k : <<Output(n)>> # <<Output(k), Failure, Done>>
    <3>1. /\ Len(<<Output(n)>>) = 1 /\ Len(<<Failure, Done>>) = 2
          /\ \A k : Len(<<Output(k), Failure, Done>>) = 3
      OBVIOUS
    <3>2. errors' \in 0..MaxErrors
      BY <2>3 DEF AsyncType
    <3> QED
      BY <3>1, <3>2
  <2> QED
    BY <1>4, <2>2, <2>3, <2>4, <2>5, <2>6, <2>7
<1>6. CASE WorkerEnds(s)
  <2> DEFINE q == queue[s] \o <<Done>>
  <2>1. /\ queue' = [queue EXCEPT ![s] = q]
        /\ finished' = [finished EXCEPT ![s] = TRUE]
        /\ errors' = errors
        /\ queue[s] # <<>> \/ got[s] # Nothing
    BY <1>6 DEF WorkerEnds, Put, Done
  <2>2. /\ \/ \E n \in Room(s) : q = <<Output(n), Done>>
           \/ q = <<Done>> /\ got[s] # Nothing
        /\ q \in Seq(Messages)
    <3>1. CASE queue[s] = <<>>
      BY <2>1, <3>1, Joined, MessageKinds
    <3>2. CASE \E n \in Room(s) : queue[s] = <<Output(n)>>
      <4>1. PICK n \in Room(s) : queue[s] = <<Output(n)>>
        BY <3>2
      <4>2. q = <<Output(n), Done>>
        BY <4>1, Joined
      <4>3. Output(n) \in Messages /\ Failure \in Messages /\ Done \in Messages
        BY MessageKinds DEF Room
      <4>4. <<Output(n), Done>> \in Seq(Messages)
        BY <4>3
      <4> HIDE DEF q
      <4> QED
        BY <4>2, <4>4
    <3> QED
      BY <1>2, <3>1, <3>2
  <2>3. q # <<Failure, Done>> /\ \A n : q # <<Output(n), Failure, Done>>
    BY <2>2, QueuesDiffer
  <2>4. errors' \in 0..MaxErrors
    BY <2>1 DEF AsyncType
  <2> HIDE DEF q
  <2> QED
    BY <1>4, <2>1, <2>2, <2>3, <2>4
<1>7. CASE WorkerRaises(s)
  <2> DEFINE q == queue[s] \o <<Failure, Done>>
  <2>1. /\ queue' = [queue EXCEPT ![s] = q]
        /\ finished' = [finished EXCEPT ![s] = TRUE]
        /\ errors > 0 /\ errors' = errors - 1
    BY <1>7 DEF WorkerRaises, Put, Done, Failure
  <2>2. /\ \/ q = <<Failure, Done>>
           \/ \E n \in Room(s) : q = <<Output(n), Failure, Done>>
        /\ q \in Seq(Messages)
    <3>1. CASE queue[s] = <<>>
      BY <3>1, Joined, MessageKinds
    <3>2. CASE \E n \in Room(s) : queue[s] = <<Output(n)>>
      <4>1. PICK n \in Room(s) : queue[s] = <<Output(n)>>
        BY <3>2
      <4>2. q = <<Output(n), Failure, Done>>
        BY <4>1, Joined
      <4>3. Output(n) \in Messages /\ Failure \in Messages /\ Done \in Messages
        BY MessageKinds DEF Room
      <4>4. <<Output(n), Failure, Done>> \in Seq(Messages)
        BY <4>3
      <4> HIDE DEF q
      <4> QED
        BY <4>2, <4>4
    <3> QED
      BY <1>2, <3>1, <3>2
  <2>3. errors' \in 0..MaxErrors
    BY <2>1, RolloutsAssumption DEF AsyncType
  <2> HIDE DEF q
  <2> QED
    BY <1>4, <2>1, <2>2, <2>3
<1> QED
  BY <1>5, <1>6, <1>7

LEMMA TakeKeeps ==
    ASSUME OneLoop, AsyncInv, NEW s \in Samples, TakeMessage(s)
    PROVE  AsyncInv'
<1> USE DEF AsyncInv
<1>1. /\ stage[s] = "wait" /\ LoopFree(s) /\ queue[s] # <<>>
      /\ queue' = [queue EXCEPT ![s] = Tail(queue[s])]
      /\ got' = [got EXCEPT ![s] = IF Head(queue[s]).kind = "sample"
                                   THEN Head(queue[s]).tokens ELSE got[s]]
      /\ UNCHANGED <<errors, shardIdx, loop, finished>>
  BY DEF TakeMessage
<1>2. \/ Head(queue[s]).kind = "error" /\ Becomes(s, "failed") /\ UNCHANGED length
      \/ /\ Head(queue[s]).kind # "error" /\ finished[s]
         /\ LeaveQueue(s, got'[s])
      \/ /\ Head(queue[s]).kind # "error" /\ ~finished[s]
         /\ UNCHANGED <<stage, length>>
  BY DEF TakeMessage, sampleVars
<1>t. /\ queue[s] \in Seq(Messages) /\ length[s] \in 0..MaxSeqLen
      /\ finished[s] \in BOOLEAN /\ got[s] \in Int
      /\ stage \in [Samples -> Stages] /\ length \in [Samples -> 0..MaxSeqLen]
      /\ QueueInv(s)
  BY DEF AsyncType
\* Whatever the message is, it leaves the coroutine in one of three ways.
<1>3. ASSUME NEW g \in Int, NEW l \in 0..MaxSeqLen, NEW st \in Stages \ {"asked", "counted"},
             got' = [got EXCEPT ![s] = g],
             length' = [length EXCEPT ![s] = l],
             stage' = [stage EXCEPT ![s] = st],
             \/ st = "score"
             \/ st = "failed" /\ Fails(s)
             \/ /\ st = "wait" /\ ~finished[s] /\ Tail(queue[s]) = <<>>
                /\ l = length[s] /\ g \in Room(s)
      PROVE  AsyncInv'
  <2>1. Tail(queue[s]) \in Seq(Messages)
    BY <1>1, <1>t, HeadTailProperties
  <2>2. AsyncType'
    BY <1>1, <1>3, <2>1 DEF AsyncType
  <2>3. /\ queue'[s] = Tail(queue[s]) /\ got'[s] = g /\ length'[s] = l
        /\ stage'[s] = st /\ finished'[s] = finished[s]
    BY <1>1, <1>3 DEF AsyncType
  <2>4. OthersUnchanged(s)
    BY <1>1, <1>3 DEF OthersUnchanged, AsyncType
  <2>5. DispatchInv'
    <3>1. \A r \in Samples : stage'[r] = stage[r] \/ ~Dispatching(r)'
      BY <2>3, <2>4 DEF OthersUnchanged, Dispatching
    <3> QED
      BY <1>1, <3>1, NotDispatching
  <2>6. QueueInv(s)'
    BY <1>3, <2>3 DEF QueueInv, Room
  <2>7. Fails(s)' => Fails(s)
    BY <1>3, <2>3 DEF Fails, Errored
  <2>8. (\A r \in Samples : QueueInv(r)') /\ CountInv'
    BY <1>1, <2>2, <2>4, <2>6, <2>7, OneSample
  <2> QED
    BY <2>2, <2>5, <2>8
\* An output in hand lets the sample go on.
<1>4. ASSUME NEW n \in Room(s), got' = [got EXCEPT ![s] = n], LeaveQueue(s, got'[s])
      PROVE  AsyncInv'
  <2>1. n \in Nat /\ length[s] + n \in 0..MaxSeqLen
    BY <1>t, RolloutsAssumption DEF Room
  <2>2. got'[s] = n /\ n # Nothing
    BY <1>4, <2>1 DEF AsyncType, Nothing
  <2>3. /\ stage' = [stage EXCEPT ![s] = "score"]
        /\ length' = [length EXCEPT ![s] = length[s] + n]
    BY <1>4, <2>2 DEF LeaveQueue, Becomes
  <2> DEFINE l == length[s] + n
  <2>4. length' = [length EXCEPT ![s] = l] /\ l \in 0..MaxSeqLen
    BY <2>1, <2>3
  <2> HIDE DEF l
  <2>5. n \in Int /\ "score" \in Stages \ {"asked", "counted"}
    BY <2>1 DEF Stages
  <2> QED
    BY <1>3, <1>4, <2>3, <2>4, <2>5
<1>5. CASE ~finished[s]
  <2>1. PICK n \in Room(s) : queue[s] = <<Output(n)>>
    BY <1>1, <1>5, <1>t DEF QueueInv
  <2>2. /\ Head(queue[s]).kind = "sample" /\ Head(queue[s]).tokens = n
        /\ Tail(queue[s]) = <<>>
    BY <2>1, HeadsAndTails, MessageKinds
  <2>3. got' = [got EXCEPT ![s] = n] /\ UNCHANGED <<stage, length>>
    BY <1>1, <1>2, <1>5, <2>2
  <2>4. /\ length' = [length EXCEPT ![s] = length[s]]
        /\ stage' = [stage EXCEPT ![s] = "wait"]
    BY <1>1, <1>t, <2>3
  <2>5. n \in Int /\ "wait" \in Stages \ {"asked", "counted"}
    BY DEF Room, Stages
  <2> QED
    BY <1>3, <1>5, <1>t, <2>2, <2>3, <2>4, <2>5
<1>6. CASE finished[s]
  <2>1. CASE \E n \in Room(s) : \/ queue[s] = <<Output(n), Done>>
                                \/ queue[s] = <<Output(n), Failure, Done>>
    <3>1. PICK n \in Room(s) : \/ queue[s] = <<Output(n), Done>>
                               \/ queue[s] = <<Output(n), Failure, Done>>
      BY <2>1
    <3>2. Head(queue[s]) = Output(n)
      BY <3>1, HeadsAndTails
    <3>3. Head(queue[s]).kind = "sample" /\ Head(queue[s]).tokens = n
      BY <3>2, MessageKinds
    <3>4. got' = [got EXCEPT ![s] = n] /\ LeaveQueue(s, got'[s])
      BY <1>1, <1>2, <1>6, <3>3
    <3> QED
      BY <1>4, <3>4
  <2>2. CASE queue[s] = <<Done>> /\ got[s] # Nothing
    <3>1. Head(queue[s]).kind = "worker_done"
      BY <2>2, HeadsAndTails, MessageKinds
    <3>2. LeaveQueue(s, got'[s]) /\ got' = [got EXCEPT ![s] = got[s]]
      BY <1>1, <1>2, <1>6, <3>1
    <3>3. got[s] \in Room(s)
      BY <1>1, <1>t, <2>2 DEF QueueInv
    <3> QED
      BY <1>4, <3>2, <3>3
  <2>3. CASE queue[s] = <<Failure, Done>>
    <3>1. Head(queue[s]).kind = "error"
      BY <2>3, HeadsAndTails, MessageKinds
    <3>2. /\ stage' = [stage EXCEPT ![s] = "failed"]
          /\ length' = [length EXCEPT ![s] = length[s]]
          /\ got' = [got EXCEPT ![s] = got[s]]
      BY <1>1, <1>2, <1>t, <3>1 DEF Becomes
    <3>3. Fails(s) /\ "failed" \in Stages \ {"asked", "counted"}
      BY <1>1, <1>6, <2>3 DEF Fails, Errored, Stages
    <3> QED
      BY <1>3, <1>t, <3>2, <3>3
  <2> QED
    BY <1>1, <1>6, <1>t, <2>1, <2>2, <2>3 DEF QueueInv, Errored
<1> QED
  BY <1>5, <1>6

LEMMA TimeOutKeeps ==
    ASSUME OneLoop, AsyncInv, NEW s \in Samples, TimesOut(s)
    PROVE  AsyncInv'
<1> USE DEF AsyncInv
<1>1. /\ LoopFree(s) /\ errors > 0 /\ errors' = errors - 1
      /\ stage' = [stage EXCEPT ![s] = "failed"]
      /\ UNCHANGED <<length, shardIdx, loop, queue, got, finished>>
  BY DEF TimesOut, Becomes, sampleVars, frontVars, requestVars
<1>2. AsyncType'
  <2>1. errors' \in 0..MaxErrors
    BY <1>1, RolloutsAssumption DEF AsyncType
  <2> QED
    BY <1>1, <2>1 DEF AsyncType, Stages
<1>3. stage'[s] = "failed" /\ OthersUnchanged(s)
  BY <1>1 DEF AsyncType, OthersUnchanged
<1>4. DispatchInv'
  <2>1. \A r \in Samples : stage'[r] = stage[r] \/ ~Dispatching(r)'
    BY <1>3 DEF OthersUnchanged, Dispatching
  <2> QED
    BY <1>1, <2>1, NotDispatching
<1>5. QueueInv(s)'
  BY <1>3 DEF QueueInv
<1>6. (\A r \in Samples : QueueInv(r)') /\ CountInv'
  BY <1>1, <1>2, <1>3, <1>5, OneSample
<1> QED
  BY <1>2, <1>4, <1>6

LEMMA ScoreKeeps ==
    ASSUME OneLoop, AsyncInv, NEW s \in Samples, ScoreSample(s)
    PROVE  AsyncInv'
<1> USE DEF AsyncInv
<1>1. PICK tokens \in ObservationLengths, ending \in {{s}, {}} :
        Score(<<s>>, [r \in {s} |-> tokens], ending)
  BY DEF ScoreSample
<1>2. /\ LoopFree(s)
      /\ UNCHANGED <<errors, shardIdx, loop, queue, got, finished>>
  BY DEF ScoreSample, frontVars, requestVars
<1>3. ToSet(<<s>>) = {s}
  BY DEF ToSet
<1>4. /\ stage' = [r \in Samples |->
                     IF r \notin {s} THEN stage[r]
                     ELSE IF r \in ending \/ Len(answers[r]) = MaxTurns THEN "over"
                     ELSE "ask"]
      /\ length' = [r \in Samples |->
                      IF r \in {s} THEN Observed(r, [q \in {s} |-> tokens][r])
                      ELSE length[r]]
  BY <1>1, <1>3 DEF Score
<1>5. stage'[s] \in {"over", "ask"} /\ length'[s] = Observed(s, tokens)
  BY <1>4
<1>6. OthersUnchanged(s)
  BY <1>2, <1>4 DEF OthersUnchanged
<1>7. Observed(s, tokens) \in 0..MaxSeqLen
  <2>1. length[s] + tokens \in Nat /\ MaxSeqLen \in Nat
    BY RolloutsAssumption DEF AsyncType
  <2> DEFINE a == length[s] + tokens
  <2>2. a \in Int /\ MaxSeqLen \in Int
    BY <2>1
  <2> HIDE DEF a
  <2>3. Min({a, MaxSeqLen}) \in {a, MaxSeqLen} /\ Min({a, MaxSeqLen}) <= MaxSeqLen
    BY <2>2, LeastOfTwo, Zenon
  <2> QED
    BY <2>1, <2>3 DEF Observed, a
<1>8. AsyncType'
  <2>1. /\ stage' = [r \in Samples |-> stage'[r]] /\ length' = [r \in Samples |-> length'[r]]
    BY <1>4
  <2>2. \A r \in Samples : stage'[r] \in Stages /\ length'[r] \in 0..MaxSeqLen
    BY <1>5, <1>6, <1>7 DEF OthersUnchanged, AsyncType, Stages
  <2>3. stage' \in [Samples -> Stages] /\ length' \in [Samples -> 0..MaxSeqLen]
    BY <2>1, <2>2
  <2> QED
    BY <1>2, <2>3 DEF AsyncType
<1>9. DispatchInv'
  <2>1. \A r \in Samples : stage'[r] = stage[r] \/ ~Dispatching(r)'
    BY <1>5, <1>6 DEF OthersUnchanged, Dispatching
  <2> QED
    BY <1>2, <2>1, NotDispatching
<1>10. QueueInv(s)' /\ ~Fails(s)'
  BY <1>5 DEF QueueInv, Fails
<1>11. (\A r \in Samples : QueueInv(r)') /\ CountInv'
  BY <1>2, <1>6, <1>8, <1>10, OneSample
<1> QED
  BY <1>8, <1>9, <1>11

LEMMA RaiseKeeps ==
    ASSUME OneLoop, AsyncInv, NEW s \in Samples, EnvironmentRaises(s)
    PROVE  AsyncInv'
<1> USE DEF AsyncInv
<1>1. /\ LoopFree(s) /\ errors > 0 /\ errors' = errors - 1
      /\ stage' = [r \in Samples |-> "raised"]
      /\ UNCHANGED <<length, shardIdx, loop, queue, got, finished>>
  BY DEF EnvironmentRaises, sampleVars, frontVars, requestVars, OneLoop
<1>2. AsyncType'
  <2>1. errors' \in 0..MaxErrors
    BY <1>1, RolloutsAssumption DEF AsyncType
  <2> QED
    BY <1>1, <2>1 DEF AsyncType, Stages
<1>3. DispatchInv'
  <2>1. \A r \in Samples : ~Dispatching(r)'
    BY <1>1 DEF Dispatching
  <2> QED
    BY <1>1, <2>1, NotDispatching
<1>4. ASSUME NEW r \in Samples PROVE QueueInv(r)' /\ ~Fails(r)'
  BY <1>1 DEF QueueInv, Fails
<1>5. CountInv'
  <2>1. Failing' = {}
    BY <1>4 DEF Failing
  <2>2. Cardinality(Failing') = 0
    BY <2>1, FS_EmptySet
  <2>3. errors' \in 0..MaxErrors /\ MaxErrors \in Nat
    BY <1>2, RolloutsAssumption DEF AsyncType
  <2>4. \A e \in 0..MaxErrors : 0 <= MaxErrors - e
    BY <2>3
  <2> QED
    BY <2>2, <2>3, <2>4 DEF CountInv
<1> QED
  BY <1>2, <1>3, <1>4, <1>5

-----------------------------------------------------------------------------
\* All of it.

LEMMA RolloutsStart == RolloutsInit => RolloutsInv
<1> SUFFICES ASSUME RolloutsInit PROVE RolloutsInv
  OBVIOUS
<1>1. /\ asyncEngine \in BOOLEAN
      /\ stage = [s \in Samples |-> "ask"] /\ errors = MaxErrors /\ shardIdx = 0
      /\ loop = [t \in Threads |-> 0] /\ queue = [s \in Samples |-> <<>>]
      /\ got = [s \in Samples |-> Nothing] /\ finished = [s \in Samples |-> FALSE]
      /\ length \in PromptLengths
  BY DEF RolloutsInit
<1>2. MaxErrors \in Nat /\ NumEngines \in Nat \ {0} /\ MaxSeqLen \in Nat
  BY RolloutsAssumption
<1>3. BatchInv
  BY <1>1, <1>2 DEF BatchInv
<1>4. AsyncType
  <2>1. length \in [Samples -> 1..MaxSeqLen]
    BY <1>1, RolloutsAssumption
  <2>2. length \in [Samples -> 0..MaxSeqLen]
    BY <1>2, <2>1
  <2>3. <<>> \in Seq(Messages) /\ Nothing \in Int
    BY EmptySeq DEF Nothing
  <2> QED
    BY <1>1, <1>2, <2>2, <2>3 DEF AsyncType, Stages
<1>5. DispatchInv
  <2>1. \A s \in Samples : loop[ThreadOf[s]] # s
    BY <1>1, ThreadsOfSamples DEF Samples
  <2> QED
    BY <1>1, <1>2, <2>1 DEF DispatchInv, Dispatching
<1>6. \A s \in Samples : QueueInv(s) /\ ~Fails(s)
  BY <1>1 DEF QueueInv, Fails
<1>7. CountInv
  <2>1. Failing = {}
    BY <1>6 DEF Failing
  <2>2. Cardinality(Failing) = 0
    BY <2>1, FS_EmptySet
  <2> QED
    BY <1>1, <1>2, <2>2 DEF CountInv
<1> QED
  BY <1>1, <1>3, <1>4, <1>5, <1>6, <1>7 DEF RolloutsInv, AsyncInv

LEMMA BatchKeeps ==
    ASSUME ~asyncEngine, BatchInv, RolloutsNext
    PROVE  BatchInv'
<1> USE DEF BatchInv
<1>1. CASE GenerateBatch
  BY <1>1 DEF GenerateBatch
<1>2. CASE ScoreBatch
  <2>1. errors' = errors
    BY <1>2 DEF ScoreBatch
  <2>2. PICK tokens \in [Active -> ObservationLengths], ending \in SUBSET Active :
          Score(ActiveBatch, tokens, ending)
    BY <1>2 DEF ScoreBatch
  <2>3. stage' = [s \in Samples |->
                    IF s \notin ToSet(ActiveBatch) THEN stage[s]
                    ELSE IF s \in ending \/ Len(answers[s]) = MaxTurns THEN "over"
                    ELSE "ask"]
    BY <2>2 DEF Score
  <2> QED
    BY <2>1, <2>3
<1>3. CASE BatchRaises
  BY <1>3, RolloutsAssumption DEF BatchRaises
<1>4. ASSUME NEW s \in Samples, SampleStep(s) PROVE FALSE
  BY <1>4 DEF SampleStep, Dispatch, Receive, Ask, Increment, WrapAndWait,
      WorkerYields, WorkerEnds, WorkerRaises, Consuming, TakeMessage, TimesOut,
      ScoreSample, EnvironmentRaises
<1> QED
  BY <1>1, <1>2, <1>3, <1>4 DEF RolloutsNext, BatchStep

LEMMA RolloutsStep ==
    ASSUME OneLoop, RolloutsInv, [RolloutsNext]_rolloutVars
    PROVE  RolloutsInv'
<1>1. asyncEngine' = asyncEngine
  BY DEF RolloutsNext, BatchStep, GenerateBatch, ScoreBatch, BatchRaises,
      SampleStep, Dispatch, Receive, Ask, Increment, WrapAndWait,
      WorkerYields, WorkerEnds, WorkerRaises, TakeMessage, TimesOut,
      ScoreSample, EnvironmentRaises, rolloutVars
<1>2. CASE UNCHANGED rolloutVars
  <2>1. AsyncInv => AsyncInv'
    BY <1>2 DEF AsyncInv, AsyncType, DispatchInv, Dispatching, QueueInv, Errored,
        Room, CountInv, Failing, Fails, rolloutVars, sampleVars, frontVars,
        requestVars
  <2>2. BatchInv => BatchInv'
    BY <1>2 DEF BatchInv, rolloutVars
  <2> QED
    BY <1>1, <2>1, <2>2 DEF RolloutsInv
<1>3. CASE RolloutsNext /\ ~asyncEngine
  BY <1>1, <1>3, BatchKeeps DEF RolloutsInv
<1>4. CASE RolloutsNext /\ asyncEngine
  <2>1. PICK s \in Samples : SampleStep(s)
    BY <1>4 DEF RolloutsNext, BatchStep, GenerateBatch, ScoreBatch, BatchRaises
  <2>2. AsyncInv
    BY <1>4 DEF RolloutsInv
  <2>3. AsyncInv'
    BY <2>1, <2>2, DispatchKeeps, WorkerKeeps, TakeKeeps, TimeOutKeeps,
        ScoreKeeps, RaiseKeeps DEF SampleStep, Receive
  <2> QED
    BY <1>1, <1>4, <2>3 DEF RolloutsInv
<1> QED
  BY <1>2, <1>3, <1>4 DEF RolloutsInv

\* A sample's rollout fails only by an error or a time-out, however the
\* requests, the outputs and the ends of the consumers interleave in the event
\* loop (_async_generate_base, the loop over result_queue).
THEOREM FailuresAreErrors ==
    ASSUME OneLoop
    PROVE  RolloutsSpec => []FailsOnlyByErrors
<1>1. RolloutsInv => FailsOnlyByErrors
  <2> SUFFICES ASSUME RolloutsInv PROVE FailsOnlyByErrors
    OBVIOUS
  <2> DEFINE failed == {s \in Samples : stage[s] = "failed"}
  <2>1. CASE asyncEngine
    <3>1. AsyncInv
      BY <2>1 DEF RolloutsInv
    <3>2. failed \subseteq Failing
      BY DEF Failing, Fails
    <3>3. /\ Cardinality(failed) <= Cardinality(Failing)
          /\ Cardinality(failed) \in Nat
      BY <3>2, FailingCounted, FS_Subset, FS_CardinalityType
    <3> QED
      BY <3>1, <3>3, FailingCounted, RolloutsAssumption
      DEF FailsOnlyByErrors, AsyncInv, AsyncType, CountInv
  <2>2. CASE ~asyncEngine
    <3>1. BatchInv
      BY <2>2 DEF RolloutsInv
    <3>2. failed = {}
      BY <3>1 DEF BatchInv
    <3>3. Cardinality(failed) = 0
      BY <3>2, FS_EmptySet
    <3> QED
      BY <3>1, <3>3, RolloutsAssumption DEF FailsOnlyByErrors, BatchInv
  <2> QED
    BY <2>1, <2>2
<1>2. RolloutsInv /\ [RolloutsNext]_rolloutVars => RolloutsInv'
  BY RolloutsStep
<1> QED
  BY <1>1, <1>2, RolloutsStart, PTL DEF RolloutsSpec

-----------------------------------------------------------------------------
(* Rows that are dealt unevenly, and put together again.                    *)

LEMMA EmptySlice ==
  ASSUME NEW X, NEW s \in Seq(X), NEW a \in Int, NEW b \in Int, b < a
  PROVE  SubSeq(s, a, b) = <<>>
<1>1. \A i \in a .. b : s[i] \in X
  OBVIOUS
<1>2. SubSeq(s, a, b) \in Seq(X) /\ Len(SubSeq(s, a, b)) = 0
  BY <1>1, SubSeqProperties
<1> QED
  BY <1>2, EmptySeq

LEMMA WholeSlice ==
  ASSUME NEW X, NEW s \in Seq(X)
  PROVE  SubSeq(s, 1, Len(s)) = s
<1> DEFINE t == SubSeq(s, 0 + 1, Len(s))
<1>1. Len(s) \in Nat
  BY LenProperties
<1>2. /\ t \in Seq(X) /\ Len(t) = Len(s) - 0
      /\ \A i \in 1 .. Len(s) - 0 : t[i] = s[0 + i]
  BY <1>1, SliceIs
<1> HIDE DEF t
<1>3. Len(t) = Len(s) /\ \A i \in 1 .. Len(s) : t[i] = s[i]
  BY <1>1, <1>2
<1>4. t = s
  BY <1>1, <1>2, <1>3, SeqEqual
<1> QED
  BY <1>4 DEF t

\* Whatever the number of shards, their rows make up the batch, in its order.
LEMMA UnevenFlatten ==
  ASSUME NEW X, NEW rows \in Seq(X), NEW shards \in Nat \ {0}
  PROVE  FlattenSeq(UnevenShards(rows, shards)) = rows
<1> DEFINE n == Len(rows)
           size == (n + shards - 1) \div shards
           ss == UnevenShards(rows, shards)
           e == [i \in 0 .. shards |-> IF Area(size, i) <= n THEN Area(size, i) ELSE n]
<1>1. n \in Nat
  BY LenProperties
<1>2. size \in Nat /\ n <= Area(size, shards)
  <2>1. n + shards - 1 \in Nat
    BY <1>1
  <2>2. /\ size \in Int /\ (n + shards - 1) % shards \in 0 .. shards - 1
        /\ n + shards - 1 = shards * size + ((n + shards - 1) % shards)
    <3> DEFINE q == n + shards - 1
    <3>1. q \in Int /\ size = q \div shards
      BY <2>1
    <3> HIDE DEF q, size
    <3>2. size \in Int /\ q % shards \in 0 .. shards - 1 /\ q = shards * size + (q % shards)
      BY <3>1, DivMod
    <3> QED
      BY <3>2, Zenon DEF q
  <2>3. size \in Nat
    BY <2>1
  <2>4. shards * size = size * shards
    BY <2>3
  <2> HIDE DEF size
  <2>5. size * shards \in Nat
    BY <2>3
  <2>6. n <= size * shards
    <3> DEFINE p == size * shards
    <3>1. n + shards - 1 = p + ((n + shards - 1) % shards) /\ p \in Nat
      BY <2>2, <2>4, <2>5
    <3> HIDE DEF p
    <3>2. n <= p
      BY <1>1, <2>2, <3>1
    <3> QED
      BY <3>2 DEF p
  <2> QED
    BY <2>3, <2>6 DEF Area
<1>3. ss = [k \in 1 .. shards |-> Chunk(rows, k, size)]
  BY Zenon DEF UnevenShards
<1> HIDE DEF size, n
<1>4. \A i \in 0 .. shards : Area(size, i) \in Nat
  BY <1>2 DEF Area
<1>5. /\ e[0] = 0 /\ e[shards] = n
      /\ \A i \in 0 .. shards : e[i] \in 0 .. n
  <2>1. Area(size, 0) = 0
    BY <1>2 DEF Area
  <2>2. 0 \in 0 .. shards /\ shards \in 0 .. shards
    OBVIOUS
  <2>3. e[0] = 0
    BY <1>1, <2>1, <2>2
  <2>4. e[shards] = n
    BY <1>1, <1>2, <1>4, <2>2
  <2> QED
    BY <1>1, <1>4, <2>3, <2>4
<1>6. ASSUME NEW k \in 1 .. shards
      PROVE  /\ e[k - 1] <= e[k] /\ ss[k] = SubSeq(rows, e[k - 1] + 1, e[k])
             /\ ss[k] \in Seq(X)
  <2> DEFINE a == Area(size, k - 1)
             b == Area(size, k)
  <2>1. k - 1 \in 0 .. shards /\ k \in 0 .. shards
    OBVIOUS
  <2>2. a \in Nat /\ b \in Nat /\ a <= b
    BY <1>2, <1>4, <2>1, Times DEF Area
  <2>3. ss[k] = SubSeq(rows, a + 1, Min({b, n}))
    <3>1. ss[k] = Slice(rows, (k - 1) * size, k * size)
      BY <1>3, Zenon DEF Chunk
    <3>2. (k - 1) * size = a /\ k * size = b
      BY <1>2, <2>1 DEF Area
    <3> QED
      BY <3>1, <3>2, Zenon DEF Slice, n
  <2>4. /\ e[k - 1] = (IF a <= n THEN a ELSE n)
        /\ e[k] = (IF b <= n THEN b ELSE n)
    BY <2>1
  <2> HIDE DEF a, b, e
  <2>5. Min({b, n}) = IF b <= n THEN b ELSE n
    BY <1>1, <2>2, MinOfTwo
  <2>6. ss[k] = SubSeq(rows, a + 1, e[k])
    BY <2>3, <2>4, <2>5
  <2>7. e[k - 1] <= e[k] /\ e[k] \in 0 .. n
    BY <1>1, <2>2, <2>4
  <2>8. CASE a <= n
    <3>1. e[k - 1] = a
      BY <2>4, <2>8
    <3>2. e[k] <= Len(rows) /\ e[k] \in Nat
      BY <2>7 DEF n
    <3>3. SubSeq(rows, a + 1, e[k]) \in Seq(X)
      BY <2>2, <2>7, <3>1, <3>2, SliceIs
    <3> QED
      BY <2>6, <2>7, <3>1, <3>3
  <2>9. CASE a > n
    <3>1. e[k] = n /\ e[k - 1] = n
      BY <1>1, <2>2, <2>4, <2>9
    <3>2. SubSeq(rows, a + 1, n) = <<>> /\ SubSeq(rows, n + 1, n) = <<>>
      BY <1>1, <2>2, <2>9, EmptySlice
    <3>3. ss[k] = <<>> /\ SubSeq(rows, e[k - 1] + 1, e[k]) = <<>>
      BY <2>6, <3>1, <3>2
    <3> QED
      BY <2>7, <3>3, EmptySeq
  <2> QED
    BY <1>1, <2>2, <2>8, <2>9
<1> HIDE DEF e
<1>7. ss \in Seq(Seq(X)) /\ Len(ss) = shards
  <2>1. ss = [k \in 1 .. shards |-> ss[k]]
    BY <1>3
  <2> HIDE DEF ss
  <2>2. \A k \in 1 .. shards : ss[k] \in Seq(X)
    BY <1>6
  <2> QED
    BY <2>1, <2>2, SeqOfFunction
<1> HIDE DEF ss
<1>8. FlattenSeq(ss) = SubSeq(rows, 1, e[Len(ss)])
  BY <1>5, <1>6, <1>7, FlattenPieces DEF n
<1>9. FlattenSeq(ss) = rows
  BY <1>5, <1>7, <1>8, WholeSlice DEF n
<1> QED
  BY <1>9 DEF ss

-----------------------------------------------------------------------------
(* The active samples, in the order of the batch.                           *)

SmallerFirst(S) == {p \in S \X S : p[1] < p[2]}

\* A batch: some samples, none twice.
BatchOf(batch, S) == batch \in Seq(Samples) /\ Once(batch) /\ Contents(batch, S)

LEMMA RankedBy ==
  ASSUME NEW S, NEW R, NEW rank,
         \A a \in S : rank[a] \in Nat,
         \A a, b \in S : <<a, b>> \in R <=> rank[a] < rank[b],
         \A a, b \in S : rank[a] = rank[b] => a = b
  PROVE  IsTotalOrder(R, S)
<1>1. \A i \in S : <<i, i>> \notin R
  OBVIOUS
<1>2. \A i, j, k \in S : <<i, j>> \in R /\ <<j, k>> \in R => <<i, k>> \in R
  OBVIOUS
<1>3. \A i, j \in S : i = j \/ <<i, j>> \in R \/ <<j, i>> \in R
  <2> SUFFICES ASSUME NEW i \in S, NEW j \in S, i # j PROVE <<i, j>> \in R \/ <<j, i>> \in R
    OBVIOUS
  <2>1. rank[i] # rank[j] /\ rank[i] \in Nat /\ rank[j] \in Nat
    OBVIOUS
  <2>2. rank[i] < rank[j] \/ rank[j] < rank[i]
    BY <2>1
  <2> QED
    BY <2>2
<1> QED
  BY <1>1, <1>2, <1>3 DEF IsTotalOrder

LEMMA SmallestFirst ==
  ASSUME NEW S
  PROVE  Sorted(S, <) = SortedBy(SmallerFirst(S), S)
<1>1. ASSUME NEW i \in S
      PROVE  Cardinality({j \in S : j < i}) = Cardinality(Ahead(SmallerFirst(S), S, i))
  BY <1>1 DEF Ahead, SmallerFirst
<1>2. Sorted(S, <) = [n \in 1 .. Cardinality(S) |->
          CHOOSE i \in S : Cardinality({j \in S : j < i}) = n - 1]
  BY DEF Sorted
<1> QED
  BY <1>1, <1>2, Zenon DEF SortedBy

LEMMA ActiveBatchIs == BatchOf(ActiveBatch, Active)
<1>1. Active \in SUBSET Samples /\ Samples \in SUBSET Nat /\ IsFiniteSet(Samples)
  BY RolloutsAssumption, FS_Interval DEF Active, Samples
<1>2. IsFiniteSet(Active)
  BY <1>1, FS_Subset
<1>3. IsTotalOrder(SmallerFirst(Active), Active)
  <2>1. \A i \in Active : i \in Nat
    BY <1>1
  <2> QED
    BY <2>1 DEF IsTotalOrder, SmallerFirst
<1>6. ActiveBatch = SortedBy(SmallerFirst(Active), Active)
  BY SmallestFirst, Zenon DEF ActiveBatch
<1>7. InSortedOrder(SortedBy(SmallerFirst(Active), Active), SmallerFirst(Active), Active)
  BY <1>2, <1>3, SortedIs
<1>8. ActiveBatch \in Seq(Active) /\ Once(ActiveBatch) /\ Contents(ActiveBatch, Active)
  BY <1>6, <1>7, SortedOnce
<1>9. ActiveBatch \in Seq(Samples)
  BY <1>1, <1>8, SeqMonotonic
<1> QED
  BY <1>8, <1>9 DEF BatchOf

LEMMA RowOfIs ==
  ASSUME NEW batch, NEW S, BatchOf(batch, S), NEW s \in S
  PROVE  RowOf(batch, s) \in 1 .. Len(batch) /\ batch[RowOf(batch, s)] = s
<1>1. DOMAIN batch = 1 .. Len(batch)
  BY LenProperties DEF BatchOf
<1>2. \E i \in DOMAIN batch : batch[i] = s
  BY <1>1 DEF BatchOf, Contents, MemberOf
<1>3. RowOf(batch, s) \in DOMAIN batch /\ batch[RowOf(batch, s)] = s
  BY <1>2, Zenon DEF RowOf
<1> QED
  BY <1>1, <1>3

\* generate puts the outputs together in the order of the rows.
LEMMA GeneratedIs ==
  ASSUME NEW batch, NEW S, BatchOf(batch, S)
  PROVE  Generated(batch) = batch
  BY UnevenFlatten, RolloutsAssumption DEF Generated, BatchOf

-----------------------------------------------------------------------------
(* The tasks of a batch, and its rows by task.                              *)

FirstRow(task, name) == Min({i \in DOMAIN task : task[i] = name})

EarlierTask(task) ==
    {p \in ToSet(task) \X ToSet(task) : FirstRow(task, p[1]) < FirstRow(task, p[2])}

LEMMA FirstRowIs ==
  ASSUME NEW n \in Nat, NEW task, DOMAIN task = 1 .. n, NEW name \in ToSet(task)
  PROVE  FirstRow(task, name) \in Nat /\ task[FirstRow(task, name)] = name
<1> DEFINE P == {i \in DOMAIN task : task[i] = name}
<1>1. P \in SUBSET Nat
  OBVIOUS
<1>2. P # {}
  BY DEF ToSet
<1>3. \A i \in P : task[i] = name
  OBVIOUS
<1>4. FirstRow(task, name) = Min(P)
  BY Zenon DEF FirstRow
<1> HIDE DEF P
<1>5. Min(P) \in P
  BY <1>1, <1>2, MinIs
<1> QED
  BY <1>1, <1>3, <1>4, <1>5

TasksByRow(task) ==
    Sorted(ToSet(task), LAMBDA a, b : FirstRow(task, a) < FirstRow(task, b))

LEMMA TasksAre ==
  ASSUME NEW batch \in Seq(Samples), NEW task,
         task = [i \in DOMAIN batch |-> TaskOf[batch[i]]]
  PROVE  /\ Tasks(batch) \in Seq(ToSet(task)) /\ Once(Tasks(batch))
         /\ Contents(Tasks(batch), ToSet(task))
<1> DEFINE S == ToSet(task)
           R == EarlierTask(task)
           n == Len(batch)
<1>1. n \in Nat /\ DOMAIN task = 1 .. n
  BY LenProperties
<1>2. S = {task[i] : i \in DOMAIN task}
  BY Zenon DEF ToSet
<1>3. IsFiniteSet(S)
  <2> DEFINE f == [i \in 1 .. n |-> task[i]]
  <2>1. f \in Surjection(1 .. n, S)
    BY <1>1, <1>2 DEF Surjection
  <2>2. IsFiniteSet(1 .. n)
    BY <1>1, CountUpTo
  <2> HIDE DEF f
  <2> QED
    BY <2>1, <2>2, FS_Surjection
<1>4. \A a \in S : FirstRow(task, a) \in Nat /\ task[FirstRow(task, a)] = a
  BY <1>1, FirstRowIs
<1>5. IsTotalOrder(R, S)
  <2> HIDE DEF S
  <2>1. R = {p \in S \X S : FirstRow(task, p[1]) < FirstRow(task, p[2])}
    BY DEF EarlierTask, S
  <2> HIDE DEF R
  <2>2. \A a, b \in S : <<a, b>> \in R <=> FirstRow(task, a) < FirstRow(task, b)
    BY <2>1
  <2>3. \A a, b \in S : a # b => FirstRow(task, a) # FirstRow(task, b)
    BY <1>4
  <2> DEFINE first == [a \in S |-> FirstRow(task, a)]
  <2>4. \A a \in S : first[a] = FirstRow(task, a)
    OBVIOUS
  <2> HIDE DEF first
  <2>5. \A a \in S : first[a] \in Nat
    BY <1>4, <2>4
  <2>6. \A a, b \in S : <<a, b>> \in R <=> first[a] < first[b]
    BY <2>2, <2>4
  <2>7. \A a, b \in S : first[a] = first[b] => a = b
    BY <2>3, <2>4
  <2> QED
    BY <2>5, <2>6, <2>7, RankedBy
<1>6. Tasks(batch) = [k \in 1 .. Cardinality(S) |->
          CHOOSE a \in S : Cardinality({b \in S : FirstRow(task, b) < FirstRow(task, a)}) = k - 1]
  <2>1. Tasks(batch) = TasksByRow([i \in DOMAIN batch |-> TaskOf[batch[i]]])
    BY Zenon DEF Tasks, TasksByRow, Sorted, FirstRow
  <2>2. Tasks(batch) = TasksByRow(task)
    BY <2>1
  <2> QED
    BY <2>2, Zenon DEF TasksByRow, Sorted
<1>7. ASSUME NEW a \in S
      PROVE  Cardinality({b \in S : FirstRow(task, b) < FirstRow(task, a)})
                 = Cardinality(Ahead(R, S, a))
  BY <1>7 DEF Ahead, EarlierTask
<1>8. Tasks(batch) = SortedBy(R, S)
  <2> HIDE DEF R, S
  <2> QED
    BY <1>6, <1>7, Zenon DEF SortedBy
<1>9. InSortedOrder(SortedBy(R, S), R, S)
  <2> HIDE DEF R, S
  <2> QED
    BY <1>3, <1>5, SortedIs
<1> QED
  BY <1>8, <1>9, SortedOnce

\* Every row is in the group of its task, once.
LEMMA IndicesAre ==
  ASSUME NEW batch \in Seq(Samples), NEW n, n = Len(batch)
  PROVE  /\ IndicesByTask(batch) \in Seq(1 .. n) /\ Once(IndicesByTask(batch))
         /\ Contents(IndicesByTask(batch), 1 .. n) /\ Len(IndicesByTask(batch)) = n
         /\ n \in Nat
<1> DEFINE task == [i \in DOMAIN batch |-> TaskOf[batch[i]]]
           tasks == Tasks(batch)
           places(g) == {i \in DOMAIN batch : TaskOf[batch[i]] = tasks[g]}
           ss == [g \in DOMAIN tasks |-> Kept(Rows(batch), places(g))]
           X == 1 .. n
           order == IndicesByTask(batch)
<1>1. n \in Nat /\ DOMAIN batch = X
  BY LenProperties
<1>2. /\ tasks \in Seq(ToSet(task)) /\ Once(tasks)
      /\ Contents(tasks, ToSet(task))
  BY TasksAre, Zenon
<1>3. DOMAIN tasks = 1 .. Len(tasks) /\ Len(tasks) \in Nat
  BY <1>2, LenProperties
<1>4. \A i \in X : TaskOf[batch[i]] \in ToSet(task)
  <2>1. \A i \in DOMAIN task : task[i] \in ToSet(task)
    BY DEF ToSet
  <2> QED
    BY <1>1, <2>1
<1>5. order = FlattenSeq(ss)
  BY Zenon DEF IndicesByTask
<1> HIDE DEF task, tasks
<1>6. /\ Rows(batch) \in Seq(X) /\ Len(Rows(batch)) = n /\ Once(Rows(batch))
      /\ \A i \in X : Rows(batch)[i] = i
  <2>1. Rows(batch) = [i \in 1 .. n |-> i]
    BY <1>1 DEF Rows
  <2>2. Rows(batch) \in Seq(X) /\ Len(Rows(batch)) = n
    BY <1>1, <2>1
  <2> QED
    BY <2>1, <2>2 DEF Once
<1> HIDE DEF X
<1>7. ASSUME NEW g \in 1 .. Len(tasks)
      PROVE  /\ ss[g] \in Seq(X) /\ Once(ss[g])
             /\ \A x : MemberOf(ss[g], x) <=> x \in X /\ TaskOf[batch[x]] = tasks[g]
  <2>1. ss[g] = Kept(Rows(batch), places(g))
    BY <1>3
  <2> DEFINE P == places(g)
             kept == Kept(Rows(batch), P)
  <2>2. \A x : x \in P <=> x \in X /\ TaskOf[batch[x]] = tasks[g]
    BY <1>1
  <2> HIDE DEF P
  <2>3. /\ kept \in Seq(X) /\ Once(kept)
        /\ \A x : MemberOf(kept, x)
                     <=> \E p \in 1 .. Len(Rows(batch)) : p \in P /\ Rows(batch)[p] = x
    BY <1>6, KeptMembers
  <2>4. ss[g] = kept
    BY <2>1 DEF P
  <2> HIDE DEF kept, ss
  <2>5. \A x : MemberOf(kept, x) <=> x \in X /\ x \in P
    <3>1. 1 .. Len(Rows(batch)) = X
      BY <1>6 DEF X
    <3> QED
      BY <1>6, <2>3, <3>1
  <2> QED
    BY <2>2, <2>3, <2>4, <2>5
<1>8. ss \in Seq(Seq(X)) /\ Len(ss) = Len(tasks)
  <2>1. ss = [g \in 1 .. Len(tasks) |-> ss[g]]
    BY <1>3
  <2> HIDE DEF ss
  <2> QED
    BY <1>3, <1>7, <2>1, SeqOfFunction
<1> HIDE DEF ss
<1>9. Apart(ss)
  <2> SUFFICES ASSUME NEW g \in 1 .. Len(ss), NEW h \in 1 .. Len(ss), g # h,
                      NEW i \in 1 .. Len(ss[g]), NEW j \in 1 .. Len(ss[h]), ss[g][i] = ss[h][j]
               PROVE  FALSE
    BY DEF Apart
  <2>1. MemberOf(ss[g], ss[g][i]) /\ MemberOf(ss[h], ss[g][i])
    BY DEF MemberOf
  <2>2. tasks[g] = tasks[h]
    BY <1>7, <1>8, <2>1
  <2> QED
    BY <1>2, <1>8, <2>2 DEF Once
<1>a. \A g \in 1 .. Len(ss) : Once(ss[g])
  BY <1>7, <1>8
<1>10. /\ order \in Seq(X) /\ Once(order)
       /\ \A x : MemberOf(order, x) <=> \E g \in 1 .. Len(ss) : MemberOf(ss[g], x)
  BY <1>5, <1>8, <1>9, <1>a, FlattenMembers
<1> HIDE DEF order
<1>11. Contents(order, X)
  <2>1. ASSUME NEW x \in X PROVE \E g \in 1 .. Len(ss) : MemberOf(ss[g], x)
    <3>1. MemberOf(tasks, TaskOf[batch[x]])
      BY <1>2, <1>4 DEF Contents
    <3>2. PICK g \in 1 .. Len(tasks) : tasks[g] = TaskOf[batch[x]]
      BY <3>1 DEF MemberOf
    <3> QED
      BY <1>7, <1>8, <3>2
  <2>2. ASSUME NEW x, MemberOf(order, x) PROVE x \in X
    BY <1>7, <1>8, <1>10, <2>2
  <2> QED
    BY <1>10, <2>1, <2>2 DEF Contents
<1>12. IsFiniteSet(X) /\ Cardinality(X) = n
  BY <1>1, CountUpTo DEF X
<1>13. Len(order) = n
  BY <1>10, <1>11, <1>12, OnceCount
<1> QED
  BY <1>1, <1>10, <1>11, <1>13 DEF order, X

\* calculate_rewards returns the results at the rows they are for.
LEMMA ResultsAre ==
  ASSUME NEW batch, NEW S, BatchOf(batch, S), NEW s \in S
  PROVE  Results(batch)[RowOf(batch, s)] = ResultFor(s)
<1> DEFINE n == Len(batch)
           o == IndicesByTask(batch)
           p == Ascending(DOMAIN o, o)
           r == [i \in DOMAIN batch |-> ResultFor(batch[o[i]])]
<1>1. /\ o \in Seq(1 .. n) /\ Once(o) /\ Contents(o, 1 .. n) /\ Len(o) = n /\ n \in Nat
  BY IndicesAre DEF BatchOf
<1>2. DOMAIN batch = 1 .. n /\ DOMAIN o = 1 .. n
  BY <1>1, LenProperties DEF BatchOf
<1>3. Results(batch) = Reordered(r, o)
  BY Zenon DEF Results
<1>4. DOMAIN r = 1 .. n /\ \A i \in 1 .. n : r[i] = ResultFor(batch[o[i]])
  BY <1>2
<1>5. Reordered(r, o) = [i \in DOMAIN r |-> r[p[i]]]
  BY Zenon DEF Reordered
<1>6. Reordered(o, o) = [i \in DOMAIN o |-> o[p[i]]]
  BY Zenon DEF Reordered
<1> HIDE DEF o, r, n
<1>7. Reordered(o, o) = [i \in 1 .. n |-> i]
  BY <1>1, ReorderedIs
<1>8. InSortedOrder(p, Shorter(DOMAIN o, o), DOMAIN o)
  <2>1. \A i \in 1 .. n : o[i] \in 1 .. n
    BY <1>1, ElementOfSeq
  <2>2. DOMAIN o \in SUBSET Nat /\ IsFiniteSet(DOMAIN o) /\ Weighs(o, DOMAIN o)
    BY <1>1, <1>2, <2>1, CountUpTo DEF Weighs
  <2> QED
    BY <2>2, AscendingIs
<1>9. \A i \in 1 .. n : p[i] \in 1 .. n
  <2>1. IsFiniteSet(1 .. n) /\ Cardinality(1 .. n) = n
    BY <1>1, CountUpTo
  <2>2. p \in Seq(1 .. n) /\ Len(p) = n
    BY <1>2, <1>8, <2>1 DEF InSortedOrder
  <2> HIDE DEF p
  <2> QED
    BY <2>2, ElementOfSeq
<1> HIDE DEF p
<1> DEFINE i == RowOf(batch, s)
<1>10. i \in 1 .. n /\ batch[i] = s
  BY RowOfIs DEF n
<1> HIDE DEF i
<1>11. o[p[i]] = i
  BY <1>2, <1>6, <1>7, <1>10
<1>12. Results(batch)[i] = r[p[i]]
  BY <1>3, <1>4, <1>5, <1>10
<1>13. r[p[i]] = ResultFor(batch[o[p[i]]])
  BY <1>4, <1>9, <1>10
<1> QED
  BY <1>10, <1>11, <1>12, <1>13, Zenon DEF i

-----------------------------------------------------------------------------
(* A sample's rollout is an Episode: where it is, and what it has.          *)

Asking(s) == stage[s] \in {"ask", "asked", "counted", "wait"}

Turns == Seq(Samples \X Nat)

\* The tokens of every output in a queue may be added to the sample's.
Sent(s, q) ==
    \A i \in 1 .. Len(q) : q[i].kind = "sample" => q[i].tokens \in Room(s)

EpisodeInv(s) ==
    /\ stage[s] \in Stages
    /\ length[s] \in 1 .. MaxSeqLen
    /\ answers[s] \in Turns
    /\ queue[s] \in Seq(Messages)
    /\ Asking(s) => Len(answers[s]) < MaxTurns /\ info[s] = <<s, Len(answers[s])>>
    /\ stage[s] = "score" => /\ Len(answers[s]) \in 1 .. MaxTurns
                             /\ info[s] = <<s, Len(answers[s]) - 1>>
    /\ stage[s] = "wait" => /\ got[s] = Nothing \/ got[s] \in Room(s)
                            /\ Sent(s, queue[s])

OfSamples ==
    /\ DOMAIN stage = Samples /\ DOMAIN length = Samples /\ DOMAIN answers = Samples
    /\ DOMAIN queue = Samples /\ DOMAIN got = Samples

EpisodeStep(s) == [EpisodeOf(s)!Next]_(EpisodeOf(s)!vars)

\* A step is one of the sample's Episode, and leaves it as it has to be.
Follows(s) == EpisodeStep(s) /\ EpisodeInv(s)'

Untouched(s) ==
    /\ stage'[s] = stage[s] /\ length'[s] = length[s] /\ answers'[s] = answers[s]
    /\ earned'[s] = earned[s] /\ info'[s] = info[s]
    /\ queue'[s] = queue[s] /\ got'[s] = got[s]

LEMMA Begins ==
  ASSUME NEW s \in Samples, length[s] \in 1 .. MaxSeqLen, answers[s] = <<>>,
         earned[s] = <<>>, stage[s] = "ask"
  PROVE  EpisodeOf(s)!Init
  BY DEF EpisodeOf!Init, Ended

LEMMA Answers ==
  ASSUME NEW s \in Samples, Asking(s), Len(answers[s]) < MaxTurns,
         stage'[s] = "score", length'[s] \in length[s] .. MaxSeqLen,
         answers'[s] = Append(answers[s], <<s, Len(answers[s]) + 1>>),
         earned'[s] = earned[s]
  PROVE  EpisodeStep(s)
<1>1. stage[s] # "score" /\ ~Ended(s)
  BY DEF Asking, Ended
<1>2. EpisodeOf(s)!Answer
  BY <1>1 DEF EpisodeOf!Answer, EpisodeOf!Grows, Ended
<1> QED
  BY <1>2 DEF EpisodeStep, EpisodeOf!Next

LEMMA Earns ==
  ASSUME NEW s \in Samples, stage[s] = "score", stage'[s] \in {"ask", "over"},
         length'[s] \in length[s] .. MaxSeqLen, answers'[s] = answers[s],
         earned'[s] = Append(earned[s], <<s, Len(answers[s])>>),
         stage'[s] = "ask" => length'[s] < MaxSeqLen /\ Len(answers[s]) < MaxTurns
  PROVE  EpisodeStep(s)
<1>1. EpisodeOf(s)!Feedback
  BY DEF EpisodeOf!Feedback, EpisodeOf!Grows, Ended
<1> QED
  BY <1>1 DEF EpisodeStep, EpisodeOf!Next

LEMMA GivesUp ==
  ASSUME NEW s \in Samples, stage'[s] \in {"failed", "raised"},
         length'[s] = length[s], answers'[s] = answers[s], earned'[s] = earned[s]
  PROVE  EpisodeStep(s)
<1>1. CASE Ended(s)
  BY <1>1 DEF EpisodeStep, EpisodeOf!vars, Ended
<1>2. CASE ~Ended(s)
  <2>1. EpisodeOf(s)!GiveUp
    BY <1>2 DEF EpisodeOf!GiveUp, Ended
  <2> QED
    BY <2>1 DEF EpisodeStep, EpisodeOf!Next
<1> QED
  BY <1>1, <1>2

LEMMA Stays ==
  ASSUME NEW s \in Samples, (Asking(s) /\ Asking(s)') \/ stage'[s] = stage[s],
         length'[s] = length[s], answers'[s] = answers[s], earned'[s] = earned[s]
  PROVE  EpisodeStep(s)
  BY DEF EpisodeStep, EpisodeOf!vars, Ended, Asking

LEMMA RestFollows ==
  ASSUME NEW s \in Samples, EpisodeInv(s), Untouched(s)
  PROVE  Follows(s)
<1>1. EpisodeStep(s)
  BY Stays DEF Untouched
<1>2. EpisodeInv(s)'
  BY DEF EpisodeInv, Untouched, Asking, Sent, Room
<1> QED
  BY <1>1, <1>2 DEF Follows

\* What has failed or raised is no more asked of than to be of its type.
LEMMA FailedFollows ==
  ASSUME NEW s \in Samples, EpisodeInv(s), stage'[s] \in {"failed", "raised"},
         length'[s] = length[s], answers'[s] = answers[s], earned'[s] = earned[s],
         queue'[s] \in Seq(Messages)
  PROVE  Follows(s)
<1>1. EpisodeStep(s)
  BY GivesUp
<1>2. EpisodeInv(s)'
  BY DEF EpisodeInv, Asking, Stages
<1> QED
  BY <1>1, <1>2 DEF Follows

EpisodesInv == OfSamples /\ \A s \in Samples : EpisodeInv(s)

AllFollow == OfSamples' /\ \A s \in Samples : Follows(s)

LEMMA OneFollows ==
  ASSUME NEW s \in Samples, EpisodesInv, OfSamples', Follows(s),
         \A r \in Samples \ {s} : Untouched(r)
  PROVE  AllFollow
  BY RestFollows DEF EpisodesInv, AllFollow

-----------------------------------------------------------------------------
(* The asynchronous engine.                                                *)

LEMMA DispatchFollows ==
  ASSUME EpisodesInv, NEW s \in Samples, Dispatch(s)
  PROVE  AllFollow
<1>1. EpisodeInv(s) /\ UNCHANGED sampleVars
  BY DEF EpisodesInv, Dispatch, Ask, Increment, WrapAndWait
<1>2. ASSUME NEW to \in {"failed", "asked", "counted", "wait"},
             stage' = [stage EXCEPT ![s] = to], Asking(s),
             \/ to # "wait" /\ UNCHANGED <<queue, got>>
             \/ to = "wait" /\ queue' = [queue EXCEPT ![s] = <<>>]
                            /\ got' = [got EXCEPT ![s] = Nothing]
      PROVE  AllFollow
  <2>1. OfSamples' /\ stage'[s] = to /\ \A r \in Samples \ {s} : Untouched(r)
    BY <1>1, <1>2 DEF EpisodesInv, OfSamples, Untouched, sampleVars
  <2>2. <<>> \in Seq(Messages) /\ Len(<<>>) = 0
    BY EmptySeq
  <2>3. queue'[s] \in Seq(Messages)
    BY <1>1, <1>2, <2>2 DEF EpisodesInv, OfSamples, EpisodeInv
  <2>4. CASE to = "failed"
    <3>1. Follows(s)
      BY <1>1, <2>1, <2>3, <2>4, FailedFollows DEF sampleVars
    <3> QED
      BY <2>1, <3>1, OneFollows
  <2>5. CASE to # "failed"
    <3>1. Asking(s)'
      BY <2>1, <2>5 DEF Asking
    <3>2. EpisodeStep(s)
      BY <1>1, <1>2, <3>1, Stays DEF sampleVars
    <3>3. to = "wait" => got'[s] = Nothing /\ queue'[s] = <<>>
      BY <1>2 DEF EpisodesInv, OfSamples
    <3>4. to = "wait" => Sent(s, queue[s])'
      BY <2>2, <3>3 DEF Sent
    <3>5. EpisodeInv(s)'
      BY <1>1, <1>2, <2>1, <2>3, <2>5, <3>3, <3>4 DEF EpisodeInv, Stages, sampleVars
    <3> QED
      BY <2>1, <3>2, <3>5, OneFollows DEF Follows
  <2> QED
    BY <2>4, <2>5
<1>3. CASE Ask(s)
  <2>1. Asking(s) /\ UNCHANGED <<queue, got>>
    BY <1>3 DEF Ask, Asking, requestVars
  <2>2. \E to \in {"failed", "asked"} : stage' = [stage EXCEPT ![s] = to]
    BY <1>3 DEF Ask, Becomes
  <2> QED
    BY <1>2, <2>1, <2>2
<1>4. CASE Increment(s)
  <2>1. Asking(s) /\ UNCHANGED <<queue, got>> /\ stage' = [stage EXCEPT ![s] = "counted"]
    BY <1>4 DEF Increment, Asking, requestVars, Becomes
  <2> QED
    BY <1>2, <2>1
<1>5. CASE WrapAndWait(s)
  <2>1. /\ Asking(s) /\ stage' = [stage EXCEPT ![s] = "wait"]
        /\ queue' = [queue EXCEPT ![s] = <<>>] /\ got' = [got EXCEPT ![s] = Nothing]
    BY <1>5 DEF WrapAndWait, Asking, Becomes
  <2> QED
    BY <1>2, <2>1
<1> QED
  BY <1>3, <1>4, <1>5 DEF Dispatch

\* Messages are put at the end of a queue.
LEMMA SentMore ==
  ASSUME NEW s \in Samples, NEW q \in Seq(Messages), NEW ms \in Seq(Messages),
         Sent(s, q), Sent(s, ms)
  PROVE  q \o ms \in Seq(Messages) /\ Sent(s, q \o ms)
<1>1. /\ q \o ms \in Seq(Messages) /\ Len(q \o ms) = Len(q) + Len(ms)
      /\ \A i \in 1 .. Len(q) + Len(ms) :
             (q \o ms)[i] = IF i <= Len(q) THEN q[i] ELSE ms[i - Len(q)]
  BY ConcatProperties
<1>2. Len(q) \in Nat /\ Len(ms) \in Nat
  BY LenProperties
<1> DEFINE all == q \o ms
<1> HIDE DEF all
<1>3. ASSUME NEW i \in 1 .. Len(q) + Len(ms), all[i].kind = "sample"
      PROVE  all[i].tokens \in Room(s)
  <2>1. CASE i <= Len(q)
    <3>1. all[i] = q[i] /\ i \in 1 .. Len(q)
      BY <1>1, <1>2, <2>1 DEF all
    <3> QED
      BY <1>3, <3>1 DEF Sent
  <2>2. CASE ~(i <= Len(q))
    <3> DEFINE j == i - Len(q)
    <3>1. all[i] = ms[j] /\ j \in 1 .. Len(ms)
      BY <1>1, <1>2, <2>2 DEF all
    <3> HIDE DEF j
    <3> QED
      BY <1>3, <3>1 DEF Sent
  <2> QED
    BY <2>1, <2>2
<1> QED
  BY <1>1, <1>3 DEF Sent, all

LEMMA TailSent ==
  ASSUME NEW s \in Samples, NEW q \in Seq(Messages), q # <<>>, Sent(s, q)
  PROVE  /\ Tail(q) \in Seq(Messages) /\ Sent(s, Tail(q)) /\ Head(q) \in Messages
         /\ Head(q).kind = "sample" => Head(q).tokens \in Room(s)
<1>1. /\ Tail(q) \in Seq(Messages) /\ Len(Tail(q)) = Len(q) - 1
      /\ Head(q) = q[1] /\ Head(q) \in Messages /\ Len(q) \in Nat \ {0}
      /\ \A i \in 1 .. Len(q) - 1 : Tail(q)[i] = q[i + 1]
  BY HeadTailProperties, EmptySeq, LenProperties
<1> DEFINE t == Tail(q)
           n == Len(q)
<1>2. t \in Seq(Messages) /\ Len(t) = n - 1 /\ \A i \in 1 .. n - 1 : t[i] = q[i + 1]
  BY <1>1
<1>3. n \in Nat \ {0}
  BY <1>1
<1> HIDE DEF t, n
<1>4. \A i \in 1 .. n - 1 : i + 1 \in 1 .. n
  BY <1>3
<1>5. Sent(s, t)
  BY <1>2, <1>4 DEF Sent, n
<1>6. 1 \in 1 .. n
  BY <1>3
<1> QED
  BY <1>1, <1>2, <1>5, <1>6 DEF Sent, t, n

LEMMA MessagesSent ==
  /\ \A s \in Samples : Sent(s, <<>>) /\ Sent(s, <<Done>>) /\ Sent(s, <<Failure, Done>>)
  /\ \A s \in Samples : \A n \in Room(s) : Sent(s, <<Output(n)>>)
  /\ <<>> \in Seq(Messages) /\ <<Done>> \in Seq(Messages)
  /\ <<Failure, Done>> \in Seq(Messages)
  /\ \A s \in Samples : \A n \in Room(s) : <<Output(n)>> \in Seq(Messages)
<1>1. /\ Failure \in Messages /\ Done \in Messages
      /\ Failure.kind # "sample" /\ Done.kind # "sample"
      /\ \A n \in Nat : Output(n) \in Messages
      /\ \A n : Output(n).tokens = n
  BY MessageKinds
<1>2. ASSUME NEW m \in Messages, NEW k \in Messages
      PROVE  /\ <<>> \in Seq(Messages) /\ Len(<<>>) = 0
             /\ <<m>> \in Seq(Messages) /\ Len(<<m>>) = 1 /\ <<m>>[1] = m
             /\ <<m, k>> \in Seq(Messages) /\ Len(<<m, k>>) = 2
             /\ <<m, k>>[1] = m /\ <<m, k>>[2] = k
  OBVIOUS
<1>3. 1 .. 0 = {} /\ 1 .. 1 = {1} /\ 1 .. 2 = {1, 2}
  OBVIOUS
<1>4. ASSUME NEW s \in Samples
      PROVE  Sent(s, <<>>) /\ Sent(s, <<Done>>) /\ Sent(s, <<Failure, Done>>)
  BY <1>1, <1>2, <1>3 DEF Sent
<1>5. ASSUME NEW s \in Samples, NEW n \in Room(s)
      PROVE  Sent(s, <<Output(n)>>) /\ Output(n) \in Messages
  <2>1. Output(n) \in Messages /\ Output(n).tokens = n
    BY <1>1 DEF Room
  <2> QED
    BY <1>2, <1>3, <2>1 DEF Sent
<1> QED
  BY <1>1, <1>2, <1>4, <1>5

LEMMA PutFollows ==
  ASSUME EpisodesInv, NEW s \in Samples, stage[s] = "wait",
         UNCHANGED <<stage, sampleVars, got>>,
         NEW ms \in Seq(Messages), Sent(s, ms), Put(s, ms)
  PROVE  AllFollow
<1>1. EpisodeInv(s) /\ UNCHANGED <<stage, length, answers, earned, info, got>>
  BY DEF EpisodesInv, sampleVars
<1>2. /\ OfSamples' /\ queue'[s] = queue[s] \o ms
      /\ \A r \in Samples \ {s} : Untouched(r)
  BY <1>1 DEF EpisodesInv, OfSamples, Untouched, Put
<1>3. queue[s] \in Seq(Messages) /\ Sent(s, queue[s])
  BY <1>1 DEF EpisodeInv
<1>4. queue'[s] \in Seq(Messages) /\ Sent(s, queue'[s])
  BY <1>2, <1>3, SentMore
<1>5. Sent(s, queue[s])' /\ Room(s)' = Room(s)
  BY <1>1, <1>4 DEF Sent, Room
<1>6. EpisodeStep(s)
  BY <1>1, Stays
<1>7. EpisodeInv(s)'
  BY <1>1, <1>4, <1>5 DEF EpisodeInv, Asking
<1> QED
  BY <1>2, <1>6, <1>7, OneFollows DEF Follows

LEMMA WorkerFollows ==
  ASSUME EpisodesInv, NEW s \in Samples,
         WorkerYields(s) \/ WorkerEnds(s) \/ WorkerRaises(s)
  PROVE  AllFollow
<1>1. stage[s] = "wait" /\ UNCHANGED <<stage, sampleVars, got>>
  BY DEF WorkerYields, WorkerEnds, WorkerRaises, Consuming
<1>2. CASE WorkerYields(s)
  <2>1. PICK n \in AnswersOf(s) : Put(s, <<Output(n)>>)
    BY <1>2 DEF WorkerYields, Output
  <2>2. length[s] \in 0 .. MaxSeqLen
    BY RolloutsAssumption DEF EpisodesInv, EpisodeInv
  <2>3. n \in Room(s)
    BY <2>2, AnswersFit
  <2> QED
    BY <1>1, <2>1, <2>3, MessagesSent, PutFollows
<1>3. CASE WorkerEnds(s)
  <2>1. Put(s, <<Done>>)
    BY <1>3 DEF WorkerEnds, Done
  <2> QED
    BY <1>1, <2>1, MessagesSent, PutFollows
<1>4. CASE WorkerRaises(s)
  <2>1. Put(s, <<Failure, Done>>)
    BY <1>4 DEF WorkerRaises, Failure, Done
  <2> QED
    BY <1>1, <2>1, MessagesSent, PutFollows
<1> QED
  BY <1>2, <1>3, <1>4

\* An answer is of its sample, and fits into its messages.
LEMMA AnswerFollows ==
  ASSUME NEW s \in Samples, EpisodeInv(s), Asking(s), NEW n \in Room(s),
         stage'[s] = "score", length'[s] = length[s] + n,
         answers'[s] = Append(answers[s], <<s, Len(answers[s]) + 1>>),
         UNCHANGED <<earned, info>>, queue'[s] \in Seq(Messages)
  PROVE  Follows(s)
<1> DEFINE k == Len(answers[s])
           turn == <<s, k + 1>>
<1>1. /\ answers[s] \in Turns /\ k < MaxTurns /\ info[s] = <<s, k>>
      /\ length[s] \in 1 .. MaxSeqLen
  BY DEF EpisodeInv
<1>2. k \in Nat /\ turn \in Samples \X Nat
  BY <1>1, LenProperties DEF Turns
<1>3. answers'[s] \in Turns /\ Len(answers'[s]) = k + 1
  <2> HIDE DEF turn
  <2>1. answers'[s] = Append(answers[s], turn)
    BY DEF turn
  <2> QED
    BY <1>1, <1>2, <2>1, AppendProperties DEF Turns
<1>4. MaxSeqLen \in Nat /\ MaxTurns \in Nat
  BY RolloutsAssumption
<1>5. length'[s] \in length[s] .. MaxSeqLen /\ length'[s] \in 1 .. MaxSeqLen
  BY <1>1, <1>4 DEF Room
<1>6. EpisodeStep(s)
  BY <1>1, <1>5, Answers
<1>7. k + 1 \in 1 .. MaxTurns /\ k = (k + 1) - 1
  BY <1>1, <1>2, <1>4
<1>8. info'[s] = <<s, Len(answers'[s]) - 1>> /\ Len(answers'[s]) \in 1 .. MaxTurns
  <2> HIDE DEF k
  <2> QED
    BY <1>1, <1>3, <1>7
<1>9. EpisodeInv(s)'
  BY <1>3, <1>5, <1>8 DEF EpisodeInv, Asking, Stages
<1> QED
  BY <1>6, <1>9 DEF Follows

LEMMA TakeFollows ==
  ASSUME EpisodesInv, NEW s \in Samples, TakeMessage(s)
  PROVE  AllFollow
<1> DEFINE message == Head(queue[s])
           t == got'[s]
<1>1. /\ stage[s] = "wait" /\ queue[s] # <<>>
      /\ queue' = [queue EXCEPT ![s] = Tail(queue[s])]
      /\ got' = [got EXCEPT ![s] =
             IF message.kind = "sample" THEN message.tokens ELSE got[s]]
      /\ IF message.kind = "error" THEN Becomes(s, "failed") /\ UNCHANGED sampleVars
         ELSE IF finished[s] THEN LeaveQueue(s, t) ELSE UNCHANGED <<stage, sampleVars>>
  BY DEF TakeMessage
<1>2. EpisodeInv(s) /\ OfSamples /\ Asking(s)
  BY <1>1 DEF EpisodesInv, Asking
<1>3. /\ queue[s] \in Seq(Messages) /\ Sent(s, queue[s])
      /\ got[s] = Nothing \/ got[s] \in Room(s)
  BY <1>1, <1>2 DEF EpisodeInv
<1>4. /\ Tail(queue[s]) \in Seq(Messages) /\ Sent(s, Tail(queue[s]))
      /\ message.kind = "sample" => message.tokens \in Room(s)
  BY <1>1, <1>3, TailSent
<1>5. /\ DOMAIN queue' = Samples /\ DOMAIN got' = Samples
      /\ queue'[s] = Tail(queue[s])
      /\ \A r \in Samples \ {s} : queue'[r] = queue[r] /\ got'[r] = got[r]
      /\ t = IF message.kind = "sample" THEN message.tokens ELSE got[s]
  BY <1>1, <1>2 DEF OfSamples
<1>6. t = Nothing \/ t \in Room(s)
  BY <1>3, <1>4, <1>5
<1> HIDE DEF t, message
\* It goes on waiting.
<1>7. CASE UNCHANGED <<stage, sampleVars>>
  <2>1. UNCHANGED <<stage, length, answers, earned, info>>
    BY <1>7 DEF sampleVars
  <2>2. OfSamples' /\ \A r \in Samples \ {s} : Untouched(r)
    BY <1>2, <1>5, <2>1 DEF OfSamples, Untouched
  <2>3. EpisodeStep(s)
    BY <2>1, Stays
  <2>4. Room(s)' = Room(s) /\ Sent(s, queue[s])'
    BY <1>4, <1>5, <2>1 DEF Sent, Room
  <2>5. EpisodeInv(s)'
    BY <1>2, <1>4, <1>5, <1>6, <2>1, <2>4 DEF EpisodeInv, Asking, t
  <2> QED
    BY <2>2, <2>3, <2>5, OneFollows DEF Follows
\* It fails.
<1>8. CASE Becomes(s, "failed") /\ UNCHANGED sampleVars
  <2>1. UNCHANGED <<length, answers, earned, info>>
    BY <1>8 DEF sampleVars
  <2>2. /\ stage'[s] = "failed" /\ OfSamples'
        /\ \A r \in Samples \ {s} : Untouched(r)
    BY <1>2, <1>5, <1>8, <2>1 DEF OfSamples, Untouched, Becomes
  <2>3. Follows(s)
    BY <1>2, <1>4, <1>5, <2>1, <2>2, FailedFollows
  <2> QED
    BY <2>2, <2>3, OneFollows
\* It has its answer.
<1>9. CASE LeaveQueue(s, t) /\ t # Nothing
  <2>1. /\ stage' = [stage EXCEPT ![s] = "score"]
        /\ answers' = [answers EXCEPT ![s] = Append(answers[s], <<s, Len(answers[s]) + 1>>)]
        /\ length' = [length EXCEPT ![s] = length[s] + t]
        /\ UNCHANGED <<earned, info>>
    BY <1>9 DEF LeaveQueue, Becomes
  <2>2. /\ stage'[s] = "score" /\ length'[s] = length[s] + t
        /\ answers'[s] = Append(answers[s], <<s, Len(answers[s]) + 1>>)
        /\ OfSamples' /\ \A r \in Samples \ {s} : Untouched(r)
    BY <1>2, <1>5, <2>1 DEF OfSamples, Untouched
  <2>3. Follows(s)
    BY <1>2, <1>4, <1>5, <1>6, <1>9, <2>1, <2>2, AnswerFollows
  <2> QED
    BY <2>2, <2>3, OneFollows
<1> QED
  BY <1>1, <1>7, <1>8, <1>9 DEF LeaveQueue, t, message

LEMMA TimeOutFollows ==
  ASSUME EpisodesInv, NEW s \in Samples, TimesOut(s)
  PROVE  AllFollow
<1>1. /\ stage' = [stage EXCEPT ![s] = "failed"]
      /\ UNCHANGED <<length, answers, earned, info, queue, got>>
  BY DEF TimesOut, Becomes, sampleVars, frontVars, requestVars
<1>2. EpisodeInv(s) /\ OfSamples
  BY DEF EpisodesInv
<1>3. /\ stage'[s] = "failed" /\ OfSamples'
      /\ \A r \in Samples \ {s} : Untouched(r)
  BY <1>1, <1>2 DEF OfSamples, Untouched
<1>4. Follows(s)
  BY <1>1, <1>2, <1>3, FailedFollows DEF EpisodeInv
<1> QED
  BY <1>3, <1>4, OneFollows

\* An environment or an engine that raises.
LEMMA RaiseFollows ==
  ASSUME EpisodesInv, NEW fails \in SUBSET Samples,
         stage' = [r \in Samples |-> IF r \in fails THEN "raised" ELSE stage[r]],
         UNCHANGED <<sampleVars, queue, got>>
  PROVE  AllFollow
<1>1. OfSamples' /\ UNCHANGED <<length, answers, earned, info, queue, got>>
  BY DEF EpisodesInv, OfSamples, sampleVars
<1>2. ASSUME NEW r \in Samples PROVE Follows(r)
  <2>1. EpisodeInv(r)
    BY DEF EpisodesInv
  <2>2. CASE r \in fails
    <3>1. stage'[r] = "raised"
      BY <2>2
    <3> QED
      BY <1>1, <2>1, <3>1, FailedFollows DEF EpisodeInv
  <2>3. CASE r \notin fails
    <3>1. Untouched(r)
      BY <1>1, <2>3 DEF Untouched
    <3> QED
      BY <2>1, <3>1, RestFollows
  <2> QED
    BY <2>2, <2>3
<1> QED
  BY <1>1, <1>2 DEF AllFollow

-----------------------------------------------------------------------------
(* The environments, and the synchronous engine.                           *)

LEMMA ObservedFits ==
  ASSUME NEW s \in Samples, length[s] \in 1 .. MaxSeqLen, NEW n \in Nat
  PROVE  /\ Observed(s, n) \in length[s] .. MaxSeqLen
         /\ Observed(s, n) \in 1 .. MaxSeqLen
         /\ ~Overflows(s, n) => Observed(s, n) < MaxSeqLen
<1> DEFINE a == length[s] + n
<1>1. MaxSeqLen \in Nat /\ a \in Nat /\ length[s] <= a /\ length[s] \in Nat
  BY RolloutsAssumption
<1>2. Observed(s, n) = Min({a, MaxSeqLen}) /\ (Overflows(s, n) <=> a >= MaxSeqLen)
  BY DEF Observed, Overflows
<1> HIDE DEF a
<1>3. Min({a, MaxSeqLen}) = IF a <= MaxSeqLen THEN a ELSE MaxSeqLen
  BY <1>1, MinOfTwo
<1> QED
  BY <1>1, <1>2, <1>3

\* A result is the sample's own, for its last answer.
LEMMA ScoreFollows ==
  ASSUME EpisodesInv, NEW batch, NEW S \in SUBSET Samples, BatchOf(batch, S),
         \A s \in S : stage[s] = "score",
         NEW tokens, \A s \in S : tokens[s] \in Nat,
         NEW ending, \A s \in S : Overflows(s, tokens[s]) => s \in ending,
         Score(batch, tokens, ending), UNCHANGED <<answers, queue, got>>
  PROVE  AllFollow
<1>1. ToSet(batch) = S
  <2>1. DOMAIN batch = 1 .. Len(batch)
    BY LenProperties DEF BatchOf
  <2> QED
    BY <2>1 DEF ToSet, BatchOf, Contents, MemberOf
<1>2. /\ earned' = [s \in Samples |->
             IF s \in S THEN Append(earned[s], Results(batch)[RowOf(batch, s)])
             ELSE earned[s]]
      /\ length' = [s \in Samples |->
             IF s \in S THEN Observed(s, tokens[s]) ELSE length[s]]
      /\ stage' = [s \in Samples |->
             IF s \notin S THEN stage[s]
             ELSE IF s \in ending \/ Len(answers[s]) = MaxTurns THEN "over" ELSE "ask"]
      /\ info' = [s \in Samples |->
             IF s \in S \ ending THEN Results(batch)[RowOf(batch, s)] ELSE info[s]]
  BY <1>1 DEF Score
<1>3. OfSamples'
  BY <1>2 DEF EpisodesInv, OfSamples
<1>4. ASSUME NEW s \in S PROVE Follows(s)
  <2> DEFINE k == Len(answers[s])
             result == Results(batch)[RowOf(batch, s)]
  <2>1. /\ s \in Samples /\ EpisodeInv(s) /\ stage[s] = "score"
        /\ answers[s] \in Turns /\ length[s] \in 1 .. MaxSeqLen
        /\ k \in 1 .. MaxTurns /\ info[s] = <<s, k - 1>>
    BY DEF EpisodesInv, EpisodeInv
  <2>2. result = ResultFor(s)
    BY ResultsAre
  <2> HIDE DEF k, result
  <2>3. k \in Nat /\ k <= MaxTurns /\ (k - 1) + 1 = k /\ MaxTurns \in Nat
    BY <2>1, RolloutsAssumption
  <2>4. result = <<s, k>>
    BY <2>1, <2>2, <2>3 DEF ResultFor
  <2>5. /\ earned'[s] = Append(earned[s], <<s, k>>)
        /\ length'[s] = Observed(s, tokens[s]) /\ answers'[s] = answers[s]
        /\ stage'[s] = IF s \in ending \/ k = MaxTurns THEN "over" ELSE "ask"
        /\ s \notin ending => info'[s] = <<s, k>>
    BY <1>2, <2>1, <2>4 DEF k, result
  <2>6. /\ length'[s] \in length[s] .. MaxSeqLen /\ length'[s] \in 1 .. MaxSeqLen
        /\ s \notin ending => length'[s] < MaxSeqLen
    BY <2>1, <2>5, ObservedFits
  <2>7. /\ stage'[s] \in {"ask", "over"}
        /\ stage'[s] = "ask" => s \notin ending /\ k < MaxTurns
    BY <2>3, <2>5
  <2>8. EpisodeStep(s)
    BY <2>1, <2>5, <2>6, <2>7, Earns DEF k
  <2>9. Len(answers'[s]) = k
    BY <2>5 DEF k
  <2>10. EpisodeInv(s)'
    BY <2>1, <2>5, <2>6, <2>7, <2>9 DEF EpisodeInv, Asking, Stages
  <2> QED
    BY <2>8, <2>10 DEF Follows
<1>5. ASSUME NEW s \in Samples \ S PROVE Follows(s)
  <2>1. Untouched(s)
    BY <1>2 DEF Untouched
  <2> QED
    BY <2>1, RestFollows DEF EpisodesInv
<1> QED
  BY <1>3, <1>4, <1>5 DEF AllFollow

\* The engines' outputs are of the rows they are put together for.
LEMMA GenerateFollows ==
  ASSUME EpisodesInv, GenerateBatch
  PROVE  AllFollow
<1>1. PICK tokens \in [Active -> AnswerLengths \cup 0 .. MaxNewTokens] :
          /\ \A s \in Active : tokens[s] \in AnswersOf(s)
          /\ length' = [s \in Samples |->
                 IF s \in Active THEN length[s] + tokens[s] ELSE length[s]]
          /\ DOMAIN cut' = Samples
  BY DEF GenerateBatch
<1>2. /\ \A s \in Active : stage[s] = "ask"
      /\ answers' = [s \in Samples |->
             IF s \in Active
             THEN Append(answers[s],
                      <<Generated(ActiveBatch)[RowOf(ActiveBatch, s)],
                        Len(answers[Generated(ActiveBatch)[RowOf(ActiveBatch, s)]]) + 1>>)
             ELSE answers[s]]
      /\ stage' = [s \in Samples |-> IF s \in Active THEN "score" ELSE stage[s]]
      /\ UNCHANGED <<earned, info, queue, got>>
  BY DEF GenerateBatch, frontVars, requestVars
<1>3. OfSamples'
  BY <1>1, <1>2 DEF EpisodesInv, OfSamples
<1>4. ASSUME NEW s \in Active PROVE Follows(s)
  <2>1. s \in Samples /\ EpisodeInv(s) /\ Asking(s)
    BY <1>2 DEF Active, EpisodesInv, Asking
  <2>2. Generated(ActiveBatch)[RowOf(ActiveBatch, s)] = s
    BY ActiveBatchIs, GeneratedIs, RowOfIs
  <2>3. /\ stage'[s] = "score" /\ length'[s] = length[s] + tokens[s]
        /\ answers'[s] = Append(answers[s], <<s, Len(answers[s]) + 1>>)
    BY <1>1, <1>2, <2>1, <2>2
  <2>4. length[s] \in 0 .. MaxSeqLen /\ queue'[s] \in Seq(Messages)
    BY <1>2, <2>1, RolloutsAssumption DEF EpisodeInv
  <2>5. tokens[s] \in Room(s)
    BY <1>1, <2>1, <2>4, AnswersFit
  <2> QED
    BY <1>2, <2>1, <2>3, <2>4, <2>5, AnswerFollows
<1>5. ASSUME NEW s \in Samples \ Active PROVE Follows(s)
  <2>1. Untouched(s)
    BY <1>1, <1>2 DEF Untouched
  <2> QED
    BY <2>1, RestFollows DEF EpisodesInv
<1> QED
  BY <1>3, <1>4, <1>5 DEF AllFollow

LEMMA BatchFollows ==
  ASSUME EpisodesInv, BatchStep
  PROVE  AllFollow
<1>1. CASE GenerateBatch
  BY <1>1, GenerateFollows
<1>2. CASE ScoreBatch
  <2>1. PICK tokens \in [Active -> ObservationLengths], terminated \in SUBSET Active :
          Score(ActiveBatch, tokens,
                terminated \cup {s \in Active : Overflows(s, tokens[s])})
    BY <1>2 DEF ScoreBatch
  <2> DEFINE ending == terminated \cup {s \in Active : Overflows(s, tokens[s])}
  <2>2. /\ Active \in SUBSET Samples /\ \A s \in Active : stage[s] = "score"
        /\ UNCHANGED <<answers, queue, got>>
    BY <1>2 DEF ScoreBatch, Active, frontVars, requestVars
  <2>3. \A s \in Active : tokens[s] \in Nat
    BY <2>1, RolloutsAssumption
  <2>4. Score(ActiveBatch, tokens, ending) /\ \A s \in Active : Overflows(s, tokens[s]) => s \in ending
    BY <2>1
  <2> HIDE DEF ending
  <2> QED
    BY <2>2, <2>3, <2>4, ActiveBatchIs, ScoreFollows
<1>3. CASE BatchRaises
  <2>1. /\ stage' = [s \in Samples |-> "raised"]
        /\ UNCHANGED <<sampleVars, queue, got>>
    BY <1>3 DEF BatchRaises, frontVars, requestVars
  <2>2. stage' = [s \in Samples |-> IF s \in Samples THEN "raised" ELSE stage[s]]
    BY <2>1
  <2> QED
    BY <2>1, <2>2, RaiseFollows
<1> QED
  BY <1>1, <1>2, <1>3 DEF BatchStep

LEMMA SampleFollows ==
  ASSUME EpisodesInv, NEW s \in Samples, SampleStep(s)
  PROVE  AllFollow
<1>1. CASE ScoreSample(s)
  <2>1. PICK n \in ObservationLengths, terminated \in BOOLEAN :
          Score(<<s>>, [r \in {s} |-> n],
                IF terminated \/ cut[s] \/ Overflows(s, n) THEN {s} ELSE {})
    BY <1>1 DEF ScoreSample
  <2> DEFINE tokens == [r \in {s} |-> n]
             ending == IF terminated \/ cut[s] \/ Overflows(s, n) THEN {s} ELSE {}
  <2>2. /\ \A r \in {s} : tokens[r] \in Nat
        /\ \A r \in {s} : Overflows(r, tokens[r]) => r \in ending
    BY RolloutsAssumption
  <2>3. BatchOf(<<s>>, {s})
    BY DEF BatchOf, Once, Contents, MemberOf
  <2>4. {s} \in SUBSET Samples /\ \A r \in {s} : stage[r] = "score"
    BY <1>1 DEF ScoreSample
  <2>5. Score(<<s>>, tokens, ending) /\ UNCHANGED <<answers, queue, got>>
    BY <1>1, <2>1 DEF ScoreSample, frontVars, requestVars
  <2> HIDE DEF tokens, ending
  <2> QED
    BY <2>2, <2>3, <2>4, <2>5, ScoreFollows
<1>2. CASE EnvironmentRaises(s)
  <2> DEFINE fails == {r \in Samples : ThreadOf[r] = ThreadOf[s]}
  <2>1. /\ stage' = [r \in Samples |->
               IF ThreadOf[r] = ThreadOf[s] THEN "raised" ELSE stage[r]]
        /\ UNCHANGED <<sampleVars, queue, got>>
    BY <1>2 DEF EnvironmentRaises, frontVars, requestVars
  <2>2. stage' = [r \in Samples |-> IF r \in fails THEN "raised" ELSE stage[r]]
    BY <2>1
  <2>3. fails \in SUBSET Samples
    OBVIOUS
  <2> HIDE DEF fails
  <2> QED
    BY <2>1, <2>2, <2>3, RaiseFollows
<1> QED
  BY <1>1, <1>2, DispatchFollows, WorkerFollows, TakeFollows, TimeOutFollows
  DEF SampleStep, Receive

LEMMA EpisodesStart ==
  ASSUME RolloutsInit
  PROVE  EpisodesInv /\ \A s \in Samples : EpisodeOf(s)!Init
<1>1. /\ length \in [Samples -> 1 .. MaxSeqLen]
      /\ answers = [s \in Samples |-> <<>>] /\ earned = [s \in Samples |-> <<>>]
      /\ info = [s \in Samples |-> <<s, 0>>] /\ stage = [s \in Samples |-> "ask"]
      /\ queue = [s \in Samples |-> <<>>] /\ got = [s \in Samples |-> Nothing]
  BY RolloutsAssumption DEF RolloutsInit
<1>2. OfSamples
  BY <1>1 DEF OfSamples
<1>3. /\ <<>> \in Turns /\ Len(<<>>) = 0 /\ <<>> \in Seq(Messages)
      /\ MaxTurns \in Nat \ {0}
  BY EmptySeq, RolloutsAssumption DEF Turns
<1>4. ASSUME NEW s \in Samples PROVE EpisodeInv(s)
  BY <1>1, <1>3 DEF EpisodeInv, Stages
<1>5. ASSUME NEW s \in Samples PROVE EpisodeOf(s)!Init
  BY <1>1, Begins
<1> QED
  BY <1>2, <1>4, <1>5 DEF EpisodesInv

LEMMA EpisodesGoOn ==
  ASSUME EpisodesInv, [RolloutsNext]_rolloutVars
  PROVE  EpisodesInv' /\ \A s \in Samples : EpisodeStep(s)
<1>1. AllFollow
  <2>1. CASE UNCHANGED rolloutVars
    <3>1. OfSamples' /\ \A s \in Samples : Untouched(s)
      BY <2>1 DEF EpisodesInv, OfSamples, Untouched, rolloutVars, sampleVars,
          frontVars, requestVars
    <3> QED
      BY <3>1, RestFollows DEF EpisodesInv, AllFollow
  <2> QED
    BY <2>1, BatchFollows, SampleFollows DEF RolloutsNext
<1> QED
  BY <1>1 DEF AllFollow, Follows, EpisodesInv

\* Whichever way the samples are rolled out, on however many engines, loops
\* and environments, each goes through an Episode of its own: its answers and
\* rewards are its own, one for the other, and its messages never exceed the
\* maximum length (run_multi_turn_rollout, run_async_multi_turn_rollout).
THEOREM SamplesHaveEpisodes == RolloutsSpec => FollowsEpisodes
<1>1. RolloutsInit => EpisodesInv /\ \A s \in Samples : EpisodeOf(s)!Init
  BY EpisodesStart
<1>2. EpisodesInv /\ [RolloutsNext]_rolloutVars => EpisodesInv'
  BY EpisodesGoOn
<1>3. EpisodesInv /\ [RolloutsNext]_rolloutVars
          => [\A s \in Samples : [EpisodeOf(s)!Next]_(EpisodeOf(s)!vars)]_rolloutVars
  BY EpisodesGoOn DEF EpisodeStep
<1> QED
  BY <1>1, <1>2, <1>3, PTL DEF RolloutsSpec, FollowsEpisodes
=============================================================================
