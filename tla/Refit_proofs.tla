---------------------------- MODULE Refit_proofs ----------------------------
(***************************************************************************)
(* What a refit does, for any model, alignment, packet size, free memory,  *)
(* number of GPUs and of ranks, and any number of errors and time-outs:    *)
(*                                                                         *)
(*  - streaming over ZMQ IPC writes no buffer while the engine reads it,   *)
(*    overfills none and uses no socket out of turn (StreamsSafely);       *)
(*  - in the packed broadcast the members that meet mean the same packet,  *)
(*    and none holds more packets than it has buffers (BroadcastsSafely);  *)
(*  - a refit that reports success has replaced every weight, once, in     *)
(*    every engine: it implements WeightTransfer (RefitCarriesOut).        *)
(*                                                                         *)
(* Streaming first.  What makes it safe is the order of three things on    *)
(* each rank: the group being packed lies in the buffer that the last      *)
(* message does not name; a message or a group being loaded means that an  *)
(* answer is still owed (awaitRecv); and nothing is sent before that       *)
(* answer has come.                                                        *)
(***************************************************************************)
EXTENDS Refit, SequenceTheorems, FiniteSetTheorems, WellFoundedInduction,
        TLAPS

GroupMessages ==
    [kind : {"group"}, buffer : {1, 2}, names : Seq(Nat), used : Nat]

Messages == {None, Complete, Answer} \cup GroupMessages

SenderStates ==
    [pc : {"pack", "last", "returned", "raised", "protocol error"},
     next : Nat \ {0}, used : Nat, names : Seq(Nat), buffer : {1, 2},
     awaitRecv : BOOLEAN]

ReceiverStates ==
    [pc : {"receive", "load", "answer", "process", "finish", "returned",
           "failed"},
     payload : Messages]

StreamType ==
    /\ tensors \in Seq(Nat \ {0})
    /\ bufferSize \in Nat
    /\ sender \in [Ranks -> SenderStates]
    /\ memory \in [Ranks -> [{1, 2} -> Seq(Nat)]]
    /\ socket \in [Ranks -> Messages]
    /\ receiver \in [Ranks -> ReceiverStates]

\* The group being packed is what its buffer holds, and fits it.
PackInv(r) ==
    LET s == sender[r]
    IN  /\ s.used = 0 <=> s.names = <<>>
        /\ s.names # <<>> => memory[r][s.buffer] = s.names
        /\ s.used <= Half

\* A group that was announced lies untouched in the other buffer.
Untouched(r, m) ==
    m.kind = "group" =>
        /\ m.buffer # sender[r].buffer
        /\ memory[r][m.buffer] = m.names

\* Whatever is under way is owed an answer.
TurnInv(r) ==
    /\ sender[r].pc # "protocol error"
    /\ socket[r] # None => sender[r].awaitRecv
    /\ receiver[r].pc \in {"load", "answer", "process"}
           => sender[r].awaitRecv /\ socket[r] = None
    /\ receiver[r].pc = "load" => receiver[r].payload.kind = "group"

RankInv(r) ==
    /\ PackInv(r)
    /\ Untouched(r, socket[r])
    /\ receiver[r].pc = "load" => Untouched(r, receiver[r].payload)
    /\ TurnInv(r)

StreamInv == StreamType /\ \A r \in Ranks : RankInv(r)

-----------------------------------------------------------------------------

LEMMA DivPositive ==
    ASSUME NEW m \in Nat, NEW a \in Nat \ {0}, m >= a
    PROVE  m \div a \in Nat \ {0}
  OBVIOUS

\* A tensor takes room in a buffer.
LEMMA AlignedPositive ==
    ASSUME NEW n \in Nat \ {0}
    PROVE  Aligned(n) \in Nat \ {0}
<1> DEFINE d == (n + Align - 1) \div Align
<1>1. Align \in Nat \ {0}
  BY StreamingAssumption
<1>2. d \in Nat \ {0}
  <2>1. n + Align - 1 \in Nat /\ n + Align - 1 >= Align
    BY <1>1
  <2> QED
    BY <1>1, <2>1, DivPositive
<1> HIDE DEF d
<1>3. d * Align \in Nat \ {0}
  BY <1>1, <1>2
<1> QED
  BY <1>3 DEF Aligned, d

LEMMA KindsDiffer ==
    /\ None \in Messages /\ Complete \in Messages /\ Answer \in Messages
    /\ \A g \in GroupMessages :
           g.kind = "group" /\ g # None /\ g # Complete /\ g # Answer
    /\ \A m \in Messages : m.kind = "group" => m \in GroupMessages
    /\ None.kind = "none" /\ Complete.kind = "complete" /\ Answer.kind = "ACK"
  BY DEF Messages, GroupMessages, None, Complete, Answer

LEMMA StreamInit == RefitInit => StreamInv
<1> SUFFICES ASSUME RefitInit PROVE StreamInv
  OBVIOUS
<1> USE DEF RefitInit, IPCInit, WeightsInit
<1>1. StreamType
  BY WeightsAssumption, StreamingAssumption, KindsDiffer
  DEF StreamType, SenderStates, ReceiverStates
<1>2. ASSUME NEW r \in Ranks PROVE RankInv(r)
  <2>1. 0 <= Half
    BY StreamingAssumption DEF Half
  <2> QED
    BY <2>1, KindsDiffer DEF RankInv, PackInv, Untouched, TurnInv
<1> QED
  BY <1>1, <1>2 DEF StreamInv

\* The ranks do not touch each other's buffers and sockets.
LEMMA OtherRanks ==
    ASSUME NEW r \in Ranks, NEW q \in Ranks, RankInv(q),
           bufferSize' = bufferSize,
           sender'[q] = sender[q], memory'[q] = memory[q],
           socket'[q] = socket[q], receiver'[q] = receiver[q]
    PROVE  RankInv(q)'
  BY DEF RankInv, PackInv, Untouched, TurnInv, Half

LEMMA SenderKeeps ==
    ASSUME StreamInv, NEW r \in Ranks, SenderStep(r),
           UNCHANGED <<tensors, bufferSize>>
    PROVE  StreamInv'
<1> DEFINE s == sender[r]
<1>t. StreamType /\ RankInv(r) /\ \A q \in Ranks : RankInv(q)
  BY DEF StreamInv
<1>s. /\ s \in SenderStates /\ socket[r] \in Messages
      /\ memory[r] \in [{1, 2} -> Seq(Nat)]
  BY <1>t DEF StreamType
<1>f. /\ s.next \in Nat \ {0} /\ s.used \in Nat /\ s.names \in Seq(Nat)
      /\ s.buffer \in {1, 2}
  BY <1>s DEF SenderStates
<1>1. CASE PackTensor(r)
  <2> DEFINE before == IF s.used = 0 THEN <<>> ELSE memory[r][s.buffer]
             n == Aligned(tensors[s.next])
             names == Append(s.names, s.next)
             t == [s EXCEPT !.next = s.next + 1, !.used = s.used + n,
                            !.names = names]
             row == [memory[r] EXCEPT ![s.buffer] = names]
  <2>1. n \in Nat \ {0}
    <3>1. s.next \in DOMAIN tensors
      BY <1>1, <1>f, <1>t DEF StreamType, PackTensor, MoreTensors
    <3>2. tensors[s.next] \in Nat \ {0}
      BY <1>t, <3>1 DEF StreamType
    <3> QED
      BY <3>2, AlignedPositive
  <2>2. before = s.names
    BY <1>s, <1>t DEF RankInv, PackInv
  <2>3. s.used + n <= Half
    BY <1>1 DEF PackTensor, Fits
  <2>4. /\ memory' = [memory EXCEPT ![r][s.buffer] = names]
        /\ sender' = [sender EXCEPT ![r].next = s.next + 1,
                          ![r].used = s.used + n, ![r].names = names]
        /\ UNCHANGED <<socket, receiver>>
    BY <1>1, <2>2 DEF PackTensor
  <2>5. names \in Seq(Nat) /\ names # <<>>
    <3>1. names \in Seq(Nat) /\ Len(names) = Len(s.names) + 1
      BY <1>f, AppendProperties
    <3>2. Len(s.names) \in Nat
      BY <1>f, LenProperties
    <3> QED
      BY <3>1, <3>2
  <2> HIDE DEF n, before, names
  <2>6. /\ t \in SenderStates
        /\ t.pc = s.pc /\ t.used = s.used + n /\ t.names = names
        /\ t.buffer = s.buffer /\ t.awaitRecv = s.awaitRecv
    <3>1. s.next + 1 \in Nat \ {0} /\ s.used + n \in Nat
      BY <1>f, <2>1
    <3>2. t \in SenderStates
      <4> DEFINE k == s.next + 1
                 u == s.used + n
      <4>1. names \in Seq(Nat) /\ k \in Nat \ {0} /\ u \in Nat
        BY <2>5, <3>1
      <4> HIDE DEF k, u
      <4>2. \A s1 \in SenderStates : [s1 EXCEPT !.next = k] \in SenderStates
        BY <4>1 DEF SenderStates
      <4>3. \A s1 \in SenderStates : [s1 EXCEPT !.used = u] \in SenderStates
        BY <4>1 DEF SenderStates
      <4>4. \A s1 \in SenderStates : [s1 EXCEPT !.names = names] \in SenderStates
        BY <4>1 DEF SenderStates
      <4>5. t = [[[s EXCEPT !.next = k] EXCEPT !.used = u] EXCEPT !.names = names]
        BY <1>s DEF SenderStates, k, u
      <4> QED
        BY <1>s, <4>2, <4>3, <4>4, <4>5
    <3> QED
      BY <1>s, <3>2 DEF SenderStates
  <2>7. sender' = [sender EXCEPT ![r] = t]
    BY <1>t, <1>s, <2>4 DEF StreamType, SenderStates
  <2> HIDE DEF t
  <2>8. memory' = [memory EXCEPT ![r] = row]
    BY <2>4
  <2>9. /\ row \in [{1, 2} -> Seq(Nat)]
        /\ row[s.buffer] = names
        /\ \A b \in {1, 2} \ {s.buffer} : row[b] = memory[r][b]
    <3>1. row \in [{1, 2} -> Seq(Nat)]
      BY <1>s, <2>5
    <3> QED
      BY <1>s, <1>f, <3>1
  <2> HIDE DEF row
  <2>10. StreamType'
    <3>1. socket' = socket /\ receiver' = receiver
      BY <2>4
    <3> QED
      BY <1>t, <2>6, <2>7, <2>8, <2>9, <3>1 DEF StreamType
  <2>11. sender'[r] = t /\ memory'[r] = row
    BY <1>t, <2>7, <2>8 DEF StreamType
  <2>12. RankInv(r)'
    <3>1. PackInv(r)'
      <4>1. memory'[r][s.buffer] = names
        BY <2>9, <2>11
      <4>2. s.used + n # 0 /\ bufferSize' = bufferSize
        BY <1>f, <2>1
      <4> QED
        BY <2>3, <2>5, <2>6, <2>11, <4>1, <4>2 DEF PackInv, Half
    <3>2. ASSUME NEW m \in Messages, Untouched(r, m) PROVE Untouched(r, m)'
      <4>1. m.kind = "group" => m.buffer \in {1, 2}
        BY KindsDiffer DEF GroupMessages
      <4> QED
        BY <1>f, <2>6, <2>9, <2>11, <3>2, <4>1 DEF Untouched
    <3>3. socket[r] \in Messages /\ receiver[r].payload \in Messages
      BY <1>t DEF StreamType, ReceiverStates
    <3>4. TurnInv(r)'
      BY <1>t, <2>4, <2>6, <2>11 DEF RankInv, TurnInv
    <3> QED
      BY <1>t, <2>4, <3>1, <3>2, <3>3, <3>4 DEF RankInv, Untouched
  <2>13. ASSUME NEW q \in Ranks, q # r PROVE RankInv(q)'
    BY <1>t, <2>4, <2>7, <2>8, <2>13, OtherRanks DEF StreamType
  <2> QED
    BY <2>10, <2>12, <2>13 DEF StreamInv
<1>2. CASE RejectTensor(r) \/ SenderTimesOut(r)
  <2> DEFINE t == [s EXCEPT !.pc = "raised"]
  <2>1. /\ sender' = [sender EXCEPT ![r] = t]
        /\ UNCHANGED <<memory, socket, receiver>>
    BY <1>2, <1>t DEF RejectTensor, SenderTimesOut, StreamType
  <2>2. /\ t \in SenderStates
        /\ t.pc = "raised" /\ t.used = s.used /\ t.names = s.names
        /\ t.buffer = s.buffer /\ t.awaitRecv = s.awaitRecv
    BY <1>s DEF SenderStates
  <2> HIDE DEF t
  <2>3. StreamType'
    BY <1>t, <2>1, <2>2 DEF StreamType
  <2>4. sender'[r] = t
    BY <1>t, <2>1 DEF StreamType
  <2>5. RankInv(r)'
    <3>1. PackInv(r)'
      BY <1>t, <2>1, <2>2, <2>4 DEF PackInv, RankInv, Half
    <3>2. TurnInv(r)'
      BY <1>t, <2>1, <2>2, <2>4 DEF TurnInv, RankInv
    <3>3. \A m : Untouched(r, m) /\ m.kind = "group" =>
             /\ m.buffer # sender'[r].buffer
             /\ memory'[r][m.buffer] = m.names
      BY <2>1, <2>2, <2>4 DEF Untouched
    <3> QED
      BY <1>t, <2>1, <3>1, <3>2, <3>3 DEF RankInv, Untouched
  <2>6. ASSUME NEW q \in Ranks, q # r PROVE RankInv(q)'
    BY <1>t, <2>1, <2>6, OtherRanks DEF StreamType
  <2> QED
    BY <2>3, <2>5, <2>6 DEF StreamInv
<1>3. CASE SendGroup(r)
  <2> DEFINE g == Group(s.buffer, s.names, s.used)
             t == [s EXCEPT !.used = 0, !.names = <<>>, !.awaitRecv = TRUE,
                            !.buffer = OtherBuffer(s.buffer)]
  <2>1. /\ sender' = [sender EXCEPT ![r] = t]
        /\ socket' = [socket EXCEPT ![r] = g]
        /\ UNCHANGED <<memory, receiver>>
    BY <1>3 DEF SendGroup, MaySend, Request
  <2>2. s.names # <<>>
    BY <1>3 DEF SendGroup, GroupDue
  <2>3. g \in GroupMessages /\ g \in Messages /\ g # None
    BY <1>f, KindsDiffer DEF Group, GroupMessages, Messages
  <2>4. /\ OtherBuffer(s.buffer) \in {1, 2}
        /\ OtherBuffer(s.buffer) # s.buffer
    BY <1>f DEF OtherBuffer
  <2>5. /\ t.pc = s.pc /\ t.used = 0 /\ t.names = <<>>
        /\ t.awaitRecv = TRUE /\ t.buffer = OtherBuffer(s.buffer)
        /\ t \in SenderStates
    <3>1. <<>> \in Seq(Nat)
      BY EmptySeq
    <3>2. t \in SenderStates
      BY <1>s, <2>4, <3>1 DEF SenderStates
    <3> QED
      BY <1>s, <3>2 DEF SenderStates
  <2>6. g.buffer = s.buffer /\ g.names = s.names
    BY DEF Group
  <2> HIDE DEF g, t
  <2>7. StreamType'
    BY <1>t, <2>1, <2>3, <2>5 DEF StreamType
  <2>8. sender'[r] = t /\ socket'[r] = g
    BY <1>t, <2>1 DEF StreamType
  \* The engine is not loading: it owes no answer, or has given it.
  <2>9. receiver[r].pc \notin {"load", "answer", "process"}
    <3>1. s.awaitRecv => socket[r] = Answer
      BY <1>3 DEF SendGroup, MaySend
    <3>2. Answer # None
      BY DEF Answer, None
    <3> QED
      BY <1>t, <3>1, <3>2 DEF RankInv, TurnInv
  <2>10. RankInv(r)'
    <3>1. 0 <= Half
      BY <1>t DEF StreamType, Half
    <3>2. PackInv(r)'
      BY <2>5, <2>8, <3>1 DEF PackInv, Half
    <3>3. Untouched(r, socket[r])'
      BY <1>t, <2>1, <2>2, <2>4, <2>5, <2>6, <2>8
      DEF Untouched, RankInv, PackInv
    <3>4. TurnInv(r)'
      BY <1>t, <2>1, <2>5, <2>8, <2>9 DEF TurnInv, RankInv
    <3> QED
      BY <2>1, <2>8, <2>9, <3>2, <3>3, <3>4 DEF RankInv, Untouched
  <2>11. ASSUME NEW q \in Ranks, q # r PROVE RankInv(q)'
    BY <1>t, <2>1, <2>11, OtherRanks DEF StreamType
  <2> QED
    BY <2>7, <2>10, <2>11 DEF StreamInv
<1>4. CASE SendComplete(r)
  <2> DEFINE t == [s EXCEPT !.pc = "last", !.awaitRecv = TRUE]
  <2>1. /\ sender' = [sender EXCEPT ![r] = t]
        /\ socket' = [socket EXCEPT ![r] = Complete]
        /\ UNCHANGED <<memory, receiver>>
    BY <1>4 DEF SendComplete, MaySend, Request
  <2>2. /\ t.pc = "last" /\ t.used = s.used /\ t.names = s.names
        /\ t.buffer = s.buffer /\ t.awaitRecv = TRUE
        /\ t \in SenderStates
    BY <1>s DEF SenderStates
  <2> HIDE DEF t
  <2>3. StreamType'
    BY <1>t, <2>1, <2>2, KindsDiffer DEF StreamType
  <2>4. sender'[r] = t /\ socket'[r] = Complete
    BY <1>t, <2>1 DEF StreamType
  <2>5. receiver[r].pc \notin {"load", "answer", "process"}
    <3>1. s.awaitRecv => socket[r] = Answer
      BY <1>4 DEF SendComplete, MaySend
    <3>2. Answer # None
      BY DEF Answer, None
    <3> QED
      BY <1>t, <3>1, <3>2 DEF RankInv, TurnInv
  <2>6. RankInv(r)'
    <3>1. PackInv(r)'
      BY <1>t, <2>1, <2>2, <2>4 DEF PackInv, RankInv, Half
    <3>2. TurnInv(r)'
      BY <1>t, <2>1, <2>2, <2>4, <2>5 DEF TurnInv, RankInv
    <3> QED
      BY <2>1, <2>4, <2>5, <3>1, <3>2, KindsDiffer DEF RankInv, Untouched
  <2>7. ASSUME NEW q \in Ranks, q # r PROVE RankInv(q)'
    BY <1>t, <2>1, <2>7, OtherRanks DEF StreamType
  <2> QED
    BY <2>3, <2>6, <2>7 DEF StreamInv
<1>5. CASE EndSending(r)
  <2> DEFINE t == [s EXCEPT !.pc = "returned", !.awaitRecv = FALSE]
  <2>1. /\ sender' = [sender EXCEPT ![r] = t]
        /\ socket' = [socket EXCEPT ![r] = None]
        /\ UNCHANGED <<memory, receiver>>
        /\ socket[r] = Answer
    BY <1>5, <1>t DEF EndSending, StreamType
  <2>2. /\ t.pc = "returned" /\ t.used = s.used /\ t.names = s.names
        /\ t.buffer = s.buffer /\ t.awaitRecv = FALSE
        /\ t \in SenderStates
    BY <1>s DEF SenderStates
  <2> HIDE DEF t
  <2>3. StreamType'
    BY <1>t, <2>1, <2>2, KindsDiffer DEF StreamType
  <2>4. sender'[r] = t /\ socket'[r] = None
    BY <1>t, <2>1 DEF StreamType
  <2>5. receiver[r].pc \notin {"load", "answer", "process"}
    <3>1. Answer # None
      BY DEF Answer, None
    <3> QED
      BY <1>t, <2>1, <3>1 DEF RankInv, TurnInv
  <2>6. RankInv(r)'
    <3>1. PackInv(r)'
      BY <1>t, <2>1, <2>2, <2>4 DEF PackInv, RankInv, Half
    <3>2. TurnInv(r)'
      BY <2>1, <2>2, <2>4, <2>5 DEF TurnInv
    <3> QED
      BY <2>1, <2>4, <2>5, <3>1, <3>2, KindsDiffer DEF RankInv, Untouched
  <2>7. ASSUME NEW q \in Ranks, q # r PROVE RankInv(q)'
    BY <1>t, <2>1, <2>7, OtherRanks DEF StreamType
  <2> QED
    BY <2>3, <2>6, <2>7 DEF StreamInv
<1> QED
  BY <1>1, <1>2, <1>3, <1>4, <1>5 DEF SenderStep

LEMMA ReceiverKeeps ==
    ASSUME StreamInv, NEW r \in Ranks, ReceiverStep(r),
           UNCHANGED <<tensors, bufferSize>>
    PROVE  StreamInv'
<1> DEFINE v == receiver[r]
<1>t. StreamType /\ RankInv(r) /\ \A q \in Ranks : RankInv(q)
  BY DEF StreamInv
<1>s. v \in ReceiverStates /\ socket[r] \in Messages
  BY <1>t DEF StreamType
\* Every step of the engine, on its socket and its own state.
<1>1. PICK k \in Messages, w \in ReceiverStates :
        /\ receiver' = [receiver EXCEPT ![r] = w]
        /\ socket' = [socket EXCEPT ![r] = k]
        /\ k.kind # "group" \/ k = socket[r]
        /\ k # None => sender[r].awaitRecv
        /\ w.pc \in {"load", "answer", "process"}
               => sender[r].awaitRecv /\ k = None
        /\ w.pc = "load" => w.payload.kind = "group" /\ w.payload = socket[r]
  <2>0. socket = [socket EXCEPT ![r] = socket[r]]
    BY <1>t DEF StreamType
  <2>k. /\ None \in Messages /\ Answer \in Messages
        /\ None.kind = "none" /\ Answer.kind = "ACK" /\ Answer # None
    BY KindsDiffer
  <2>v. /\ v.pc \in {"load", "answer", "process"}
             => sender[r].awaitRecv /\ socket[r] = None
        /\ socket[r] # None => sender[r].awaitRecv
    BY <1>t DEF RankInv, TurnInv
  <2>1. CASE ReceiveMessage(r)
    <3> DEFINE w == [v EXCEPT !.payload = socket[r],
                     !.pc = IF socket[r] = Complete THEN "process" ELSE "load"]
    <3>0. /\ w.pc = IF socket[r] = Complete THEN "process" ELSE "load"
          /\ w.payload = socket[r]
      BY <1>s DEF ReceiverStates
    <3>1. receiver' = [receiver EXCEPT ![r] = w]
      BY <1>t, <2>1 DEF ReceiveMessage, StreamType
    <3>2. socket' = [socket EXCEPT ![r] = None] /\ IsRequest(socket[r])
      BY <2>1 DEF ReceiveMessage
    <3>3. w \in ReceiverStates
      BY <1>s DEF ReceiverStates
    <3>4. w.pc = "load" => w.payload.kind = "group" /\ w.payload = socket[r]
      BY <1>s, <3>0, <3>2, KindsDiffer DEF IsRequest, Messages
    <3>5. sender[r].awaitRecv
      BY <2>v, <2>k, <3>2 DEF IsRequest
    <3> HIDE DEF w
    <3> QED
      BY <2>k, <3>1, <3>2, <3>3, <3>4, <3>5
  <2>2. CASE LoadGroup(r)
    <3> DEFINE w == [v EXCEPT !.pc = "answer"]
    <3>1. receiver' = [receiver EXCEPT ![r] = w] /\ socket' = socket
      BY <1>t, <2>2 DEF LoadGroup, StreamType
    <3>2. w \in ReceiverStates /\ w.pc = "answer"
      BY <1>s DEF ReceiverStates
    <3>3. sender[r].awaitRecv /\ socket[r] = None
      BY <2>v, <2>2 DEF LoadGroup
    <3> HIDE DEF w
    <3> QED
      BY <1>s, <2>0, <3>1, <3>2, <3>3
  <2>3. CASE AnswerGroup(r)
    <3> DEFINE w == [v EXCEPT !.pc = "receive", !.payload = None]
    <3>1. /\ receiver' = [receiver EXCEPT ![r] = w]
          /\ socket' = [socket EXCEPT ![r] = Answer]
      BY <1>t, <2>3 DEF AnswerGroup, StreamType
    <3>2. w \in ReceiverStates /\ w.pc = "receive"
      BY <1>s, <2>k DEF ReceiverStates
    <3>3. sender[r].awaitRecv
      BY <2>v, <2>3 DEF AnswerGroup
    <3> HIDE DEF w
    <3> QED
      BY <2>k, <3>1, <3>2, <3>3
  <2>4. CASE ProcessComplete(r)
    <3> DEFINE w == [v EXCEPT !.pc = "finish", !.payload = None]
    <3>1. /\ receiver' = [receiver EXCEPT ![r] = w]
          /\ socket' = [socket EXCEPT ![r] = Answer]
      BY <1>t, <2>4 DEF ProcessComplete, StreamType
    <3>2. w \in ReceiverStates /\ w.pc = "finish"
      BY <1>s, <2>k DEF ReceiverStates
    <3>3. sender[r].awaitRecv
      BY <2>v, <2>4 DEF ProcessComplete
    <3> HIDE DEF w
    <3> QED
      BY <2>k, <3>1, <3>2, <3>3
  <2>5. CASE EndReceiving(r)
    <3> DEFINE w == [v EXCEPT !.pc = "returned"]
    <3>1. receiver' = [receiver EXCEPT ![r] = w] /\ socket' = socket
      BY <1>t, <2>5 DEF EndReceiving, StreamType
    <3>2. w \in ReceiverStates /\ w.pc = "returned"
      BY <1>s DEF ReceiverStates
    <3> HIDE DEF w
    <3> QED
      BY <1>s, <2>0, <2>v, <3>1, <3>2
  <2>6. CASE ReceiverFails(r)
    <3> DEFINE w == [v EXCEPT !.pc = "failed", !.payload = None]
    <3>1. receiver' = [receiver EXCEPT ![r] = w] /\ socket' = socket
      BY <1>t, <2>6 DEF ReceiverFails, StreamType
    <3>2. w \in ReceiverStates /\ w.pc = "failed"
      BY <1>s, <2>k DEF ReceiverStates
    <3> HIDE DEF w
    <3> QED
      BY <1>s, <2>0, <2>v, <3>1, <3>2
  <2> QED
    BY <2>1, <2>2, <2>3, <2>4, <2>5, <2>6 DEF ReceiverStep
<1>2. UNCHANGED <<sender, memory>>
  BY DEF ReceiverStep, ReceiveMessage, LoadGroup, AnswerGroup,
         ProcessComplete, EndReceiving, ReceiverFails
<1>3. StreamType'
  BY <1>t, <1>1, <1>2 DEF StreamType
<1>4. receiver'[r] = w /\ socket'[r] = k
  BY <1>t, <1>1 DEF StreamType
<1>5. RankInv(r)'
  <2>1. PackInv(r)'
    BY <1>t, <1>2 DEF RankInv, PackInv, Half
  <2>2. Untouched(r, k)' /\ (w.pc = "load" => Untouched(r, w.payload)')
    BY <1>t, <1>1, <1>2 DEF RankInv, Untouched
  <2>3. TurnInv(r)'
    BY <1>t, <1>1, <1>2, <1>4 DEF RankInv, TurnInv
  <2> QED
    BY <1>4, <2>1, <2>2, <2>3 DEF RankInv, Untouched
<1>6. ASSUME NEW q \in Ranks, q # r PROVE RankInv(q)'
  BY <1>t, <1>1, <1>2, <1>6, OtherRanks DEF StreamType
<1> QED
  BY <1>3, <1>5, <1>6 DEF StreamInv

LEMMA StreamStep ==
    ASSUME StreamInv, [RefitNext]_refitVars
    PROVE  StreamInv'
<1>1. CASE \E r \in Ranks : StreamTo(r) \/ StreamFrom(r)
  BY <1>1, SenderKeeps, ReceiverKeeps DEF StreamTo, StreamFrom
<1>2. CASE ControlStep \/ BroadcastWeights \/ UNCHANGED refitVars
  <2>1. UNCHANGED <<tensors, ipcVars>>
    BY <1>2 DEF ControlStep, OffloadBefore, WakeWeights, StartBroadcast,
        TransferRaises, TransferEnds, OffloadAfter, WakeCache, TransferIdle,
        BroadcastWeights, BroadcastStep, refitVars
  <2>2. StreamType'
    BY <2>1 DEF StreamInv, StreamType, ipcVars
  <2>3. ASSUME NEW r \in Ranks PROVE RankInv(r)'
    BY <2>1, OtherRanks DEF StreamInv, ipcVars
  <2> QED
    BY <2>2, <2>3 DEF StreamInv
<1> QED
  BY <1>1, <1>2 DEF RefitNext

\* Streaming over ZMQ IPC never reads a buffer that the sender has filled
\* again, never overfills a buffer and never uses a socket out of turn
\* (stream_weights_via_ipc_zmq_impl and update_weights_via_ipc_zmq).
THEOREM StreamsSafely == RefitSpec => []StreamingSafe
<1>1. StreamInv => StreamingSafe
  BY DEF StreamInv, RankInv, PackInv, TurnInv, Untouched,
         StreamingSafe, ReadsWhatWasSent, KeepsProtocol
<1> QED
  BY <1>1, StreamInit, StreamStep, PTL DEF RefitSpec

-----------------------------------------------------------------------------
(***************************************************************************)
(* The packed broadcast is safe: for any model, any target size, any       *)
(* number of buffers and of ranks, the members that meet in a broadcast    *)
(* mean the same packet, and no member holds more than NumBuffers packets. *)
(*                                                                         *)
(* Nobody tells the others where a packet ends, nor do the members ever    *)
(* stand at the same place.  What keeps them together is a plan that no    *)
(* member knows: the places at which the packets start, one after the      *)
(* other, as far as the member that is ahead has come.  Each member only   *)
(* ever repeats it.                                                        *)
(***************************************************************************)

Packets ==
    [op : {"broadcast", "load"}, n : Nat \ {0}, from : Nat, to : Nat]

ProcessorStates ==
    [pc : {"run", "returned", "failed"}, next : Nat \ {0}, buffer : Buffers,
     enqueued : Nat]

BroadcastType ==
    /\ tensors \in Seq(Nat \ {0})
    /\ cpu \in [Members -> ProcessorStates]
    /\ stream \in [Members -> [Buffers -> Seq(Packets)]]

\* The places at which the packets start, one after the other.
IsPlan(plan) ==
    /\ \A n \in 1 .. Len(plan) : plan[n] \in 1 .. Len(tensors) + 1
    /\ \A n \in 1 .. Len(plan) - 1 : plan[n + 1] = ProducerCut(plan[n]) + 1

IsPlanned(p, plan) ==
    /\ p.n <= Len(plan)
    /\ p.from = plan[p.n] /\ p.to = ProducerCut(p.from)

Follows(m, plan) ==
    /\ cpu[m].enqueued + 1 <= Len(plan)
    /\ cpu[m].next = plan[cpu[m].enqueued + 1]
    /\ \A b \in Buffers : \A i \in 1 .. Len(stream[m][b]) :
           IsPlanned(stream[m][b][i], plan)

\* A buffer holds one packet at a time.
OnePacket(work) ==
    \A i, j \in 1 .. Len(work) : work[i].n = work[j].n

BroadcastInv ==
    /\ BroadcastType
    /\ \A m \in Members : \A b \in Buffers : OnePacket(stream[m][b])
    /\ \E plan \in Seq(Nat) :
           IsPlan(plan) /\ \A m \in Members : Follows(m, plan)

\* A set of naturals has a least element.
LEMMA MinExists ==
    ASSUME NEW S \in SUBSET Nat, S # {}
    PROVE  Min(S) \in S /\ \A x \in S : Min(S) <= x
<1> DEFINE R == OpToRel(<, Nat)
<1>1. R = {ss \in Nat \X Nat : ss[1] < ss[2]}
  BY DEF OpToRel
<1>2. IsWellFoundedOn(R, Nat)
  BY NatLessThanWellFounded DEF OpToRel
<1>3. PICK x \in S : \A y \in S : ~(<<y, x>> \in R)
  <2> HIDE DEF R
  <2> QED
    BY <1>2, WFMin
<1> HIDE DEF R
<1>4. \A y \in S : x <= y
  <2>1. S \subseteq Nat
    OBVIOUS
  <2>2. \A y \in S : ~(y < x)
    BY <1>1, <1>3, <2>1
  <2> QED
    BY <2>1, <2>2
<1> QED
  BY <1>4 DEF Min

\* Where a packet that starts at lo ends: at lo or later, at the last tensor
\* at the latest, and there if it did not get full.
LEMMA Cuts ==
    ASSUME tensors \in Seq(Nat \ {0}), NEW lo \in 1 .. Len(tensors) + 1
    PROVE  /\ ProducerCut(lo) \in lo - 1 .. Len(tensors)
           /\ lo <= Len(tensors) => ProducerCut(lo) >= lo
           /\ IsTail(lo, ProducerCut(lo)) => ProducerCut(lo) = Len(tensors)
<1> DEFINE full == {hi \in lo .. Len(tensors) : IsFull(lo, hi)}
<1>1. Len(tensors) \in Nat
  OBVIOUS
<1>2. full \in SUBSET Nat
  BY <1>1
<1>3. CASE full = {}
  BY <1>1, <1>3 DEF ProducerCut
<1>4. CASE full # {}
  <2> HIDE DEF full
  <2>1. Min(full) \in full
    BY <1>2, <1>4, MinExists
  <2>2. ProducerCut(lo) = Min(full)
    BY <1>4 DEF ProducerCut, full
  <2>3. Min(full) \in lo .. Len(tensors) /\ IsFull(lo, Min(full))
    BY <2>1 DEF full
  <2> QED
    BY <1>1, <2>2, <2>3 DEF IsTail
<1> QED
  BY <1>3, <1>4

LEMMA SameCut == \A lo : ConsumerCut(lo) = ProducerCut(lo)
  BY DEF ConsumerCut, ProducerCut

LEMMA RingOfBuffers ==
    /\ 0 \in Buffers
    /\ \A b \in Buffers : (b + 1) % NumBuffers \in Buffers
<1>1. NumBuffers \in Nat \ {0}
  BY BroadcastAssumption
<1>2. ASSUME NEW b \in Buffers PROVE (b + 1) % NumBuffers \in Buffers
  BY <1>1 DEF Buffers
<1> QED
  BY <1>1, <1>2 DEF Buffers

LEMMA BroadcastStarts == RefitInit => BroadcastInv
<1> SUFFICES ASSUME RefitInit PROVE BroadcastInv
  OBVIOUS
<1>1. tensors \in Seq(Nat \ {0})
  BY WeightsAssumption DEF RefitInit, WeightsInit
<1>2. ASSUME NEW m \in Members
      PROVE  /\ cpu[m] = [pc |-> "run", next |-> 1, buffer |-> 0, enqueued |-> 0]
             /\ stream[m] = [b \in Buffers |-> <<>>]
  BY <1>2 DEF RefitInit, BroadcastInit
<1>3. BroadcastType
  <2>1. [pc |-> "run", next |-> 1, buffer |-> 0, enqueued |-> 0] \in ProcessorStates
    BY RingOfBuffers DEF ProcessorStates
  <2>2. [b \in Buffers |-> <<>>] \in [Buffers -> Seq(Packets)]
    <3>1. <<>> \in Seq(Packets)
      OBVIOUS
    <3> QED
      BY <3>1
  <2> QED
    BY <1>1, <2>1, <2>2 DEF RefitInit, BroadcastInit, BroadcastType
<1>4. \A m \in Members : \A b \in Buffers : stream[m][b] = <<>>
  BY <1>2
<1>5. \A m \in Members : \A b \in Buffers : OnePacket(stream[m][b])
  BY <1>4 DEF OnePacket
<1>6. IsPlan(<<1>>)
  BY <1>1 DEF IsPlan
<1>7. \A m \in Members : Follows(m, <<1>>)
  BY <1>2, <1>4 DEF Follows
<1>8. <<1>> \in Seq(Nat)
  OBVIOUS
<1> QED
  BY <1>3, <1>5, <1>6, <1>7, <1>8 DEF BroadcastInv

\* What a member's processor enqueues: a packet's broadcast, with its load
\* unless the member is the source or its load failed, or nothing.
Work(n, lo, hi) ==
    {<<Broadcast(n, lo, hi)>>,
     <<Broadcast(n, lo, hi), LoadPacket(n, lo, hi)>>}

Enqueued(m, lo, hi, n, b, work, pc) ==
    /\ stream[m][b] = <<>>
    /\ stream' = [stream EXCEPT ![m] = [@ EXCEPT ![b] = work]]
    /\ work = <<>> \/ work \in Work(n, lo, hi)
    /\ work # <<>> <=> lo <= hi
    /\ cpu' = [cpu EXCEPT ![m] =
          [pc |-> pc, next |-> hi + 1, buffer |-> b,
           enqueued |-> cpu[m].enqueued + (IF work = <<>> THEN 0 ELSE 1)]]

LEMMA WorkEmpty ==
    ASSUME NEW n, NEW lo, NEW hi, NEW work \in Work(n, lo, hi)
    PROVE  work # <<>>
  BY DEF Work

LEMMA WhatIsEnqueued ==
    ASSUME BroadcastType, NEW m \in Members, NEW hi, NEW work, NEW pc,
           NEW n, NEW lo,
           Enqueue(m, hi, work, pc), work = <<>> \/ work \in Work(n, lo, hi),
           work # <<>> <=> lo <= hi
    PROVE  \E b \in Buffers : Enqueued(m, lo, hi, n, b, work, pc)
<1> DEFINE b == (cpu[m].buffer + 1) % NumBuffers
<1>1. cpu[m].buffer \in Buffers
  BY DEF BroadcastType, ProcessorStates
<1>2. b \in Buffers
  BY <1>1, RingOfBuffers
<1>3. /\ stream[m][b] = <<>>
      /\ stream' = [stream EXCEPT ![m][b] = @ \o work]
      /\ cpu' = [cpu EXCEPT ![m] =
            [pc |-> pc, next |-> hi + 1, buffer |-> b,
             enqueued |-> cpu[m].enqueued + (IF work = <<>> THEN 0 ELSE 1)]]
  BY DEF Enqueue, StreamIsFree
<1> HIDE DEF b
<1>4. <<>> \o work = work
  BY DEF Work
<1>5. stream' = [stream EXCEPT ![m] = [@ EXCEPT ![b] = work]]
  BY <1>3, <1>4
<1> QED
  BY <1>2, <1>3, <1>5 DEF Enqueued

\* A step of a processor: the packet that comes next, its last one if the
\* packet is not full.
Goes(m, b, work, pc) ==
    LET lo == cpu[m].next
        hi == ProducerCut(lo)
        n == cpu[m].enqueued + 1
    IN  /\ Enqueued(m, lo, hi, n, b, work, pc)
        /\ cpu[m].pc = "run"
        /\ pc = "returned" => IsTail(lo, hi)
        /\ m # Source /\ pc # "failed" =>
               work \in {<<>>, <<Broadcast(n, lo, hi), LoadPacket(n, lo, hi)>>}
        /\ m = Source => work \in {<<>>, <<Broadcast(n, lo, hi)>>}
        /\ UNCHANGED <<broadcasts, loaded>>

LEMMA ProcessorGoes ==
    ASSUME BroadcastType, NEW m \in Members, ProcessorStep(m)
    PROVE  \E b \in Buffers, pc \in {"run", "returned", "failed"} :
             \E work : Goes(m, b, work, pc)
<1> DEFINE lo == cpu[m].next
           hi == ProducerCut(lo)
           n == cpu[m].enqueued + 1
           B == Broadcast(n, lo, hi)
           L == LoadPacket(n, lo, hi)
<1>w. <<B>> \in Work(n, lo, hi) /\ <<B, L>> \in Work(n, lo, hi)
  BY DEF Work
<1>1. CASE m = Source /\ ProducePacket
  <2> DEFINE work == IF lo <= hi THEN <<B>> ELSE <<>>
             pc == IF IsTail(lo, hi) THEN "returned" ELSE "run"
  <2>1. /\ Enqueue(m, hi, work, pc) /\ cpu[m].pc = "run"
        /\ UNCHANGED <<broadcasts, loaded>>
    BY <1>1 DEF ProducePacket
  <2>2. work # <<>> <=> lo <= hi
    OBVIOUS
  <2>3. PICK b \in Buffers : Enqueued(m, lo, hi, n, b, work, pc)
    <3>1. work = <<>> \/ work \in Work(n, lo, hi)
      BY <1>w
    <3> HIDE DEF lo, hi, n, work, pc
    <3> QED
      BY <2>1, <2>2, <3>1, WhatIsEnqueued
  <2>4. work \in {<<>>, <<B>>} /\ (pc = "returned" => IsTail(lo, hi))
        /\ pc \in {"run", "returned", "failed"}
    OBVIOUS
  <2> HIDE DEF work, pc
  <2>5. Goes(m, b, work, pc)
    BY <1>1, <2>1, <2>3, <2>4 DEF Goes
  <2> HIDE DEF lo, hi, n, B, L
  <2> QED
    BY <2>4, <2>5
<1>2. CASE m # Source /\ ConsumePacket(m)
  <2> DEFINE work == IF lo <= hi THEN <<B, L>> ELSE <<>>
             pc == IF IsTail(lo, hi) THEN "returned" ELSE "run"
  <2>1. /\ Enqueue(m, hi, work, pc) /\ cpu[m].pc = "run"
        /\ UNCHANGED <<broadcasts, loaded>>
    BY <1>2, SameCut DEF ConsumePacket
  <2>2. work # <<>> <=> lo <= hi
    OBVIOUS
  <2>3. PICK b \in Buffers : Enqueued(m, lo, hi, n, b, work, pc)
    <3>1. work = <<>> \/ work \in Work(n, lo, hi)
      BY <1>w
    <3> HIDE DEF lo, hi, n, work, pc
    <3> QED
      BY <2>1, <2>2, <3>1, WhatIsEnqueued
  <2>4. work \in {<<>>, <<B, L>>} /\ (pc = "returned" => IsTail(lo, hi))
        /\ pc \in {"run", "returned", "failed"}
    OBVIOUS
  <2> HIDE DEF work, pc
  <2>5. Goes(m, b, work, pc)
    BY <1>2, <2>1, <2>3, <2>4 DEF Goes
  <2> HIDE DEF lo, hi, n, B, L
  <2> QED
    BY <2>4, <2>5
<1>3. CASE m # Source /\ ConsumerFails(m)
  <2>1. /\ Enqueue(m, hi, <<B>>, "failed") /\ cpu[m].pc = "run" /\ lo <= hi
        /\ UNCHANGED <<broadcasts, loaded>>
    BY <1>3, SameCut DEF ConsumerFails
  <2>2. <<B>> # <<>>
    OBVIOUS
  <2>3. PICK b \in Buffers : Enqueued(m, lo, hi, n, b, <<B>>, "failed")
    <3> HIDE DEF lo, hi, n
    <3> QED
      BY <1>w, <2>1, <2>2, WhatIsEnqueued
  <2>4. Goes(m, b, <<B>>, "failed")
    BY <1>3, <2>1, <2>3 DEF Goes
  <2> QED
    BY <2>4
<1> QED
  BY <1>1, <1>2, <1>3 DEF ProcessorStep

\* A step of the GPUs: every stream stays as it is or loses its first
\* operation.
GPUsWork ==
    /\ cpu' = cpu
    /\ DOMAIN stream' = Members
    /\ \A m \in Members :
          /\ DOMAIN stream'[m] = Buffers
          /\ \A b \in Buffers :
                \/ stream'[m][b] = stream[m][b]
                \/ /\ stream[m][b] # <<>>
                   /\ stream'[m][b] = Tail(stream[m][b])
    /\ stream' = [m \in Members |-> [b \in Buffers |-> stream'[m][b]]]

LEMMA SourceIsMember == Source \in Members /\ Ranks \subseteq Members
  BY DEF Members

LEMMA GPUsOnlyTake ==
    ASSUME BroadcastType, GPUStep
    PROVE  GPUsWork
<1>t. stream \in [Members -> [Buffers -> Seq(Packets)]]
  BY DEF BroadcastType
<1>1. CASE RunBroadcast
  <2>1. PICK at \in [Members -> Buffers] :
            /\ \A m \in Members : AtBroadcast(m, at[m])
            /\ stream' = [m \in Members |->
                            [stream[m] EXCEPT ![at[m]] = Tail(@)]]
            /\ cpu' = cpu
    BY <1>1 DEF RunBroadcast
  <2>2. ASSUME NEW m \in Members
        PROVE  /\ stream'[m] = [stream[m] EXCEPT ![at[m]] = Tail(stream[m][at[m]])]
               /\ at[m] \in Buffers /\ stream[m] \in [Buffers -> Seq(Packets)]
               /\ stream[m][at[m]] # <<>>
    BY <1>t, <2>1 DEF AtBroadcast
  <2>3. ASSUME NEW m \in Members, NEW b \in Buffers
        PROVE  \/ stream'[m][b] = stream[m][b]
               \/ /\ stream[m][b] # <<>>
                  /\ stream'[m][b] = Tail(stream[m][b])
    <3>1. CASE b = at[m]
      BY <2>2, <3>1
    <3>2. CASE b # at[m]
      BY <2>2, <3>2
    <3> QED
      BY <3>1, <3>2
  <2>4. DOMAIN stream' = Members /\ \A m \in Members : DOMAIN stream'[m] = Buffers
    BY <2>1, <2>2
  <2>5. stream' = [m \in Members |-> stream'[m]]
    BY <2>1
  <2>6. \A m \in Members : stream'[m] = [b \in Buffers |-> stream'[m][b]]
    BY <2>2
  <2>7. stream' = [m \in Members |-> [b \in Buffers |-> stream'[m][b]]]
    BY <2>5, <2>6
  <2> QED
    BY <2>1, <2>3, <2>4, <2>7 DEF GPUsWork
<1>2. ASSUME NEW r \in Ranks, RunLoad(r) PROVE GPUsWork
  <2>1. PICK c \in Buffers :
            /\ stream[r][c] # <<>>
            /\ stream' = [stream EXCEPT ![r][c] = Tail(@)]
            /\ cpu' = cpu
    BY <1>2 DEF RunLoad
  <2>2. r \in Members
    BY SourceIsMember
  <2>3. ASSUME NEW m \in Members, NEW b \in Buffers
        PROVE  \/ stream'[m][b] = stream[m][b]
               \/ /\ stream[m][b] # <<>>
                  /\ stream'[m][b] = Tail(stream[m][b])
    BY <1>t, <2>1, <2>2
  <2>4. DOMAIN stream' = Members /\ \A m \in Members : DOMAIN stream'[m] = Buffers
    BY <1>t, <2>1, <2>2
  <2>5. stream' = [m \in Members |-> stream'[m]]
    BY <1>t, <2>1
  <2>6. \A m \in Members : stream'[m] = [b \in Buffers |-> stream'[m][b]]
    BY <1>t, <2>1, <2>2
  <2>7. stream' = [m \in Members |-> [b \in Buffers |-> stream'[m][b]]]
    BY <2>5, <2>6
  <2> QED
    BY <2>1, <2>3, <2>4, <2>7 DEF GPUsWork
<1> QED
  BY <1>1, <1>2 DEF GPUStep

\* The plan for one more packet.
LEMMA PlanGrows ==
    ASSUME tensors \in Seq(Nat \ {0}), NEW plan \in Seq(Nat), IsPlan(plan),
           NEW k \in Nat, k + 1 <= Len(plan)
    PROVE  \E longer \in Seq(Nat) :
             /\ IsPlan(longer)
             /\ k + 2 <= Len(longer) /\ Len(plan) <= Len(longer)
             /\ \A i \in 1 .. Len(plan) : longer[i] = plan[i]
             /\ longer[k + 2] = ProducerCut(plan[k + 1]) + 1
<1>1. CASE k + 2 <= Len(plan)
  <2>1. plan[k + 2] = ProducerCut(plan[k + 1]) + 1
    <3>1. k + 1 \in 1 .. Len(plan) - 1 /\ k + 1 + 1 = k + 2
      BY <1>1
    <3> QED
      BY <3>1 DEF IsPlan
  <2> QED
    BY <1>1, <2>1
<1>2. CASE ~(k + 2 <= Len(plan))
  <2> DEFINE next == ProducerCut(plan[k + 1]) + 1
             longer == Append(plan, next)
  <2>1. Len(plan) = k + 1
    BY <1>2
  <2>2. next \in 1 .. Len(tensors) + 1
    <3>1. plan[k + 1] \in 1 .. Len(tensors) + 1
      BY <2>1 DEF IsPlan
    <3>2. ProducerCut(plan[k + 1]) \in plan[k + 1] - 1 .. Len(tensors)
      BY <3>1, Cuts
    <3> QED
      BY <3>1, <3>2
  <2>3. next \in Nat
    BY <2>2
  <2> HIDE DEF next
  <2>4. /\ longer \in Seq(Nat) /\ Len(longer) = k + 2
        /\ \A i \in 1 .. k + 1 : longer[i] = plan[i]
        /\ longer[k + 2] = next
    BY <2>1, <2>3
  <2> HIDE DEF longer
  <2>5. IsPlan(longer)
    <3>1. ASSUME NEW n \in 1 .. Len(longer)
          PROVE  longer[n] \in 1 .. Len(tensors) + 1
      <4>1. CASE n = k + 2
        BY <2>2, <2>4, <4>1
      <4>2. CASE n # k + 2
        <5>1. n \in 1 .. k + 1
          BY <2>4, <4>2
        <5> QED
          BY <2>1, <2>4, <5>1 DEF IsPlan
      <4> QED
        BY <4>1, <4>2
    <3>2. ASSUME NEW n \in 1 .. Len(longer) - 1
          PROVE  longer[n + 1] = ProducerCut(longer[n]) + 1
      <4>1. CASE n = k + 1
        <5>1. n + 1 = k + 2 /\ longer[n] = plan[k + 1]
          BY <2>4, <4>1
        <5> QED
          BY <2>4, <5>1 DEF next
      <4>2. CASE n # k + 1
        <5>1. n \in 1 .. Len(plan) - 1 /\ n \in 1 .. k + 1 /\ n + 1 \in 1 .. k + 1
          BY <2>1, <2>4, <4>2
        <5>2. longer[n] = plan[n] /\ longer[n + 1] = plan[n + 1]
          BY <2>4, <5>1
        <5> QED
          BY <5>1, <5>2 DEF IsPlan
      <4> QED
        BY <4>1, <4>2
    <3> QED
      BY <3>1, <3>2 DEF IsPlan
  <2> QED
    BY <2>1, <2>4, <2>5 DEF next
<1> QED
  BY <1>1, <1>2

LEMMA LongerPlan ==
    ASSUME BroadcastType, NEW m \in Members,
           NEW plan \in Seq(Nat), NEW longer \in Seq(Nat), Follows(m, plan),
           Len(plan) <= Len(longer),
           \A i \in 1 .. Len(plan) : longer[i] = plan[i]
    PROVE  Follows(m, longer)
<1>1. cpu[m].enqueued \in Nat
  BY DEF BroadcastType, ProcessorStates
<1>2. ASSUME NEW b \in Buffers, NEW i \in 1 .. Len(stream[m][b])
      PROVE  IsPlanned(stream[m][b][i], longer)
  <2> DEFINE p == stream[m][b][i]
  <2>1. p.n \in Nat \ {0}
    <3>1. stream[m][b] \in Seq(Packets)
      BY DEF BroadcastType
    <3>2. p \in Packets
      BY <3>1
    <3> QED
      BY <3>2 DEF Packets
  <2>2. IsPlanned(p, plan)
    BY DEF Follows
  <2> HIDE DEF p
  <2>3. IsPlanned(p, longer)
    BY <2>1, <2>2 DEF IsPlanned
  <2> QED
    BY <2>3 DEF p
<1> QED
  BY <1>1, <1>2 DEF Follows

\* One packet is a number, and what it is the load or broadcast of.
LEMMA WorkIsPlanned ==
    ASSUME NEW n \in Nat \ {0}, NEW lo \in Nat, NEW hi \in Nat,
           NEW work, work = <<>> \/ work \in Work(n, lo, hi)
    PROVE  /\ work \in Seq(Packets)
           /\ \A i \in 1 .. Len(work) :
                 work[i].n = n /\ work[i].from = lo /\ work[i].to = hi
<1> DEFINE B == Broadcast(n, lo, hi)
           L == LoadPacket(n, lo, hi)
<1>1. /\ B \in Packets /\ B.n = n /\ B.from = lo /\ B.to = hi
      /\ L \in Packets /\ L.n = n /\ L.from = lo /\ L.to = hi
  BY DEF Broadcast, LoadPacket, Packets
<1>2. work \in {<<>>, <<B>>, <<B, L>>}
  BY DEF Work
<1> HIDE DEF B, L
<1>3. CASE work = <<>>
  BY <1>3
<1>4. CASE work = <<B>>
  BY <1>1, <1>4
<1>5. CASE work = <<B, L>>
  BY <1>1, <1>5
<1> QED
  BY <1>2, <1>3, <1>4, <1>5

LEMMA PlaceInPlan ==
    ASSUME NEW plan \in Seq(Nat), IsPlan(plan), NEW m \in Members,
           BroadcastType, Follows(m, plan)
    PROVE  cpu[m].next \in 1 .. Len(tensors) + 1
<1>1. cpu[m].enqueued \in Nat
  BY DEF BroadcastType, ProcessorStates
<1>2. cpu[m].enqueued + 1 \in 1 .. Len(plan)
  BY <1>1 DEF Follows
<1> QED
  BY <1>2 DEF Follows, IsPlan

LEMMA ProcessorKeeps ==
    ASSUME BroadcastInv, NEW m \in Members, NEW b \in Buffers, NEW work,
           NEW pc \in {"run", "returned", "failed"},
           Goes(m, b, work, pc), UNCHANGED tensors
    PROVE  BroadcastInv'
<1> DEFINE lo == cpu[m].next
           hi == ProducerCut(lo)
           k == cpu[m].enqueued
<1>t. BroadcastType
  BY DEF BroadcastInv
<1>s. /\ tensors \in Seq(Nat \ {0}) /\ k \in Nat /\ lo \in Nat \ {0}
      /\ cpu \in [Members -> ProcessorStates]
      /\ stream \in [Members -> [Buffers -> Seq(Packets)]]
      /\ Len(tensors) \in Nat
  BY <1>t DEF BroadcastType, ProcessorStates
<1>p. PICK plan \in Seq(Nat) : IsPlan(plan) /\ \A q \in Members : Follows(q, plan)
  BY DEF BroadcastInv
<1>l. lo \in 1 .. Len(tensors) + 1
  BY <1>p, <1>t, PlaceInPlan
<1>h. hi \in lo - 1 .. Len(tensors) /\ hi \in Nat /\ (lo > hi => hi + 1 = lo)
  <2>1. hi \in lo - 1 .. Len(tensors)
    BY <1>s, <1>l, Cuts
  <2> HIDE DEF hi
  <2> QED
    BY <1>s, <2>1
<1>e. Enqueued(m, lo, hi, k + 1, b, work, pc)
  BY DEF Goes
<1>w. /\ work \in Seq(Packets)
      /\ \A i \in 1 .. Len(work) :
            work[i].n = k + 1 /\ work[i].from = lo /\ work[i].to = hi
  <2>1. k + 1 \in Nat \ {0} /\ lo \in Nat
    BY <1>s
  <2> QED
    BY <1>e, <1>h, <2>1, WorkIsPlanned DEF Enqueued
<1> DEFINE more == IF work = <<>> THEN 0 ELSE 1
           c == [pc |-> pc, next |-> hi + 1, buffer |-> b, enqueued |-> k + more]
<1>1. /\ stream' = [stream EXCEPT ![m] = [@ EXCEPT ![b] = work]]
      /\ cpu' = [cpu EXCEPT ![m] = c]
      /\ (work # <<>> <=> lo <= hi)
  BY <1>e DEF Enqueued
<1>2. c \in ProcessorStates /\ c.next = hi + 1 /\ c.enqueued = k + more
  <2>1. hi + 1 \in Nat \ {0} /\ k + more \in Nat
    BY <1>s, <1>h
  <2> QED
    BY <2>1 DEF ProcessorStates
<1> HIDE DEF c
<1>3. /\ cpu'[m] = c /\ stream'[m][b] = work
      /\ \A q \in Members \ {m} : cpu'[q] = cpu[q] /\ stream'[q] = stream[q]
      /\ \A d \in Buffers \ {b} : stream'[m][d] = stream[m][d]
  BY <1>s, <1>1
<1>4. BroadcastType'
  <2>1. cpu' \in [Members -> ProcessorStates]
    BY <1>s, <1>1, <1>2
  <2>2. [stream[m] EXCEPT ![b] = work] \in [Buffers -> Seq(Packets)]
    BY <1>s, <1>w
  <2>3. stream' \in [Members -> [Buffers -> Seq(Packets)]]
    BY <1>s, <1>1, <2>2
  <2> QED
    BY <1>s, <2>1, <2>3 DEF BroadcastType
<1>5. ASSUME NEW q \in Members, NEW d \in Buffers
      PROVE  OnePacket(stream[q][d])'
  <2>1. OnePacket(stream[q][d])
    BY DEF BroadcastInv
  <2>2. CASE q = m /\ d = b
    BY <1>3, <1>w, <2>2 DEF OnePacket
  <2>3. CASE ~(q = m /\ d = b)
    BY <1>3, <2>1, <2>3 DEF OnePacket
  <2> QED
    BY <2>2, <2>3
<1>6. PICK longer \in Seq(Nat) :
             /\ IsPlan(longer)
             /\ k + 2 <= Len(longer) /\ Len(plan) <= Len(longer)
             /\ \A i \in 1 .. Len(plan) : longer[i] = plan[i]
             /\ longer[k + 2] = ProducerCut(plan[k + 1]) + 1
  <2>1. k + 1 <= Len(plan)
    BY <1>p DEF Follows
  <2> QED
    BY <1>s, <1>p, <2>1, PlanGrows
<1>7. \A q \in Members : Follows(q, longer)
  BY <1>t, <1>p, <1>6, LongerPlan
<1>8. /\ longer[k + 1] = lo /\ longer[k + 2] = hi + 1
  <2>1. lo = longer[k + 1] /\ lo = plan[k + 1]
    BY <1>p, <1>7 DEF Follows
  <2> QED
    BY <1>6, <2>1
<1> HIDE DEF hi
<1>9. IsPlan(longer)'
  BY <1>6 DEF IsPlan, ProducerCut, IsFull
<1>10. ASSUME NEW p, IsPlanned(p, longer) PROVE IsPlanned(p, longer)'
  BY <1>10 DEF IsPlanned, ProducerCut, IsFull
<1>11. ASSUME NEW q \in Members PROVE Follows(q, longer)'
  <2>1. CASE q # m
    <3>1. cpu'[q] = cpu[q] /\ stream'[q] = stream[q]
      BY <1>3, <2>1
    <3> QED
      BY <1>7, <1>10, <3>1 DEF Follows
  <2>2. CASE q = m
    <3>1. cpu'[m].enqueued + 1 <= Len(longer) /\ cpu'[m].next = longer[cpu'[m].enqueued + 1]
      <4>1. CASE work = <<>>
        <5>1. ~(lo <= hi)
          BY <1>1, <4>1
        <5>2. hi + 1 = lo
          BY <1>s, <1>h, <5>1
        <5>3. cpu'[m].next = lo /\ cpu'[m].enqueued = k
          BY <1>2, <1>3, <1>s, <4>1, <5>2
        <5> HIDE DEF k, lo
        <5> QED
          BY <1>6, <1>8, <1>s, <5>3
      <4>2. CASE work # <<>>
        <5>1. cpu'[m].next = hi + 1 /\ cpu'[m].enqueued = k + 1
          BY <1>2, <1>3, <4>2
        <5> HIDE DEF k, lo
        <5> QED
          BY <1>6, <1>8, <1>s, <5>1
      <4> QED
        BY <4>1, <4>2
    <3>2. ASSUME NEW d \in Buffers, NEW i \in 1 .. Len(stream'[m][d])
          PROVE  IsPlanned(stream'[m][d][i], longer)
      <4>1. CASE d = b
        <5>1. work[i].n = k + 1 /\ work[i].from = lo /\ work[i].to = hi
          BY <1>3, <1>w, <4>1
        <5>2. k + 1 <= Len(longer)
          BY <1>6, <1>s
        <5> QED
          BY <1>3, <1>8, <4>1, <5>1, <5>2 DEF IsPlanned, hi
      <4>2. CASE d # b
        BY <1>3, <1>7, <4>2 DEF Follows
      <4> QED
        BY <4>1, <4>2
    <3>3. ASSUME NEW d \in Buffers, NEW i \in 1 .. Len(stream'[m][d])
          PROVE  IsPlanned(stream[m][d][i], longer)'
      BY <3>2, <1>10 DEF IsPlanned, ProducerCut, IsFull
    <3> QED
      BY <2>2, <3>1, <3>3 DEF Follows
  <2> QED
    BY <2>1, <2>2
<1>12. (\A q \in Members : \A d \in Buffers : OnePacket(stream[q][d]))'
  BY <1>5 DEF Members, Buffers
<1> QED
  BY <1>4, <1>12, <1>6, <1>9, <1>11 DEF BroadcastInv

\* What is left of a stream was there before.
LEMMA LeftOver ==
    ASSUME BroadcastType, GPUsWork, NEW m \in Members, NEW b \in Buffers
    PROVE  /\ stream'[m][b] \in Seq(Packets)
           /\ \A i \in 1 .. Len(stream'[m][b]) :
                \E j \in 1 .. Len(stream[m][b]) :
                    stream'[m][b][i] = stream[m][b][j]
<1> DEFINE s == stream[m][b]
<1>1. s \in Seq(Packets)
  BY DEF BroadcastType
<1>2. stream'[m][b] = s \/ (s # <<>> /\ stream'[m][b] = Tail(s))
  BY DEF GPUsWork
<1> HIDE DEF s
<1>3. CASE stream'[m][b] = s
  BY <1>1, <1>3 DEF s
<1>4. CASE s # <<>> /\ stream'[m][b] = Tail(s)
  <2>1. /\ Tail(s) \in Seq(Packets) /\ Len(Tail(s)) = Len(s) - 1
        /\ \A i \in 1 .. Len(Tail(s)) : Tail(s)[i] = s[i + 1]
    BY <1>1, <1>4, HeadTailProperties
  <2>2. Len(s) \in Nat
    BY <1>1
  <2>3. ASSUME NEW i \in 1 .. Len(Tail(s))
        PROVE  \E j \in 1 .. Len(s) : Tail(s)[i] = s[j]
    <3>1. i + 1 \in 1 .. Len(s)
      BY <2>1, <2>2
    <3> QED
      BY <2>1, <3>1
  <2> QED
    BY <1>4, <2>1, <2>3 DEF s
<1> QED
  BY <1>2, <1>3, <1>4

LEMMA GPUsKeep ==
    ASSUME BroadcastInv, GPUStep, UNCHANGED tensors
    PROVE  BroadcastInv'
<1>t. BroadcastType
  BY DEF BroadcastInv
<1>g. GPUsWork
  BY <1>t, GPUsOnlyTake
<1>1. cpu' = cpu
  BY <1>g DEF GPUsWork
<1>2. BroadcastType'
  <2>1. \A m \in Members : \A b \in Buffers : stream'[m][b] \in Seq(Packets)
    BY <1>t, <1>g, LeftOver
  <2>2. stream' = [m \in Members |-> [b \in Buffers |-> stream'[m][b]]]
    BY <1>g DEF GPUsWork
  <2>3. stream' \in [Members -> [Buffers -> Seq(Packets)]]
    BY <2>1, <2>2
  <2> QED
    BY <1>t, <1>1, <2>3 DEF BroadcastType
<1>3. ASSUME NEW m \in Members, NEW b \in Buffers
      PROVE  OnePacket(stream'[m][b])
  <2>1. OnePacket(stream[m][b])
    BY DEF BroadcastInv
  <2>2. SUFFICES ASSUME NEW i \in 1 .. Len(stream'[m][b]),
                        NEW j \in 1 .. Len(stream'[m][b])
                 PROVE  stream'[m][b][i].n = stream'[m][b][j].n
    BY DEF OnePacket
  <2>3. PICK k \in 1 .. Len(stream[m][b]), l \in 1 .. Len(stream[m][b]) :
            /\ stream'[m][b][i] = stream[m][b][k]
            /\ stream'[m][b][j] = stream[m][b][l]
    BY <1>t, <1>g, LeftOver
  <2> QED
    BY <2>1, <2>3 DEF OnePacket
<1>p. PICK plan \in Seq(Nat) : IsPlan(plan) /\ \A q \in Members : Follows(q, plan)
  BY DEF BroadcastInv
<1>4. IsPlan(plan)'
  BY <1>p DEF IsPlan, ProducerCut, IsFull
<1>5. ASSUME NEW m \in Members PROVE Follows(m, plan)'
  <2>1. ASSUME NEW b \in Buffers, NEW i \in 1 .. Len(stream'[m][b])
        PROVE  IsPlanned(stream[m][b][i], plan)'
    <3>1. PICK j \in 1 .. Len(stream[m][b]) :
              stream'[m][b][i] = stream[m][b][j]
      BY <1>t, <1>g, LeftOver
    <3>2. IsPlanned(stream[m][b][j], plan)
      BY <1>p DEF Follows
    <3> QED
      BY <3>1, <3>2 DEF IsPlanned, ProducerCut, IsFull
  <2> QED
    BY <1>p, <1>1, <2>1 DEF Follows, Buffers
<1>6. (\A q \in Members : \A d \in Buffers : OnePacket(stream[q][d]))'
  BY <1>3 DEF Members, Buffers, OnePacket
<1> QED
  BY <1>2, <1>4, <1>5, <1>6 DEF BroadcastInv

LEMMA BroadcastKeeps ==
    ASSUME BroadcastInv, [RefitNext]_refitVars
    PROVE  BroadcastInv'
<1>1. CASE BroadcastWeights
  <2>1. BroadcastStep /\ UNCHANGED tensors
    BY <1>1 DEF BroadcastWeights, BroadcastStep
  <2>2. ASSUME NEW m \in Members, ProcessorStep(m) PROVE BroadcastInv'
    <3>1. BroadcastType
      BY DEF BroadcastInv
    <3>2. PICK b \in Buffers, pc \in {"run", "returned", "failed"} :
                 \E work : Goes(m, b, work, pc)
      BY <2>2, <3>1, ProcessorGoes
    <3>3. PICK work : Goes(m, b, work, pc)
      BY <3>2
    <3> QED
      BY <2>1, <3>3, ProcessorKeeps
  <2> QED
    BY <2>1, <2>2, GPUsKeep DEF BroadcastStep
<1>2. CASE UNCHANGED <<tensors, broadcastVars>>
  <2>1. tensors' = tensors /\ cpu' = cpu /\ stream' = stream
    BY <1>2 DEF broadcastVars
  <2>2. BroadcastType'
    BY <2>1 DEF BroadcastInv, BroadcastType
  <2>3. (\A q \in Members : \A d \in Buffers : OnePacket(stream[q][d]))'
    BY <2>1 DEF BroadcastInv
  <2>4. PICK plan \in Seq(Nat) : IsPlan(plan) /\ \A q \in Members : Follows(q, plan)
    BY DEF BroadcastInv
  <2>5. IsPlan(plan)'
    BY <2>1, <2>4 DEF IsPlan, ProducerCut, IsFull
  <2>6. ASSUME NEW q \in Members PROVE Follows(q, plan)'
    <3>1. ASSUME NEW p, IsPlanned(p, plan) PROVE IsPlanned(p, plan)'
      BY <2>1, <3>1 DEF IsPlanned, ProducerCut, IsFull
    <3>2. Follows(q, plan)
      BY <2>4
    <3> QED
      BY <2>1, <3>1, <3>2 DEF Follows
  <2> QED
    BY <2>2, <2>3, <2>5, <2>6 DEF BroadcastInv
<1>3. BroadcastWeights \/ UNCHANGED <<tensors, broadcastVars>>
  BY DEF RefitNext, StreamTo, StreamFrom, ControlStep, OffloadBefore,
      WakeWeights, StartBroadcast, TransferRaises, TransferEnds, OffloadAfter,
      WakeCache, TransferIdle, refitVars
<1> QED
  BY <1>1, <1>2, <1>3

LEMMA MembersMeet == BroadcastInv => SamePackets
<1> SUFFICES ASSUME BroadcastInv,
                    NEW m1 \in Members, NEW m2 \in Members,
                    NEW b1 \in Buffers, NEW b2 \in Buffers,
                    AtBroadcast(m1, b1), AtBroadcast(m2, b2)
             PROVE  Head(stream[m1][b1]) = Head(stream[m2][b2])
  BY DEF SamePackets
<1> DEFINE s1 == stream[m1][b1]
           s2 == stream[m2][b2]
<1>1. /\ s1 \in Seq(Packets) /\ s1 # <<>>
      /\ s2 \in Seq(Packets) /\ s2 # <<>>
  BY DEF BroadcastInv, BroadcastType, AtBroadcast
<1>2. PICK plan \in Seq(Nat) : \A q \in Members : Follows(q, plan)
  BY DEF BroadcastInv
<1>3. /\ Head(s1) = s1[1] /\ 1 \in 1 .. Len(s1) /\ Head(s1) \in Packets
      /\ Head(s2) = s2[1] /\ 1 \in 1 .. Len(s2) /\ Head(s2) \in Packets
  <2> HIDE DEF s1, s2
  <2> QED
    BY <1>1
<1>4. IsPlanned(Head(s1), plan) /\ IsPlanned(Head(s2), plan)
  BY <1>2, <1>3 DEF Follows
<1>5. /\ Head(s1).op = Head(s2).op /\ Head(s1).n = Head(s2).n
  BY DEF AtBroadcast
<1> HIDE DEF s1, s2
<1>6. Head(s1) = Head(s2)
  <2> DEFINE p1 == Head(s1)
             p2 == Head(s2)
  <2>1. p1.from = p2.from /\ p1.to = p2.to
    BY <1>4, <1>5 DEF IsPlanned
  <2>2. p1 \in Packets /\ p2 \in Packets
    BY <1>3
  <2> HIDE DEF p1, p2
  <2> QED
    BY <1>5, <2>1, <2>2 DEF Packets, p1, p2
<1> QED
  BY <1>6 DEF s1, s2

LEMMA MemoryHolds == BroadcastInv => MemoryBounded
<1> SUFFICES ASSUME BroadcastInv, NEW m \in Members
             PROVE  Cardinality(PacketsOf(m)) <= NumBuffers
  BY DEF MemoryBounded
<1> DEFINE Used == {b \in Buffers : stream[m][b] # <<>>}
           number == [b \in Used |-> stream[m][b][1].n]
<1>1. IsFiniteSet(Buffers) /\ Cardinality(Buffers) = NumBuffers
  <2>1. NumBuffers \in Nat \ {0}
    BY BroadcastAssumption
  <2>2. 0 \in Int /\ NumBuffers - 1 \in Int /\ ~(0 > NumBuffers - 1)
        /\ NumBuffers - 1 - 0 + 1 = NumBuffers
    BY <2>1
  <2> QED
    BY <2>2, FS_Interval DEF Buffers
<1>2. /\ IsFiniteSet(Used) /\ Cardinality(Used) <= NumBuffers
      /\ Cardinality(Used) \in Nat
  BY <1>1, FS_Subset, FS_CardinalityType
<1>3. ASSUME NEW b \in Buffers
      PROVE  \A i \in DOMAIN stream[m][b] :
                b \in Used /\ stream[m][b][i].n = number[b]
  <2>1. stream[m][b] \in Seq(Packets) /\ OnePacket(stream[m][b])
    BY DEF BroadcastInv, BroadcastType
  <2>2. ASSUME NEW i \in DOMAIN stream[m][b]
        PROVE  stream[m][b] # <<>> /\ stream[m][b][i].n = stream[m][b][1].n
    BY <2>1 DEF OnePacket
  <2> QED
    BY <2>2
<1>4. ASSUME NEW b \in Used
      PROVE  1 \in DOMAIN stream[m][b] /\ stream[m][b][1].n = number[b]
  <2>1. stream[m][b] \in Seq(Packets) /\ stream[m][b] # <<>>
    BY DEF BroadcastInv, BroadcastType
  <2> QED
    BY <2>1
<1>5. number \in Surjection(Used, PacketsOf(m))
  <2>1. ASSUME NEW b \in Used PROVE number[b] \in PacketsOf(m)
    <3>1. b \in Buffers
      OBVIOUS
    <3>2. number[b] \in {stream[m][b][i].n : i \in DOMAIN stream[m][b]}
      BY <1>4
    <3> HIDE DEF number, Used
    <3> QED
      BY <3>1, <3>2 DEF PacketsOf
  <2>2. \A n \in PacketsOf(m) : \E b \in Used : number[b] = n
    BY <1>3 DEF PacketsOf
  <2>3. number \in [Used -> PacketsOf(m)]
    BY <2>1, Zenon
  <2> HIDE DEF number
  <2> QED
    BY <2>2, <2>3 DEF Surjection
<1> HIDE DEF Used, number
<1>6. Cardinality(PacketsOf(m)) <= Cardinality(Used) /\ IsFiniteSet(PacketsOf(m))
  BY <1>2, <1>5, FS_Surjection
<1>7. Cardinality(PacketsOf(m)) \in Nat /\ NumBuffers \in Nat
  BY <1>6, FS_CardinalityType, BroadcastAssumption
<1> QED
  BY <1>2, <1>6, <1>7

\* The two sides of a packed broadcast cut the tensors at the same places,
\* whatever their processors and their GPUs are doing, and a processor never
\* runs further ahead of its GPU than its buffers reach
\* (packed_broadcast_producer and packed_broadcast_consumer).
THEOREM BroadcastsSafely == RefitSpec => []BroadcastSafe
<1>1. BroadcastInv => BroadcastSafe
  BY MembersMeet, MemoryHolds DEF BroadcastSafe
<1> QED
  BY <1>1, BroadcastStarts, BroadcastKeeps, PTL DEF RefitSpec

-----------------------------------------------------------------------------
(***************************************************************************)
(* The refit carries out a WeightTransfer.  First, the packed broadcast:   *)
(* a rank has loaded, or has work for its GPU to load, every tensor that   *)
(* its processor is through with, and none of them twice.  The streams are *)
(* not ordered among themselves, so the tensors are not loaded in order.   *)
(*                                                                         *)
(* Below, l is what a rank has loaded and s are its streams.               *)
(***************************************************************************)

Streams == [Buffers -> Seq(Packets)]

IsLoad(p) == p.op = "load"

Holds(p, x) == p.from <= x /\ x <= p.to

HasLoaded(l, x) == \E i \in 1 .. Len(l) : l[i] = x

\* The operation at place i of stream b loads tensor x.
LoadsAt(s, b, i, x) ==
    i \in 1 .. Len(s[b]) /\ IsLoad(s[b][i]) /\ Holds(s[b][i], x)

WillLoad(s, x) == \E b \in Buffers : \E i \in Nat : LoadsAt(s, b, i, x)

Injects(l) == \A i, j \in 1 .. Len(l) : l[i] = l[j] => i = j

NotTwice(l, s) ==
    \A b \in Buffers : \A i \in Nat : \A x \in Nat : LoadsAt(s, b, i, x) =>
        /\ ~HasLoaded(l, x)
        /\ \A c \in Buffers : \A j \in Nat :
               LoadsAt(s, c, j, x) => c = b /\ j = i

InRange(l, s, next) ==
    /\ \A i \in 1 .. Len(l) : l[i] \in 1 .. next - 1
    /\ \A b \in Buffers : \A i \in 1 .. Len(s[b]) : IsLoad(s[b][i]) =>
          1 <= s[b][i].from /\ s[b][i].from <= s[b][i].to /\ s[b][i].to < next

LeavesNoneOut(l, s, next) ==
    \A x \in 1 .. next - 1 : HasLoaded(l, x) \/ WillLoad(s, x)

LoadedType == loaded \in [Ranks -> Seq(Nat)]

LoadInv(r) ==
    /\ Injects(loaded[r])
    /\ NotTwice(loaded[r], stream[r])
    /\ InRange(loaded[r], stream[r], cpu[r].next)
    /\ cpu[r].pc # "failed" =>
           LeavesNoneOut(loaded[r], stream[r], cpu[r].next)
    /\ cpu[r].pc = "returned" => cpu[r].next = Len(tensors) + 1

LEMMA LoadStarts ==
    ASSUME RefitInit, NEW r \in Ranks
    PROVE  LoadInv(r)
<1>1. r \in Members
  BY SourceIsMember
<1>2. /\ loaded[r] = <<>> /\ \A b \in Buffers : stream[r][b] = <<>>
      /\ cpu[r].next = 1 /\ cpu[r].pc = "run"
  BY <1>1 DEF RefitInit, WeightsInit, BroadcastInit
<1>3. InRange(loaded[r], stream[r], 1) /\ Injects(loaded[r])
  BY <1>2 DEF InRange, Injects
<1>4. NotTwice(loaded[r], stream[r])
  BY <1>2 DEF NotTwice, LoadsAt
<1>5. LeavesNoneOut(loaded[r], stream[r], 1)
  BY DEF LeavesNoneOut
<1> QED
  BY <1>2, <1>3, <1>4, <1>5 DEF LoadInv

LEMMA OtherRanksLoads ==
    ASSUME NEW r, LoadInv(r), UNCHANGED <<tensors, loaded[r], stream[r], cpu[r]>>
    PROVE  LoadInv(r)'
  BY DEF LoadInv

\* Once the GPU has taken the first operation of stream c, what was at place i
\* of stream b is at the place before it, or where it was.
Was(b, c, i) == IF b = c THEN i + 1 ELSE i

Taken(s, t, c) ==
    /\ \A b \in Buffers : \A i \in 1 .. Len(t[b]) :
          /\ Was(b, c, i) \in 1 .. Len(s[b])
          /\ t[b][i] = s[b][Was(b, c, i)]
    /\ \A b \in Buffers : \A j \in 1 .. Len(s[b]) :
          \/ b = c /\ j = 1
          \/ \E i \in 1 .. Len(t[b]) : j = Was(b, c, i) /\ t[b][i] = s[b][j]
    /\ 1 \in 1 .. Len(s[c]) /\ Head(s[c]) = s[c][1] /\ s[c][1] \in Packets

LEMMA FirstTaken ==
    ASSUME NEW s \in Streams, NEW c \in Buffers, s[c] # <<>>
    PROVE  Taken(s, [s EXCEPT ![c] = Tail(s[c])], c)
<1> DEFINE q == s[c]
           t == [s EXCEPT ![c] = Tail(s[c])]
<1>1. s \in [Buffers -> Seq(Packets)] /\ q \in Seq(Packets) /\ q # <<>>
  BY DEF Streams
<1>2. t[c] = Tail(q) /\ \A b \in Buffers \ {c} : t[b] = s[b]
  BY <1>1
<1> HIDE DEF t, q
<1>3. /\ Tail(q) \in Seq(Packets) /\ Len(Tail(q)) = Len(q) - 1
      /\ \A i \in 1 .. Len(Tail(q)) : Tail(q)[i] = q[i + 1]
      /\ Len(q) \in Nat \ {0} /\ Head(q) = q[1] /\ q[1] \in Packets
  BY <1>1, HeadTailProperties
<1>4. ASSUME NEW b \in Buffers, NEW i \in 1 .. Len(t[b])
      PROVE  /\ Was(b, c, i) \in 1 .. Len(s[b])
             /\ t[b][i] = s[b][Was(b, c, i)]
  <2>1. CASE b = c
    <3>1. i \in 1 .. Len(Tail(q)) /\ Was(b, c, i) = i + 1
      BY <1>2, <2>1 DEF Was
    <3>2. Tail(q)[i] = q[i + 1] /\ i + 1 \in 1 .. Len(q)
      BY <1>3, <3>1
    <3>3. s[b] = q /\ t[b] = Tail(q)
      BY <1>2, <2>1 DEF q
    <3> QED
      BY <3>1, <3>2, <3>3
  <2>2. CASE b # c
    BY <1>2, <2>2 DEF Was
  <2> QED
    BY <2>1, <2>2
<1>5. ASSUME NEW b \in Buffers, NEW j \in 1 .. Len(s[b]), ~(b = c /\ j = 1)
      PROVE  \E i \in 1 .. Len(t[b]) : j = Was(b, c, i) /\ t[b][i] = s[b][j]
  <2>1. CASE b = c
    <3>0. j \in 1 .. Len(q) /\ j # 1
      BY <1>5, <2>1 DEF q
    <3>1. j - 1 \in 1 .. Len(Tail(q)) /\ j = Was(b, c, j - 1) /\ j - 1 + 1 = j
      BY <1>3, <2>1, <3>0 DEF Was
    <3>2. Tail(q)[j - 1] = q[j]
      BY <1>3, <3>1
    <3> QED
      BY <1>2, <2>1, <3>1, <3>2 DEF q
  <2>2. CASE b # c
    BY <1>2, <2>2 DEF Was
  <2> QED
    BY <2>1, <2>2
<1>6. 1 \in 1 .. Len(s[c]) /\ Head(s[c]) = s[c][1] /\ s[c][1] \in Packets
  BY <1>3 DEF q
<1>7. Taken(s, t, c)
  BY <1>4, <1>5, <1>6 DEF Taken
<1> QED
  BY <1>7 DEF t

LEMMA TakenLoads ==
    ASSUME NEW s \in Streams, NEW t, NEW c \in Buffers, Taken(s, t, c)
    PROVE  /\ \A b \in Buffers : \A i \in Nat : \A x :
                 LoadsAt(t, b, i, x) =>
                     /\ Was(b, c, i) \in Nat
                     /\ LoadsAt(s, b, Was(b, c, i), x)
                     /\ ~(b = c /\ Was(b, c, i) = 1)
           /\ \A b \in Buffers : \A j \in Nat : \A x :
                 LoadsAt(s, b, j, x) =>
                     \/ b = c /\ j = 1
                     \/ \E i \in Nat : LoadsAt(t, b, i, x)
<1>1. ASSUME NEW b \in Buffers, NEW i \in Nat, NEW x, LoadsAt(t, b, i, x)
      PROVE  /\ Was(b, c, i) \in Nat
             /\ LoadsAt(s, b, Was(b, c, i), x)
             /\ ~(b = c /\ Was(b, c, i) = 1)
  <2>1. i \in 1 .. Len(t[b])
    BY <1>1 DEF LoadsAt
  <2>2. Was(b, c, i) \in 1 .. Len(s[b]) /\ t[b][i] = s[b][Was(b, c, i)]
    BY <2>1 DEF Taken
  <2>3. Was(b, c, i) \in Nat /\ ~(b = c /\ Was(b, c, i) = 1)
    BY <2>1 DEF Was
  <2> QED
    BY <1>1, <2>2, <2>3 DEF LoadsAt
<1>2. ASSUME NEW b \in Buffers, NEW j \in Nat, NEW x, LoadsAt(s, b, j, x),
             ~(b = c /\ j = 1)
      PROVE  \E i \in Nat : LoadsAt(t, b, i, x)
  <2>1. j \in 1 .. Len(s[b])
    BY <1>2 DEF LoadsAt
  <2>2. PICK i \in 1 .. Len(t[b]) : t[b][i] = s[b][j]
    BY <1>2, <2>1 DEF Taken
  <2>3. i \in Nat
    OBVIOUS
  <2>4. LoadsAt(t, b, i, x)
    BY <1>2, <2>2 DEF LoadsAt
  <2> QED
    BY <2>3, <2>4
<1> QED
  BY <1>1, <1>2

LEMMA WasInjective ==
    ASSUME NEW b, NEW c, NEW i \in Nat, NEW j \in Nat,
           Was(b, c, i) = Was(b, c, j)
    PROVE  i = j
  BY DEF Was

LEMMA TakenInRange ==
    ASSUME NEW l, NEW s \in Streams, NEW t, NEW c \in Buffers, NEW next,
           Taken(s, t, c), InRange(l, s, next)
    PROVE  InRange(l, t, next)
<1>1. ASSUME NEW b \in Buffers, NEW i \in 1 .. Len(t[b]), IsLoad(t[b][i])
      PROVE  1 <= t[b][i].from /\ t[b][i].from <= t[b][i].to /\ t[b][i].to < next
  <2>1. Was(b, c, i) \in 1 .. Len(s[b]) /\ t[b][i] = s[b][Was(b, c, i)]
    BY DEF Taken
  <2> QED
    BY <1>1, <2>1 DEF InRange
<1> QED
  BY <1>1 DEF InRange

\* A broadcast that takes place takes no load away.
LEMMA BroadcastTaken ==
    ASSUME NEW l, NEW s \in Streams, NEW t, NEW c \in Buffers, NEW next,
           Taken(s, t, c), Head(s[c]).op = "broadcast"
    PROVE  /\ NotTwice(l, s) => NotTwice(l, t)
           /\ LeavesNoneOut(l, s, next) => LeavesNoneOut(l, t, next)
<1>1. \A x : ~LoadsAt(s, c, 1, x)
  BY DEF Taken, LoadsAt, IsLoad
<1>2. ASSUME NotTwice(l, s) PROVE NotTwice(l, t)
  <2> SUFFICES ASSUME NEW b \in Buffers, NEW i \in Nat, NEW x \in Nat,
                      LoadsAt(t, b, i, x)
               PROVE  /\ ~HasLoaded(l, x)
                      /\ \A d \in Buffers : \A j \in Nat :
                             LoadsAt(t, d, j, x) => d = b /\ j = i
    BY DEF NotTwice
  <2>1. LoadsAt(s, b, Was(b, c, i), x) /\ Was(b, c, i) \in Nat
    BY TakenLoads
  <2>2. ~HasLoaded(l, x)
    BY <1>2, <2>1 DEF NotTwice
  <2>3. ASSUME NEW d \in Buffers, NEW j \in Nat, LoadsAt(t, d, j, x)
        PROVE  d = b /\ j = i
    <3>1. LoadsAt(s, d, Was(d, c, j), x) /\ Was(d, c, j) \in Nat
      BY <2>3, TakenLoads
    <3>2. d = b /\ Was(d, c, j) = Was(b, c, i)
      BY <1>2, <2>1, <3>1 DEF NotTwice
    <3> QED
      BY <3>2, WasInjective
  <2> QED
    BY <2>2, <2>3
<1>3. ASSUME NEW x, WillLoad(s, x) PROVE WillLoad(t, x)
  <2>1. PICK b \in Buffers, j \in Nat : LoadsAt(s, b, j, x)
    BY <1>3 DEF WillLoad
  <2>2. ~(b = c /\ j = 1)
    BY <1>1, <2>1
  <2>3. \E i \in Nat : LoadsAt(t, b, i, x)
    BY <2>1, <2>2, TakenLoads
  <2> QED
    BY <2>3 DEF WillLoad
<1>4. LeavesNoneOut(l, s, next) => LeavesNoneOut(l, t, next)
  BY <1>3 DEF LeavesNoneOut
<1> QED
  BY <1>2, <1>4

\* The tensors of a packet, in order.
Tensors(p) == [i \in 1 .. p.to - p.from + 1 |-> p.from + i - 1]

LEMMA PacketTensors ==
    ASSUME NEW p \in Packets, 1 <= p.from, p.from <= p.to
    PROVE  /\ Tensors(p) \in Seq(Nat) /\ Tensors(p) # <<>>
           /\ Injects(Tensors(p))
           /\ \A x \in Nat : HasLoaded(Tensors(p), x) <=> Holds(p, x)
           /\ \A i \in 1 .. Len(Tensors(p)) : Holds(p, Tensors(p)[i])
<1> DEFINE n == p.to - p.from + 1
           q == Tensors(p)
<1>1. p.from \in Nat /\ p.to \in Nat /\ n \in Nat \ {0}
  BY DEF Packets
<1>2. /\ q \in Seq(Nat) /\ Len(q) = n
      /\ \A i \in 1 .. n : q[i] = p.from + i - 1
  <2>1. \A i \in 1 .. n : p.from + i - 1 \in Nat
    BY <1>1
  <2> QED
    BY <1>1, <2>1 DEF Tensors
<1> HIDE DEF q
<1>3. ASSUME NEW x \in Nat PROVE HasLoaded(q, x) <=> Holds(p, x)
  <2>1. ASSUME Holds(p, x) PROVE HasLoaded(q, x)
    <3>1. x - p.from + 1 \in 1 .. n
      BY <1>1, <2>1 DEF Holds
    <3>2. q[x - p.from + 1] = x
      BY <1>1, <1>2, <3>1
    <3> QED
      BY <1>2, <3>1, <3>2 DEF HasLoaded
  <2>2. ASSUME HasLoaded(q, x) PROVE Holds(p, x)
    <3>1. PICK i \in 1 .. n : p.from + i - 1 = x
      BY <1>2, <2>2 DEF HasLoaded
    <3> QED
      BY <1>1, <3>1 DEF Holds
  <2> QED
    BY <2>1, <2>2
<1>4. \A i \in 1 .. Len(q) : Holds(p, q[i])
  <2>1. ASSUME NEW i \in 1 .. n PROVE Holds(p, q[i])
    <3>1. q[i] = p.from + i - 1
      BY <1>2
    <3> QED
      BY <1>1, <3>1 DEF Holds
  <2> QED
    BY <1>2, <2>1
<1>5. Injects(q) /\ q # <<>>
  BY <1>1, <1>2 DEF Injects
<1> QED
  BY <1>2, <1>3, <1>4, <1>5 DEF q

\* Loading q after l.
LEMMA LoadedAfter ==
    ASSUME NEW l \in Seq(Nat), NEW q \in Seq(Nat)
    PROVE  /\ l \o q \in Seq(Nat)
           /\ \A x : HasLoaded(l \o q, x) <=> HasLoaded(l, x) \/ HasLoaded(q, x)
           /\ Injects(l) /\ Injects(q)
                 /\ (\A i \in 1 .. Len(q) : ~HasLoaded(l, q[i])) => Injects(l \o q)
<1> DEFINE both == l \o q
<1>1. /\ both \in Seq(Nat) /\ Len(both) = Len(l) + Len(q)
      /\ Len(l) \in Nat /\ Len(q) \in Nat
      /\ \A i \in 1 .. Len(both) :
             both[i] = IF i <= Len(l) THEN l[i] ELSE q[i - Len(l)]
  BY ConcatProperties
<1> HIDE DEF both
<1>2. /\ \A i \in 1 .. Len(l) : i \in 1 .. Len(both) /\ both[i] = l[i]
      /\ \A i \in 1 .. Len(q) :
            Len(l) + i \in 1 .. Len(both) /\ both[Len(l) + i] = q[i]
      /\ \A i \in 1 .. Len(both) :
            \/ i \in 1 .. Len(l) /\ both[i] = l[i]
            \/ i - Len(l) \in 1 .. Len(q) /\ both[i] = q[i - Len(l)]
  <2>1. \A i \in 1 .. Len(l) : i \in 1 .. Len(both) /\ both[i] = l[i]
    BY <1>1
  <2>2. ASSUME NEW i \in 1 .. Len(q)
        PROVE  Len(l) + i \in 1 .. Len(both) /\ both[Len(l) + i] = q[i]
    <3>1. Len(l) + i \in 1 .. Len(both) /\ ~(Len(l) + i <= Len(l))
          /\ Len(l) + i - Len(l) = i
      BY <1>1
    <3> QED
      BY <1>1, <3>1
  <2>3. ASSUME NEW i \in 1 .. Len(both)
        PROVE  \/ i \in 1 .. Len(l) /\ both[i] = l[i]
               \/ i - Len(l) \in 1 .. Len(q) /\ both[i] = q[i - Len(l)]
    BY <1>1
  <2> QED
    BY <2>1, <2>2, <2>3
<1>3. ASSUME NEW x
      PROVE  HasLoaded(both, x) <=> HasLoaded(l, x) \/ HasLoaded(q, x)
  BY <1>2 DEF HasLoaded
<1>4. ASSUME Injects(l), Injects(q), \A i \in 1 .. Len(q) : ~HasLoaded(l, q[i])
      PROVE  Injects(both)
  <2> SUFFICES ASSUME NEW i \in 1 .. Len(both), NEW j \in 1 .. Len(both),
                      both[i] = both[j]
               PROVE  i = j
    BY DEF Injects
  <2>1. CASE i \in 1 .. Len(l) /\ j \in 1 .. Len(l)
    BY <1>2, <1>4, <2>1 DEF Injects
  <2>2. CASE i \notin 1 .. Len(l) /\ j \notin 1 .. Len(l)
    <3>1. i - Len(l) \in 1 .. Len(q) /\ j - Len(l) \in 1 .. Len(q)
          /\ q[i - Len(l)] = q[j - Len(l)]
      BY <1>2, <2>2
    <3>2. i - Len(l) = j - Len(l)
      BY <1>4, <3>1 DEF Injects
    <3> QED
      BY <1>1, <3>2
  <2>3. CASE i \in 1 .. Len(l) /\ j \notin 1 .. Len(l)
    <3>1. j - Len(l) \in 1 .. Len(q) /\ l[i] = q[j - Len(l)]
      BY <1>2, <2>3
    <3> QED
      BY <1>4, <2>3, <3>1 DEF HasLoaded
  <2>4. CASE i \notin 1 .. Len(l) /\ j \in 1 .. Len(l)
    <3>1. i - Len(l) \in 1 .. Len(q) /\ l[j] = q[i - Len(l)]
      BY <1>2, <2>4
    <3> QED
      BY <1>4, <2>4, <3>1 DEF HasLoaded
  <2> QED
    BY <2>1, <2>2, <2>3, <2>4
<1> QED
  BY <1>1, <1>3, <1>4 DEF both

\* The load at the head of a stream takes place.
LEMMA LoadTaken ==
    ASSUME NEW l \in Seq(Nat), NEW s \in Streams, NEW t, NEW c \in Buffers,
           NEW next \in Nat,
           Taken(s, t, c), IsLoad(Head(s[c])),
           Injects(l), NotTwice(l, s), InRange(l, s, next)
    PROVE  LET k == l \o Tensors(Head(s[c]))
           IN  /\ k \in Seq(Nat) /\ Tensors(Head(s[c])) \in Seq(Nat)
               /\ Tensors(Head(s[c])) # <<>>
               /\ Injects(k) /\ NotTwice(k, t) /\ InRange(k, t, next)
               /\ LeavesNoneOut(l, s, next) => LeavesNoneOut(k, t, next)
<1> DEFINE p == Head(s[c])
           q == Tensors(p)
           k == l \o q
<1>1. p \in Packets /\ p = s[c][1] /\ 1 \in 1 .. Len(s[c])
  BY DEF Taken
<1>2. 1 <= p.from /\ p.from <= p.to /\ p.to < next
  BY <1>1 DEF InRange
<1>3. \A x : LoadsAt(s, c, 1, x) <=> Holds(p, x)
  BY <1>1 DEF LoadsAt
<1>4. /\ q \in Seq(Nat) /\ q # <<>> /\ Injects(q)
      /\ \A x \in Nat : HasLoaded(q, x) <=> Holds(p, x)
      /\ \A i \in 1 .. Len(q) : Holds(p, q[i])
  BY <1>1, <1>2, PacketTensors
<1> HIDE DEF p, q
<1>5. /\ k \in Seq(Nat)
      /\ \A x : HasLoaded(k, x) <=> HasLoaded(l, x) \/ HasLoaded(q, x)
  BY <1>4, LoadedAfter
<1>6. \A x \in Nat : Holds(p, x) => ~HasLoaded(l, x)
  BY <1>3 DEF NotTwice
<1>7. Injects(k)
  <2>1. \A i \in 1 .. Len(q) : ~HasLoaded(l, q[i])
    <3>1. \A i \in 1 .. Len(q) : q[i] \in Nat
      BY <1>4
    <3> QED
      BY <1>4, <1>6, <3>1
  <2> QED
    BY <1>4, <2>1, LoadedAfter
<1> HIDE DEF k
<1>8. NotTwice(k, t)
  <2> SUFFICES ASSUME NEW b \in Buffers, NEW i \in Nat, NEW x \in Nat,
                      LoadsAt(t, b, i, x)
               PROVE  /\ ~HasLoaded(k, x)
                      /\ \A d \in Buffers : \A j \in Nat :
                             LoadsAt(t, d, j, x) => d = b /\ j = i
    BY DEF NotTwice
  <2>1. /\ LoadsAt(s, b, Was(b, c, i), x) /\ Was(b, c, i) \in Nat
        /\ ~(b = c /\ Was(b, c, i) = 1)
    BY TakenLoads
  <2>2. ~HasLoaded(l, x)
    BY <2>1 DEF NotTwice
  <2>3. ~Holds(p, x)
    <3>1. ~LoadsAt(s, c, 1, x)
      <4>1. 1 \in Nat
        OBVIOUS
      <4> QED
        BY <2>1, <4>1 DEF NotTwice
    <3> QED
      BY <1>3, <3>1
  <2>4. ASSUME NEW d \in Buffers, NEW j \in Nat, LoadsAt(t, d, j, x)
        PROVE  d = b /\ j = i
    <3>1. LoadsAt(s, d, Was(d, c, j), x) /\ Was(d, c, j) \in Nat
      BY <2>4, TakenLoads
    <3>2. d = b /\ Was(d, c, j) = Was(b, c, i)
      BY <2>1, <3>1 DEF NotTwice
    <3> QED
      BY <3>2, WasInjective
  <2> QED
    BY <1>4, <1>5, <2>2, <2>3, <2>4
<1>9. InRange(k, t, next)
  <2>1. InRange(l, t, next)
    BY TakenInRange
  <2>2. ASSUME NEW i \in 1 .. Len(k) PROVE k[i] \in 1 .. next - 1
    <3>1. HasLoaded(k, k[i]) /\ k[i] \in Nat
      BY <1>5 DEF HasLoaded
    <3>2. CASE HasLoaded(l, k[i])
      BY <3>2 DEF HasLoaded, InRange
    <3>3. CASE HasLoaded(q, k[i])
      <4>1. Holds(p, k[i])
        BY <1>4, <3>1, <3>3
      <4>2. p.from \in Nat /\ p.to \in Nat
        BY <1>1 DEF Packets
      <4> QED
        BY <1>2, <3>1, <4>1, <4>2 DEF Holds
    <3> QED
      BY <1>5, <3>1, <3>2, <3>3
  <2> QED
    BY <2>1, <2>2 DEF InRange
<1>10. ASSUME LeavesNoneOut(l, s, next) PROVE LeavesNoneOut(k, t, next)
  <2> SUFFICES ASSUME NEW x \in 1 .. next - 1
               PROVE  HasLoaded(k, x) \/ WillLoad(t, x)
    BY DEF LeavesNoneOut
  <2>1. CASE HasLoaded(l, x)
    BY <1>5, <2>1
  <2>2. CASE WillLoad(s, x)
    <3>1. PICK b \in Buffers, j \in Nat : LoadsAt(s, b, j, x)
      BY <2>2 DEF WillLoad
    <3>2. CASE b = c /\ j = 1
      BY <1>3, <1>4, <1>5, <3>1, <3>2
    <3>3. CASE ~(b = c /\ j = 1)
      <4>1. \E i \in Nat : LoadsAt(t, b, i, x)
        BY <3>1, <3>3, TakenLoads
      <4> QED
        BY <4>1 DEF WillLoad
    <3> QED
      BY <3>2, <3>3
  <2> QED
    BY <1>10, <2>1, <2>2 DEF LeavesNoneOut
<1> QED
  BY <1>4, <1>5, <1>7, <1>8, <1>9, <1>10 DEF k, q, p

\* The processor goes on: all that it enqueues comes after what it enqueued.
LEMMA LoadsEnqueued ==
    ASSUME NEW l, NEW s \in Streams, NEW c \in Buffers, s[c] = <<>>,
           NEW lo \in Nat \ {0}, NEW hi \in Nat, NEW n, NEW work,
           work = <<>> \/ work \in Work(n, lo, hi), work # <<>> <=> lo <= hi,
           lo > hi => hi + 1 = lo,
           NotTwice(l, s), InRange(l, s, lo)
    PROVE  LET t == [s EXCEPT ![c] = work]
           IN  /\ NotTwice(l, t) /\ InRange(l, t, hi + 1)
               /\ LeavesNoneOut(l, s, lo)
                  /\ (work # <<>> =>
                         work = <<Broadcast(n, lo, hi), LoadPacket(n, lo, hi)>>)
                      => LeavesNoneOut(l, t, hi + 1)
<1> DEFINE t == [s EXCEPT ![c] = work]
           B == Broadcast(n, lo, hi)
           L == LoadPacket(n, lo, hi)
<1>1. /\ t[c] = work /\ \A b \in Buffers \ {c} : t[b] = s[b]
  BY DEF Streams
<1> HIDE DEF t
<1>2. /\ B.op = "broadcast" /\ L.op = "load" /\ L.from = lo /\ L.to = hi
  BY DEF Broadcast, LoadPacket
<1>3. work \in {<<>>, <<B>>, <<B, L>>}
  BY DEF Work
<1> HIDE DEF B, L
<1>4. \A i \in 1 .. Len(work) : IsLoad(work[i]) =>
          /\ work = <<B, L>> /\ i = 2 /\ work[i] = L
  <2>1. CASE work = <<>>
    BY <2>1
  <2>2. CASE work = <<B>>
    BY <1>2, <2>2 DEF IsLoad
  <2>3. CASE work = <<B, L>>
    BY <1>2, <2>3 DEF IsLoad
  <2> QED
    BY <1>3, <2>1, <2>2, <2>3
<1>5. \A i, x : ~LoadsAt(s, c, i, x)
  BY DEF LoadsAt
<1>6. \A i, x : LoadsAt(t, c, i, x) => i = 2 /\ lo <= x /\ x <= hi
  BY <1>1, <1>2, <1>4 DEF LoadsAt, Holds
<1>7. \A b \in Buffers \ {c} : \A i, x : LoadsAt(t, b, i, x) <=> LoadsAt(s, b, i, x)
  BY <1>1 DEF LoadsAt
<1>8. \A x : HasLoaded(l, x) => x \in 1 .. lo - 1
  BY DEF HasLoaded, InRange
<1>9. \A b \in Buffers : \A i \in Nat : \A x \in Nat :
          LoadsAt(s, b, i, x) => x < lo
  <2> SUFFICES ASSUME NEW b \in Buffers, NEW i \in Nat, NEW x \in Nat,
                      LoadsAt(s, b, i, x)
               PROVE  x < lo
    OBVIOUS
  <2>1. i \in 1 .. Len(s[b]) /\ IsLoad(s[b][i]) /\ Holds(s[b][i], x)
    BY DEF LoadsAt
  <2>2. s[b][i].to < lo /\ x <= s[b][i].to
    BY <2>1 DEF InRange, Holds
  <2>3. s[b][i].to \in Nat
    <3>1. s[b] \in Seq(Packets)
      BY DEF Streams
    <3>2. s[b][i] \in Packets
      BY <2>1, <3>1
    <3> QED
      BY <3>2 DEF Packets
  <2> QED
    BY <2>2, <2>3
<1>10. NotTwice(l, t)
  <2> SUFFICES ASSUME NEW b \in Buffers, NEW i \in Nat, NEW x \in Nat,
                      LoadsAt(t, b, i, x)
               PROVE  /\ ~HasLoaded(l, x)
                      /\ \A d \in Buffers : \A j \in Nat :
                             LoadsAt(t, d, j, x) => d = b /\ j = i
    BY DEF NotTwice
  <2>1. CASE b = c
    <3>1. i = 2 /\ lo <= x
      BY <1>6, <2>1
    <3>2. ~HasLoaded(l, x)
      BY <1>8, <3>1
    <3>3. ASSUME NEW d \in Buffers, NEW j \in Nat, LoadsAt(t, d, j, x)
          PROVE  d = b /\ j = i
      <4>1. CASE d = c
        BY <1>6, <2>1, <3>1, <3>3, <4>1
      <4>2. CASE d # c
        <5>1. LoadsAt(s, d, j, x)
          BY <1>7, <3>3, <4>2
        <5> QED
          BY <1>9, <3>1, <5>1
      <4> QED
        BY <4>1, <4>2
    <3> QED
      BY <3>2, <3>3
  <2>2. CASE b # c
    <3>1. LoadsAt(s, b, i, x)
      BY <1>7, <2>2
    <3>2. ~HasLoaded(l, x)
      BY <3>1 DEF NotTwice
    <3>3. ASSUME NEW d \in Buffers, NEW j \in Nat, LoadsAt(t, d, j, x)
          PROVE  d = b /\ j = i
      <4>1. CASE d = c
        BY <1>6, <1>9, <3>1, <3>3, <4>1
      <4>2. CASE d # c
        <5>1. LoadsAt(s, d, j, x)
          BY <1>7, <3>3, <4>2
        <5> QED
          BY <3>1, <5>1 DEF NotTwice
      <4> QED
        BY <4>1, <4>2
    <3> QED
      BY <3>2, <3>3
  <2> QED
    BY <2>1, <2>2
<1>11. InRange(l, t, hi + 1)
  <2>0. lo <= hi + 1
    OBVIOUS
  <2>1. \A i \in 1 .. Len(l) : l[i] \in 1 .. hi + 1 - 1
    BY <2>0 DEF InRange
  <2>2. ASSUME NEW b \in Buffers, NEW i \in 1 .. Len(t[b]), IsLoad(t[b][i])
        PROVE  /\ 1 <= t[b][i].from /\ t[b][i].from <= t[b][i].to
               /\ t[b][i].to < hi + 1
    <3>1. CASE b = c
      <4>1. t[b][i] = L /\ work # <<>>
        BY <1>1, <1>4, <2>2, <3>1
      <4> QED
        BY <1>2, <4>1
    <3>2. CASE b # c
      <4>0. t[b] = s[b]
        BY <1>1, <3>2
      <4>1. /\ 1 <= t[b][i].from /\ t[b][i].from <= t[b][i].to
            /\ t[b][i].to < lo
        BY <2>2, <4>0 DEF InRange
      <4>2. t[b][i].to \in Nat
        <5>1. s[b] \in Seq(Packets)
          BY DEF Streams
        <5>2. t[b][i] \in Packets
          BY <2>2, <4>0, <5>1
        <5> QED
          BY <5>2 DEF Packets
      <4> QED
        BY <2>0, <4>1, <4>2
    <3> QED
      BY <3>1, <3>2
  <2> QED
    BY <2>1, <2>2 DEF InRange
<1>12. ASSUME LeavesNoneOut(l, s, lo), work # <<>> => work = <<B, L>>
       PROVE  LeavesNoneOut(l, t, hi + 1)
  <2> SUFFICES ASSUME NEW x \in 1 .. hi + 1 - 1
               PROVE  HasLoaded(l, x) \/ WillLoad(t, x)
    BY DEF LeavesNoneOut
  <2>1. CASE x < lo
    <3>1. HasLoaded(l, x) \/ WillLoad(s, x)
      BY <1>12, <2>1 DEF LeavesNoneOut
    <3>2. ASSUME WillLoad(s, x) PROVE WillLoad(t, x)
      <4>1. PICK b \in Buffers, j \in Nat : LoadsAt(s, b, j, x)
        BY <3>2 DEF WillLoad
      <4>2. b # c
        BY <1>5, <4>1
      <4> QED
        BY <1>7, <4>1, <4>2 DEF WillLoad
    <3> QED
      BY <3>1, <3>2
  <2>2. CASE ~(x < lo)
    <3>1. lo <= x /\ x <= hi
      BY <2>2
    <3>2. work = <<B, L>>
      BY <1>12, <3>1
    <3>3. Len(work) = 2 /\ work[2] = L
      BY <3>2
    <3>4. LoadsAt(t, c, 2, x)
      BY <1>1, <1>2, <3>1, <3>3 DEF LoadsAt, IsLoad, Holds
    <3> QED
      BY <3>4 DEF WillLoad
  <2> QED
    BY <2>1, <2>2
<1> QED
  BY <1>10, <1>11, <1>12 DEF t, B, L

(***************************************************************************)
(* Streaming: what a rank has loaded, the group under way to it and the    *)
(* group being packed are, one after the other, the tensors that the       *)
(* sender is through with.                                                 *)
(***************************************************************************)

\* s counts on from k.
Counts(s, k) == \A i \in 1 .. Len(s) : s[i] = k + i

UnderWay(k, v) ==
    IF k.kind = "group" THEN k.names
    ELSE IF v.pc = "load" THEN v.payload.names ELSE <<>>

InTurn(l, w, s) ==
    /\ Counts(w, Len(l)) /\ Counts(s.names, Len(l) + Len(w))
    /\ s.next = Len(l) + Len(w) + Len(s.names) + 1

\* Groups are not empty, and the engine is told that the transfer is complete
\* when it has loaded everything.
TurnsInv(r) ==
    /\ socket[r].kind = "group" => socket[r].names # <<>>
    /\ receiver[r].pc = "load" => receiver[r].payload.names # <<>>
    /\ Counts(loaded[r], 0) /\ Len(loaded[r]) <= Len(tensors)
    /\ sender[r].next <= Len(tensors) + 1
    /\ receiver[r].pc # "failed" =>
         /\ InTurn(loaded[r], UnderWay(socket[r], receiver[r]), sender[r])
         /\ socket[r] = Complete
            \/ receiver[r].pc \in {"process", "finish", "returned"}
                => Len(loaded[r]) = Len(tensors)

LEMMA TurnsStart ==
    ASSUME RefitInit, NEW r \in Ranks
    PROVE  TurnsInv(r)
<1>1. /\ loaded[r] = <<>> /\ socket[r] = None
      /\ receiver[r].pc = "receive" /\ sender[r].next = 1
      /\ sender[r].names = <<>>
  BY DEF RefitInit, WeightsInit, IPCInit
<1>2. tensors \in Seq(Nat \ {0})
  BY WeightsAssumption DEF RefitInit, WeightsInit
<1>3. UnderWay(socket[r], receiver[r]) = <<>>
  BY <1>1, KindsDiffer DEF UnderWay
<1>4. InTurn(<<>>, <<>>, sender[r])
  BY <1>1 DEF InTurn, Counts
<1>5. Counts(<<>>, 0) /\ Len(<<>>) = 0 /\ Len(tensors) \in Nat
  BY <1>2 DEF Counts
<1> QED
  BY <1>1, <1>3, <1>4, <1>5, KindsDiffer DEF TurnsInv

LEMMA OtherRanksTurns ==
    ASSUME NEW r, TurnsInv(r),
           UNCHANGED <<tensors, loaded[r], sender[r], socket[r], receiver[r]>>
    PROVE  TurnsInv(r)'
  BY DEF TurnsInv

LEMMA CountsOn ==
    ASSUME NEW l \in Seq(Nat), NEW q \in Seq(Nat), NEW k \in Nat,
           Counts(l, k), Counts(q, k + Len(l))
    PROVE  Counts(l \o q, k) /\ Len(l \o q) = Len(l) + Len(q)
<1>1. /\ l \o q \in Seq(Nat) /\ Len(l \o q) = Len(l) + Len(q)
      /\ \A i \in 1 .. Len(l) + Len(q) :
            (l \o q)[i] = IF i <= Len(l) THEN l[i] ELSE q[i - Len(l)]
      /\ Len(l) \in Nat /\ Len(q) \in Nat
  BY ConcatProperties
<1>2. ASSUME NEW i \in 1 .. Len(l) + Len(q) PROVE (l \o q)[i] = k + i
  <2>1. CASE i <= Len(l)
    BY <1>1, <2>1 DEF Counts
  <2>2. CASE ~(i <= Len(l))
    <3>1. i - Len(l) \in 1 .. Len(q) /\ (l \o q)[i] = q[i - Len(l)]
      BY <1>1, <2>2
    <3>2. q[i - Len(l)] = k + Len(l) + (i - Len(l))
      BY <3>1 DEF Counts
    <3> QED
      BY <1>1, <3>1, <3>2
  <2> QED
    BY <2>1, <2>2
<1> QED
  BY <1>1, <1>2 DEF Counts

LEMMA PackOne ==
    ASSUME NEW q \in Seq(Nat), NEW k \in Nat, Counts(q, k)
    PROVE  Counts(Append(q, k + Len(q) + 1), k)
<1> DEFINE x == k + Len(q) + 1
           t == Append(q, x)
<1>1. Len(q) \in Nat /\ x \in Nat
  OBVIOUS
<1>2. x = k + (Len(q) + 1)
  BY <1>1
<1> HIDE DEF x
<1>3. /\ Len(t) = Len(q) + 1 /\ t[Len(q) + 1] = x
      /\ \A i \in 1 .. Len(q) : t[i] = q[i]
  BY <1>1
<1> HIDE DEF t
<1>4. ASSUME NEW i \in 1 .. Len(t) PROVE t[i] = k + i
  <2>1. CASE i = Len(q) + 1
    BY <1>2, <1>3, <2>1
  <2>2. CASE i # Len(q) + 1
    <3>1. i \in 1 .. Len(q)
      BY <1>1, <1>3, <2>2
    <3> QED
      BY <1>3, <3>1 DEF Counts
  <2> QED
    BY <2>1, <2>2
<1> QED
  BY <1>4 DEF Counts, t, x

LEMMA TurnPacks ==
    ASSUME NEW l \in Seq(Nat), NEW w \in Seq(Nat), NEW s, NEW t,
           s.names \in Seq(Nat), InTurn(l, w, s),
           t.names = Append(s.names, s.next), t.next = s.next + 1
    PROVE  InTurn(l, w, t)
<1> DEFINE k == Len(l) + Len(w)
           q == s.names
<1>1. k \in Nat /\ q \in Seq(Nat) /\ Counts(q, k) /\ s.next = k + Len(q) + 1
  BY DEF InTurn
<1> HIDE DEF k
<1>2. Counts(t.names, k)
  BY <1>1, PackOne
<1>3. Len(t.names) = Len(q) + 1 /\ Len(q) \in Nat
  <2>1. s.next \in Nat
    BY <1>1
  <2> QED
    BY <1>1, <2>1
<1>4. t.next = k + Len(t.names) + 1
  BY <1>1, <1>3
<1> QED
  BY <1>2, <1>4 DEF InTurn, k

LEMMA TurnSends ==
    ASSUME NEW l \in Seq(Nat), NEW s, NEW t, s.names \in Seq(Nat),
           InTurn(l, <<>>, s), t.names = <<>>, t.next = s.next
    PROVE  InTurn(l, s.names, t)
<1> DEFINE q == s.names
<1>1. Len(<<>>) = 0 /\ Len(l) \in Nat /\ Len(q) \in Nat
  OBVIOUS
<1>2. Counts(q, Len(l) + 0) /\ s.next = Len(l) + 0 + Len(q) + 1
  BY <1>1 DEF InTurn
<1>3. Counts(<<>>, Len(l) + Len(q))
  BY DEF Counts
<1>4. Len(l) + 0 = Len(l) /\ t.next = Len(l) + Len(q) + 0 + 1
  BY <1>1, <1>2
<1> HIDE DEF q
<1>5. Counts(q, Len(l))
  BY <1>2, <1>4
<1>6. Len(t.names) = 0
  BY <1>1
<1>7. Counts(t.names, Len(l) + Len(q))
  BY <1>3
<1> QED
  BY <1>4, <1>5, <1>6, <1>7 DEF InTurn, q

\* The sender: it packs the next tensor, or sends what it has packed.
LEMMA SenderTurns ==
    ASSUME StreamInv, LoadedType, NEW r \in Ranks, TurnsInv(r), SenderStep(r),
           UNCHANGED <<tensors, bufferSize>>
    PROVE  TurnsInv(r)'
<1> DEFINE s == sender[r]
           v == receiver[r]
           w == UnderWay(socket[r], v)
           l == loaded[r]
<1>t. StreamType /\ RankInv(r)
  BY DEF StreamInv
<1>s. /\ s \in SenderStates /\ socket[r] \in Messages /\ v \in ReceiverStates
      /\ s.names \in Seq(Nat) /\ s.next \in Nat /\ l \in Seq(Nat)
      /\ tensors \in Seq(Nat \ {0})
  BY <1>t DEF StreamType, SenderStates, LoadedType
<1>w. w \in Seq(Nat)
  <2>1. \A m \in Messages : m.kind = "group" => m.names \in Seq(Nat)
    BY KindsDiffer DEF GroupMessages
  <2>2. v.pc = "load" => v.payload.kind = "group" /\ v.payload \in Messages
    BY <1>t, <1>s DEF RankInv, TurnInv, ReceiverStates
  <2> QED
    BY <1>s, <2>1, <2>2 DEF UnderWay
<1>0. loaded'[r] = l /\ receiver'[r] = v
  BY DEF SenderStep, PackTensor, RejectTensor, SendGroup, SendComplete,
         EndSending, SenderTimesOut
<1>q. ASSUME SendGroup(r) \/ SendComplete(r)
      PROVE  /\ v.pc \notin {"load", "answer", "process"}
             /\ socket[r] \in {None, Answer}
             /\ ~(s.awaitRecv /\ socket[r] # Answer)
  <2>1. s.awaitRecv => socket[r] = Answer
    BY <1>q DEF SendGroup, SendComplete, MaySend
  <2>2. Answer # None
    BY DEF Answer, None
  <2> QED
    BY <1>t, <2>1, <2>2 DEF RankInv, TurnInv
<1>1. CASE PackTensor(r)
  <2> DEFINE names == Append(s.names, s.next)
             t == sender'[r]
  <2>1. /\ t.next = s.next + 1 /\ t.names = names
        /\ s.next <= Len(tensors) /\ socket'[r] = socket[r]
    BY <1>1, <1>t, <1>s DEF PackTensor, StreamType, MoreTensors, SenderStates
  <2>3. s.next + 1 <= Len(tensors) + 1
    BY <1>s, <2>1
  <2>4. ASSUME InTurn(l, w, s) PROVE InTurn(l, w, t)
    BY <1>s, <1>w, <2>1, <2>4, TurnPacks
  <2> HIDE DEF names, t
  <2>5. UnderWay(socket[r], receiver[r])' = w
    BY <1>0, <2>1 DEF UnderWay, t
  <2> HIDE DEF w
  <2>6. v.pc # "failed" => InTurn(l, w, t)
    BY <2>4 DEF TurnsInv, w
  <2> QED
    BY <1>0, <2>1, <2>3, <2>5, <2>6 DEF TurnsInv, t
<1>2. CASE RejectTensor(r) \/ SenderTimesOut(r) \/ EndSending(r)
  <2>1. /\ sender'[r].next = s.next /\ sender'[r].names = s.names
        /\ socket'[r] = socket[r] \/ (socket[r] = Answer /\ socket'[r] = None)
    <3>1. CASE RejectTensor(r) \/ SenderTimesOut(r)
      <4>1. sender' = [sender EXCEPT ![r] = [s EXCEPT !.pc = "raised"]]
            /\ socket' = socket
        BY <3>1, <1>t DEF RejectTensor, SenderTimesOut, StreamType
      <4> QED
        BY <1>t, <1>s, <4>1 DEF StreamType, SenderStates
    <3>2. CASE EndSending(r)
      <4>1. /\ sender' = [sender EXCEPT ![r] =
                    [s EXCEPT !.pc = "returned", !.awaitRecv = FALSE]]
            /\ socket' = [socket EXCEPT ![r] = None] /\ socket[r] = Answer
        BY <3>2, <1>t DEF EndSending, StreamType
      <4> QED
        BY <1>t, <1>s, <4>1 DEF StreamType, SenderStates
    <3> QED
      BY <1>2, <3>1, <3>2
  <2>2. /\ UnderWay(socket[r], receiver[r])' = w
        /\ socket'[r].kind = "group" => socket'[r] = socket[r]
        /\ socket'[r] = Complete => socket[r] = Complete
    BY <1>0, <2>1, KindsDiffer DEF UnderWay
  <2>3. \A a, b : InTurn(a, b, s) => InTurn(a, b, sender'[r])
    BY <2>1 DEF InTurn
  <2> HIDE DEF w
  <2>4. v.pc # "failed" => InTurn(l, w, s)
    BY DEF TurnsInv, w
  <2> QED
    BY <1>0, <2>1, <2>2, <2>3, <2>4 DEF TurnsInv
<1>3. CASE SendGroup(r)
  <2> DEFINE g == Group(s.buffer, s.names, s.used)
  <2>1. /\ sender'[r].next = s.next /\ sender'[r].names = <<>>
        /\ socket'[r] = g /\ s.names # <<>>
    <3>1. /\ sender' = [sender EXCEPT ![r] =
                  [s EXCEPT !.used = 0, !.names = <<>>, !.awaitRecv = TRUE,
                            !.buffer = OtherBuffer(@)]]
          /\ socket' = [socket EXCEPT ![r] = g]
      BY <1>3, <1>q DEF SendGroup, Request
    <3>2. s.names # <<>>
      BY <1>3 DEF SendGroup, GroupDue
    <3> QED
      BY <1>t, <1>s, <3>1, <3>2 DEF StreamType, SenderStates
  <2>2. g.kind = "group" /\ g.names = s.names /\ g # Complete
    BY KindsDiffer DEF Group, Complete
  <2>3. w = <<>>
    BY <1>3, <1>q, KindsDiffer DEF UnderWay
  <2>4. UnderWay(socket[r], receiver[r])' = s.names
    BY <2>1, <2>2 DEF UnderWay
  <2> HIDE DEF g, w
  <2>5. v.pc # "failed" => InTurn(l, s.names, sender'[r])
    <3>1. v.pc # "failed" => InTurn(l, w, s)
      BY DEF TurnsInv, w
    <3>2. InTurn(l, <<>>, s) => InTurn(l, s.names, sender'[r])
      BY <1>s, <2>1, TurnSends
    <3> QED
      BY <2>3, <3>1, <3>2
  <2> QED
    BY <1>0, <1>3, <1>q, <2>1, <2>2, <2>4, <2>5 DEF TurnsInv
<1>4. CASE SendComplete(r)
  <2>1. /\ sender'[r].next = s.next /\ sender'[r].names = s.names
        /\ socket'[r] = Complete /\ s.names = <<>> /\ ~(s.next <= Len(tensors))
    <3>1. /\ sender' = [sender EXCEPT ![r] =
                  [s EXCEPT !.pc = "last", !.awaitRecv = TRUE]]
          /\ socket' = [socket EXCEPT ![r] = Complete]
      BY <1>4, <1>q DEF SendComplete, Request
    <3>2. s.names = <<>> /\ ~(s.next <= Len(tensors))
      BY <1>4 DEF SendComplete, CompleteDue, MoreTensors
    <3> QED
      BY <1>t, <1>s, <3>1, <3>2 DEF StreamType, SenderStates
  <2>2. w = <<>>
    BY <1>4, <1>q, KindsDiffer DEF UnderWay
  <2>3. UnderWay(socket[r], receiver[r])' = <<>>
    BY <1>0, <1>4, <1>q, <2>1, KindsDiffer DEF UnderWay
  <2> HIDE DEF w
  <2>4. v.pc # "failed" =>
           InTurn(l, <<>>, sender'[r]) /\ Len(l) = Len(tensors)
    <3>1. v.pc # "failed" => InTurn(l, <<>>, s)
      BY <2>2 DEF TurnsInv, w
    <3>2. s.next <= Len(tensors) + 1
      BY DEF TurnsInv
    <3>3. ASSUME InTurn(l, <<>>, s) PROVE Len(l) = Len(tensors)
      BY <1>s, <2>1, <3>2, <3>3 DEF InTurn
    <3> QED
      BY <2>1, <3>1, <3>3 DEF InTurn
  <2> QED
    BY <1>0, <2>1, <2>3, <2>4, KindsDiffer DEF TurnsInv
<1> QED
  BY <1>1, <1>2, <1>3, <1>4 DEF SenderStep

LEMMA TurnLoads ==
    ASSUME NEW l \in Seq(Nat), NEW w \in Seq(Nat), NEW s, s.names \in Seq(Nat),
           Counts(l, 0), InTurn(l, w, s)
    PROVE  /\ Counts(l \o w, 0) /\ InTurn(l \o w, <<>>, s)
           /\ Len(l \o w) + 1 <= s.next
<1> DEFINE q == s.names
<1>1. Len(<<>>) = 0 /\ Len(l) \in Nat /\ Len(w) \in Nat /\ Len(q) \in Nat
  OBVIOUS
<1>2. /\ Counts(w, Len(l)) /\ Counts(q, Len(l) + Len(w))
      /\ s.next = Len(l) + Len(w) + Len(q) + 1
  BY DEF InTurn
<1>3. Counts(l \o w, 0) /\ Len(l \o w) = Len(l) + Len(w)
  <2>1. Counts(w, 0 + Len(l)) /\ 0 \in Nat
    BY <1>1, <1>2
  <2> QED
    BY <2>1, CountsOn
<1> DEFINE k == l \o w
<1>4. Counts(k, 0) /\ Len(k) = Len(l) + Len(w)
  BY <1>3
<1> HIDE DEF k, q
<1>5. Len(k) + Len(<<>>) = Len(l) + Len(w)
  BY <1>1, <1>4
<1>6. Counts(<<>>, Len(k)) /\ Counts(q, Len(k) + Len(<<>>))
  <2>1. Counts(<<>>, Len(k))
    BY DEF Counts
  <2> QED
    BY <1>2, <1>5, <2>1
<1>7. s.next = Len(k) + Len(<<>>) + Len(q) + 1
  BY <1>2, <1>5
<1>8. Len(k) + 1 <= s.next
  BY <1>1, <1>2, <1>4
<1>9. InTurn(k, <<>>, s)
  BY <1>6, <1>7 DEF InTurn, q
<1> QED
  BY <1>4, <1>8, <1>9 DEF k

\* What the engine reads is the group that it was told of.
LEMMA GroupLoaded ==
    ASSUME StreamInv, LoadedType, NEW r \in Ranks, TurnsInv(r), LoadGroup(r)
    PROVE  \E q \in Seq(Nat) :
             /\ loaded' = [loaded EXCEPT ![r] = loaded[r] \o q]
             /\ q # <<>> /\ loaded[r] \o q \in Seq(Nat)
             /\ Counts(loaded[r] \o q, 0)
             /\ InTurn(loaded[r] \o q, <<>>, sender[r])
             /\ Len(loaded[r] \o q) <= Len(tensors)
<1> DEFINE s == sender[r]
           v == receiver[r]
           l == loaded[r]
           q == v.payload.names
<1>t. StreamType /\ RankInv(r)
  BY DEF StreamInv
<1>1. v.pc = "load" /\ v.payload.kind = "group" /\ v.payload \in Messages
  BY <1>t DEF LoadGroup, RankInv, TurnInv, StreamType, ReceiverStates
<1>2. memory[r][v.payload.buffer] = q
  BY <1>t, <1>1 DEF RankInv, Untouched
<1>3. q \in Seq(Nat) /\ q # <<>>
  BY <1>1, KindsDiffer DEF GroupMessages, TurnsInv
<1>4. loaded' = [loaded EXCEPT ![r] = l \o q]
  BY <1>2 DEF LoadGroup
<1>5. socket[r] = None
  BY <1>t, <1>1 DEF RankInv, TurnInv
<1>6. UnderWay(socket[r], v) = q
  BY <1>1, <1>5, KindsDiffer DEF UnderWay
<1>7. InTurn(l, q, s) /\ Counts(l, 0)
  BY <1>1, <1>6 DEF TurnsInv
<1>8. /\ l \in Seq(Nat) /\ s.names \in Seq(Nat) /\ s.next \in Nat
      /\ Len(tensors) \in Nat /\ s.next <= Len(tensors) + 1
  <2>1. /\ s \in SenderStates /\ l \in Seq(Nat)
        /\ tensors \in Seq(Nat \ {0})
    BY <1>t DEF StreamType, LoadedType
  <2>2. s.names \in Seq(Nat) /\ s.next \in Nat
    BY <2>1 DEF SenderStates
  <2>3. s.next <= Len(tensors) + 1
    BY DEF TurnsInv
  <2> QED
    BY <2>1, <2>2, <2>3
<1> HIDE DEF l, q, s
<1>9. l \o q \in Seq(Nat) /\ Len(l \o q) \in Nat
  BY <1>3, <1>8
<1>10. /\ Counts(l \o q, 0) /\ InTurn(l \o q, <<>>, s)
       /\ Len(l \o q) + 1 <= s.next
  BY <1>3, <1>7, <1>8, TurnLoads
<1>11. Len(l \o q) <= Len(tensors)
  BY <1>8, <1>9, <1>10
<1> QED
  BY <1>3, <1>4, <1>9, <1>10, <1>11 DEF l, s

LEMMA ReceiverTurns ==
    ASSUME StreamInv, LoadedType, NEW r \in Ranks, TurnsInv(r), ReceiverStep(r),
           UNCHANGED <<tensors, bufferSize>>
    PROVE  TurnsInv(r)'
<1> DEFINE s == sender[r]
           v == receiver[r]
           w == UnderWay(socket[r], v)
           l == loaded[r]
<1>t. StreamType /\ RankInv(r)
  BY DEF StreamInv
<1>s. socket[r] \in Messages /\ v \in ReceiverStates /\ v.payload \in Messages
  BY <1>t DEF StreamType, ReceiverStates
<1>0. sender'[r] = s
  BY DEF ReceiverStep, ReceiveMessage, LoadGroup, AnswerGroup,
         ProcessComplete, EndReceiving, ReceiverFails
<1>i. /\ v.pc # "failed" => InTurn(l, w, s)
      /\ socket[r].kind = "group" => socket[r].names # <<>>
      /\ v.pc = "load" => v.payload.names # <<>>
      /\ Counts(l, 0) /\ Len(l) <= Len(tensors) /\ s.next <= Len(tensors) + 1
      /\ v.pc # "failed" /\ (socket[r] = Complete
            \/ v.pc \in {"process", "finish", "returned"})
                => Len(l) = Len(tensors)
  BY DEF TurnsInv
\* Steps that load nothing: the group under way stays the same.
<1>k. ASSUME loaded'[r] = l,
             receiver'[r].pc # "failed" =>
                 /\ v.pc # "failed" /\ UnderWay(socket'[r], receiver'[r]) = w
                 /\ (socket'[r] = Complete
                       \/ receiver'[r].pc \in {"process", "finish", "returned"})
                    => (socket[r] = Complete
                       \/ v.pc \in {"process", "finish", "returned"}),
             socket'[r].kind = "group" => socket'[r] = socket[r],
             receiver'[r].pc = "load" => receiver'[r].payload.names # <<>>
      PROVE  TurnsInv(r)'
  <2> HIDE DEF w
  <2> QED
    BY <1>0, <1>i, <1>k DEF TurnsInv
<1>1. CASE ReceiveMessage(r)
  <2>1. /\ receiver'[r].payload = socket[r] /\ socket'[r] = None
        /\ receiver'[r].pc = IF socket[r] = Complete THEN "process" ELSE "load"
        /\ v.pc = "receive" /\ IsRequest(socket[r]) /\ loaded' = loaded
    BY <1>1, <1>t, <1>s DEF ReceiveMessage, StreamType, ReceiverStates
  <2>2. socket[r] # Complete => socket[r].kind = "group"
    BY <1>s, <2>1, KindsDiffer DEF IsRequest, Messages
  <2>3. UnderWay(socket'[r], receiver'[r]) = w
    BY <2>1, <2>2, KindsDiffer DEF UnderWay
  <2>4. socket'[r] # Complete /\ socket'[r].kind # "group"
    BY <2>1, KindsDiffer
  <2>5. receiver'[r].pc = "load" => receiver'[r].payload.names # <<>>
    BY <1>i, <2>1, <2>2
  <2> HIDE DEF w
  <2> QED
    BY <1>k, <2>1, <2>3, <2>4, <2>5
<1>2. CASE LoadGroup(r)
  <2>1. PICK q \in Seq(Nat) :
             /\ loaded' = [loaded EXCEPT ![r] = l \o q]
             /\ q # <<>> /\ l \o q \in Seq(Nat)
             /\ Counts(l \o q, 0)
             /\ InTurn(l \o q, <<>>, s)
             /\ Len(l \o q) <= Len(tensors)
    BY <1>2, GroupLoaded
  <2>2. loaded'[r] = l \o q
    BY <2>1 DEF LoadedType
  <2>3. receiver'[r].pc = "answer" /\ socket'[r] = socket[r] /\ socket[r] = None
    BY <1>2, <1>t, <1>s
       DEF LoadGroup, StreamType, ReceiverStates, RankInv, TurnInv
  <2>4. UnderWay(socket'[r], receiver'[r]) = <<>>
    BY <2>3, KindsDiffer DEF UnderWay
  <2> HIDE DEF w, l, s
  <2> QED
    BY <1>0, <1>i, <2>1, <2>2, <2>3, <2>4, KindsDiffer DEF TurnsInv
<1>3. CASE AnswerGroup(r)
  <2>1. /\ receiver'[r].pc = "receive" /\ socket'[r] = Answer
        /\ v.pc = "answer" /\ socket[r] = None /\ loaded' = loaded
    BY <1>3, <1>t, <1>s
       DEF AnswerGroup, StreamType, ReceiverStates, RankInv, TurnInv
  <2>2. UnderWay(socket'[r], receiver'[r]) = w
    BY <2>1, KindsDiffer DEF UnderWay
  <2> HIDE DEF w
  <2> QED
    BY <1>k, <2>1, <2>2, KindsDiffer
<1>4. CASE ProcessComplete(r)
  <2>1. /\ receiver'[r].pc = "finish" /\ socket'[r] = Answer
        /\ v.pc = "process" /\ socket[r] = None /\ loaded' = loaded
    BY <1>4, <1>t, <1>s
       DEF ProcessComplete, StreamType, ReceiverStates, RankInv, TurnInv
  <2>2. UnderWay(socket'[r], receiver'[r]) = w
    BY <2>1, KindsDiffer DEF UnderWay
  <2> HIDE DEF w
  <2> QED
    BY <1>k, <2>1, <2>2, KindsDiffer
<1>5. CASE EndReceiving(r)
  <2>1. /\ receiver'[r].pc = "returned" /\ socket'[r] = socket[r]
        /\ v.pc = "finish" /\ loaded' = loaded
    BY <1>5, <1>t, <1>s DEF EndReceiving, StreamType, ReceiverStates
  <2>2. UnderWay(socket'[r], receiver'[r]) = w
    BY <2>1 DEF UnderWay
  <2> HIDE DEF w
  <2> QED
    BY <1>k, <2>1, <2>2
<1>6. CASE ReceiverFails(r)
  <2>1. /\ receiver'[r].pc = "failed" /\ socket'[r] = socket[r] /\ loaded' = loaded
    BY <1>6, <1>t, <1>s DEF ReceiverFails, StreamType, ReceiverStates
  <2> HIDE DEF w
  <2> QED
    BY <1>k, <2>1
<1> QED
  BY <1>1, <1>2, <1>3, <1>4, <1>5, <1>6 DEF ReceiverStep

(***************************************************************************)
(* The refit as a whole.                                                   *)
(***************************************************************************)

ControlInv ==
    /\ colocated \in BOOLEAN /\ outcome \in {"none", "success", "failure"}
    /\ phase \in {"start", "offloaded", "transfer"} <=> outcome = "none"
    /\ colocated => Drained
    /\ ~colocated /\ outcome = "success" =>
           \A m \in Members : cpu[m].pc = "returned"

CarryInv ==
    /\ LoadedType /\ ControlInv
    /\ ~colocated => \A r \in Ranks : LoadInv(r)
    /\ colocated => \A r \in Ranks : TurnsInv(r)

LEMMA CarryStarts == RefitInit => CarryInv
<1> SUFFICES ASSUME RefitInit PROVE CarryInv
  OBVIOUS
<1>1. LoadedType
  BY DEF RefitInit, WeightsInit, LoadedType
<1>2. Drained
  BY DEF RefitInit, BroadcastInit, Drained
<1>3. ControlInv
  BY <1>2 DEF RefitInit, ControlInv
<1> QED
  BY <1>1, <1>3, LoadStarts, TurnsStart DEF CarryInv

\* A step of the packed broadcast, as a rank sees it: its processor enqueues,
\* its GPU loads, or nothing of what it loads changes.
LEMMA BroadcastLoads ==
    ASSUME BroadcastInv, LoadedType, \A r \in Ranks : LoadInv(r), BroadcastStep
    PROVE  /\ LoadedType' /\ \A r \in Ranks : LoadInv(r)'
           /\ \/ UNCHANGED loaded
              \/ \E r \in Ranks : \E q \in Seq(Nat) :
                     /\ q # <<>> /\ loaded[r] \o q \in Seq(Nat)
                     /\ loaded' = [loaded EXCEPT ![r] = loaded[r] \o q]
<1>t. BroadcastType
  BY DEF BroadcastInv
<1>s. /\ \A m \in Members : stream[m] \in Streams /\ cpu[m].next \in Nat \ {0}
      /\ stream \in [Members -> Streams]
      /\ tensors \in Seq(Nat \ {0})
  BY <1>t DEF BroadcastType, Streams, ProcessorStates
<1>u. tensors' = tensors
  BY DEF BroadcastStep
<1>1. ASSUME NEW m \in Members, ProcessorStep(m)
      PROVE  /\ loaded' = loaded
             /\ \A r \in Ranks : LoadInv(r)'
  <2>1. PICK b \in Buffers, pc \in {"run", "returned", "failed"} :
               \E work : Goes(m, b, work, pc)
    BY <1>t, <1>1, ProcessorGoes
  <2>2. PICK work : Goes(m, b, work, pc)
    BY <2>1
  <2> DEFINE lo == cpu[m].next
             hi == ProducerCut(lo)
             n == cpu[m].enqueued + 1
             t == [stream[m] EXCEPT ![b] = work]
  <2>3. /\ Enqueued(m, lo, hi, n, b, work, pc) /\ cpu[m].pc = "run"
        /\ pc = "returned" => IsTail(lo, hi)
        /\ m # Source /\ pc # "failed" =>
               work \in {<<>>, <<Broadcast(n, lo, hi), LoadPacket(n, lo, hi)>>}
        /\ loaded' = loaded
    BY <2>2 DEF Goes
  <2>4. /\ stream[m][b] = <<>> /\ stream' = [stream EXCEPT ![m] = t]
        /\ work = <<>> \/ work \in Work(n, lo, hi)
        /\ work # <<>> <=> lo <= hi
        /\ cpu'[m].next = hi + 1 /\ cpu'[m].pc = pc
        /\ \A q \in Members \ {m} : cpu'[q] = cpu[q]
    BY <2>3, <1>t DEF Enqueued, BroadcastType
  <2>5. lo \in 1 .. Len(tensors) + 1
    <3>1. PICK plan \in Seq(Nat) :
              IsPlan(plan) /\ \A q \in Members : Follows(q, plan)
      BY DEF BroadcastInv
    <3> QED
      BY <1>t, <3>1, PlaceInPlan
  <2>6. /\ hi \in lo - 1 .. Len(tensors)
        /\ IsTail(lo, hi) => hi = Len(tensors)
    BY <1>s, <2>5, Cuts
  <2>7. stream'[m] = t /\ \A q \in Members \ {m} : stream'[q] = stream[q]
    BY <1>s, <2>4
  <2> HIDE DEF hi, t
  <2>8. /\ lo \in Nat \ {0} /\ hi \in Nat /\ (lo > hi => hi + 1 = lo)
    BY <1>s, <2>5, <2>6
  <2>9. ASSUME m \in Ranks PROVE LoadInv(m)'
    <3>1. /\ Injects(loaded[m]) /\ NotTwice(loaded[m], stream[m])
          /\ InRange(loaded[m], stream[m], lo)
          /\ LeavesNoneOut(loaded[m], stream[m], lo)
      BY <2>3, <2>9 DEF LoadInv
    <3>2. /\ NotTwice(loaded[m], t) /\ InRange(loaded[m], t, hi + 1)
          /\ (work # <<>> =>
                 work = <<Broadcast(n, lo, hi), LoadPacket(n, lo, hi)>>)
                     => LeavesNoneOut(loaded[m], t, hi + 1)
      <4>1. stream[m] \in Streams
        BY <1>s
      <4> HIDE DEF lo, n
      <4> QED
        BY <2>4, <2>8, <3>1, <4>1, LoadsEnqueued DEF t
    <3>3. m # Source
      BY <2>9, RefitAssumption
    <3>4. pc # "failed" => LeavesNoneOut(loaded[m], t, hi + 1)
      BY <2>3, <3>2, <3>3 DEF hi
    <3>5. pc = "returned" => hi + 1 = Len(tensors) + 1
      BY <2>3, <2>6 DEF hi
    <3> QED
      BY <1>u, <2>3, <2>4, <2>7, <3>1, <3>2, <3>4, <3>5 DEF LoadInv
  <2>10. ASSUME NEW r \in Ranks, r # m PROVE LoadInv(r)'
    <3>1. r \in Members
      BY SourceIsMember
    <3> QED
      BY <1>u, <2>3, <2>4, <2>7, <2>10, <3>1, OtherRanksLoads
  <2> QED
    BY <2>3, <2>9, <2>10
<1>2. ASSUME RunBroadcast
      PROVE  /\ loaded' = loaded
             /\ \A r \in Ranks : LoadInv(r)'
  <2>1. PICK at \in [Members -> Buffers] :
            /\ \A m \in Members : AtBroadcast(m, at[m])
            /\ stream' = [m \in Members |->
                            [stream[m] EXCEPT ![at[m]] = Tail(@)]]
            /\ cpu' = cpu /\ loaded' = loaded
    BY <1>2 DEF RunBroadcast
  <2>2. ASSUME NEW r \in Ranks PROVE LoadInv(r)'
    <3> DEFINE c == at[r]
               t == [stream[r] EXCEPT ![c] = Tail(stream[r][c])]
    <3>1. r \in Members /\ c \in Buffers /\ stream[r] \in Streams
      BY <1>s, <2>1, SourceIsMember
    <3>2. stream'[r] = t /\ stream[r][c] # <<>>
          /\ Head(stream[r][c]).op = "broadcast"
      BY <2>1, <3>1 DEF AtBroadcast
    <3> HIDE DEF c
    <3>3. Taken(stream[r], t, c)
      BY <3>1, <3>2, FirstTaken
    <3> HIDE DEF t
    <3>4. /\ Injects(loaded[r]) /\ NotTwice(loaded[r], stream[r])
          /\ InRange(loaded[r], stream[r], cpu[r].next)
      BY DEF LoadInv
    <3>5. InRange(loaded[r], t, cpu[r].next)
      BY <3>1, <3>3, <3>4, TakenInRange
    <3>6. NotTwice(loaded[r], t)
      BY <3>1, <3>2, <3>3, <3>4, BroadcastTaken
    <3>7. cpu[r].pc # "failed" => LeavesNoneOut(loaded[r], t, cpu[r].next)
      BY <3>1, <3>2, <3>3, BroadcastTaken DEF LoadInv
    <3> QED
      BY <1>u, <2>1, <3>2, <3>4, <3>5, <3>6, <3>7 DEF LoadInv
  <2> QED
    BY <2>1, <2>2
<1>3. ASSUME NEW r \in Ranks, RunLoad(r)
      PROVE  /\ \E q \in Seq(Nat) :
                     /\ q # <<>> /\ loaded[r] \o q \in Seq(Nat)
                     /\ loaded' = [loaded EXCEPT ![r] = loaded[r] \o q]
             /\ \A p \in Ranks : LoadInv(p)'
  <2>1. PICK c \in Buffers :
            /\ stream[r][c] # <<>>
            /\ Head(stream[r][c]).op = "load"
            /\ loaded' = [loaded EXCEPT
                              ![r] = @ \o Tensors(Head(stream[r][c]))]
            /\ stream' = [stream EXCEPT ![r][c] = Tail(@)]
            /\ cpu' = cpu
    BY <1>3 DEF RunLoad, Tensors
  <2> DEFINE q == Tensors(Head(stream[r][c]))
             t == [stream[r] EXCEPT ![c] = Tail(stream[r][c])]
  <2>2. r \in Members /\ stream[r] \in Streams /\ cpu[r].next \in Nat
        /\ loaded[r] \in Seq(Nat)
    BY <1>s, SourceIsMember DEF LoadedType
  <2>3. loaded' = [loaded EXCEPT ![r] = loaded[r] \o q]
        /\ stream' = [stream EXCEPT ![r] = t]
    BY <2>1
  <2>4. Taken(stream[r], t, c)
    BY <2>1, <2>2, FirstTaken
  <2> HIDE DEF t
  <2>5. IsLoad(Head(stream[r][c]))
    BY <2>1 DEF IsLoad
  <2>6. /\ Injects(loaded[r]) /\ NotTwice(loaded[r], stream[r])
        /\ InRange(loaded[r], stream[r], cpu[r].next)
    BY DEF LoadInv
  <2>7. /\ loaded[r] \o q \in Seq(Nat) /\ q \in Seq(Nat) /\ q # <<>>
        /\ Injects(loaded[r] \o q) /\ NotTwice(loaded[r] \o q, t)
        /\ InRange(loaded[r] \o q, t, cpu[r].next)
        /\ LeavesNoneOut(loaded[r], stream[r], cpu[r].next)
               => LeavesNoneOut(loaded[r] \o q, t, cpu[r].next)
    BY <2>2, <2>4, <2>5, <2>6, LoadTaken
  <2> HIDE DEF q
  <2>8. /\ loaded'[r] = loaded[r] \o q /\ stream'[r] = t
        /\ \A p \in Ranks \ {r} : loaded'[p] = loaded[p]
        /\ \A p \in Members \ {r} : stream'[p] = stream[p]
    BY <1>s, <2>2, <2>3 DEF LoadedType
  <2>9. LoadInv(r)'
    <3>1. cpu[r].pc # "failed" => LeavesNoneOut(loaded[r] \o q, t, cpu[r].next)
      BY <2>7 DEF LoadInv
    <3>2. cpu[r].pc = "returned" => cpu[r].next = Len(tensors) + 1
      BY DEF LoadInv
    <3> QED
      BY <1>u, <2>1, <2>7, <2>8, <3>1, <3>2 DEF LoadInv
  <2>10. ASSUME NEW p \in Ranks, p # r PROVE LoadInv(p)'
    <3>1. p \in Members
      BY SourceIsMember
    <3> QED
      BY <1>u, <2>1, <2>8, <2>10, <3>1, OtherRanksLoads
  <2> QED
    BY <2>3, <2>7, <2>9, <2>10
<1>4. /\ \A r \in Ranks : LoadInv(r)'
      /\ \/ UNCHANGED loaded
         \/ \E r \in Ranks : \E q \in Seq(Nat) :
                /\ q # <<>> /\ loaded[r] \o q \in Seq(Nat)
                /\ loaded' = [loaded EXCEPT ![r] = loaded[r] \o q]
  BY <1>1, <1>2, <1>3 DEF BroadcastStep, GPUStep
<1>5. LoadedType'
  BY <1>4 DEF LoadedType
<1> QED
  BY <1>4, <1>5

\* A processor that has returned enqueues nothing more, and a GPU with nothing
\* to do gets nothing to do.
LEMMA AllReturned ==
    ASSUME BroadcastInv, BroadcastStep, \A m \in Members : cpu[m].pc = "returned"
    PROVE  /\ cpu' = cpu /\ ~Drained
           /\ (RunBroadcast /\ loaded' = loaded) \/ \E r \in Ranks : RunLoad(r)
<1>1. \A m \in Members : ~ProcessorStep(m)
  BY DEF ProcessorStep, ProducePacket, ConsumePacket, ConsumerFails
<1>2. GPUStep
  BY <1>1 DEF BroadcastStep
<1>3. cpu' = cpu
  BY <1>2, GPUsOnlyTake DEF BroadcastInv, GPUsWork
<1>4. CASE RunBroadcast
  <2>1. \E b \in Buffers : stream[Source][b] # <<>>
    BY <1>4, SourceIsMember DEF RunBroadcast, AtBroadcast
  <2> QED
    BY <1>3, <1>4, <2>1, SourceIsMember DEF Drained, RunBroadcast
<1>5. ASSUME NEW r \in Ranks, RunLoad(r) PROVE ~Drained
  <2>1. \E b \in Buffers : stream[r][b] # <<>>
    BY <1>5 DEF RunLoad
  <2> QED
    BY <2>1, SourceIsMember DEF Drained
<1> QED
  BY <1>2, <1>3, <1>4, <1>5 DEF GPUStep

ControlSteps ==
    /\ UNCHANGED <<tensors, loaded, sender, socket, receiver, cpu, stream>>
    /\ colocated' = colocated
    /\ \/ outcome' = outcome
          /\ (phase \in {"start", "offloaded", "transfer"}
                 <=> phase' \in {"start", "offloaded", "transfer"})
       \/ /\ phase = "transfer" /\ phase' \in {"done", "transferred"}
          /\ \/ outcome' = "failure"
             \/ /\ outcome' = "success"
                /\ SendingEnded /\ UpdateSuccess

LEMMA ControlMoves ==
    ASSUME ControlStep
    PROVE  ControlSteps
<1>1. TransferIdle /\ colocated' = colocated
  BY DEF ControlStep, OffloadBefore, WakeWeights, StartBroadcast,
         TransferRaises, TransferEnds, OffloadAfter, WakeCache
<1>2. UNCHANGED <<tensors, loaded, sender, socket, receiver, cpu, stream>>
  BY <1>1 DEF TransferIdle, ipcVars, broadcastVars
<1>3. CASE OffloadBefore \/ WakeWeights \/ StartBroadcast \/ OffloadAfter
           \/ WakeCache
  <2>1. outcome' = outcome
        /\ (phase \in {"start", "offloaded", "transfer"}
                 <=> phase' \in {"start", "offloaded", "transfer"})
    BY <1>3 DEF OffloadBefore, WakeWeights, StartBroadcast, OffloadAfter,
                WakeCache
  <2> QED
    BY <1>1, <1>2, <2>1 DEF ControlSteps
<1>4. CASE TransferRaises
  BY <1>1, <1>2, <1>4 DEF ControlSteps, TransferRaises
<1>5. CASE TransferEnds
  <2>1. /\ phase = "transfer" /\ phase' \in {"done", "transferred"}
        /\ \/ outcome' = "failure"
           \/ outcome' = "success" /\ SendingEnded /\ UpdateSuccess
    BY <1>5 DEF TransferEnds
  <2> QED
    BY <1>1, <1>2, <2>1 DEF ControlSteps
<1> QED
  BY <1>3, <1>4, <1>5 DEF ControlStep

LEMMA RefitMoves ==
    ASSUME [RefitNext]_refitVars
    PROVE  \/ ControlSteps
           \/ ~colocated /\ BroadcastStep /\ UNCHANGED <<ipcVars, controlVars>>
           \/ \E r \in Ranks :
                 /\ colocated /\ phase = "transfer"
                 /\ SenderStep(r) \/ ReceiverStep(r)
                 /\ UNCHANGED <<tensors, bufferSize, broadcastVars, controlVars>>
<1>1. CASE UNCHANGED refitVars
  BY <1>1 DEF refitVars, ipcVars, broadcastVars, controlVars, ControlSteps
<1>2. CASE RefitNext
  <2>1. CASE BroadcastWeights
    BY <2>1 DEF BroadcastWeights
  <2>2. CASE \E r \in Ranks : StreamTo(r) \/ StreamFrom(r)
    BY <2>2 DEF StreamTo, StreamFrom
  <2> QED
    BY <1>2, <2>1, <2>2, ControlMoves DEF RefitNext
<1> QED
  BY <1>1, <1>2

\* A step of a rank's streaming leaves the other ranks alone.
LEMMA RankStep ==
    ASSUME NEW r \in Ranks, SenderStep(r) \/ ReceiverStep(r),
           StreamType, LoadedType, NEW q \in Ranks, q # r
    PROVE  UNCHANGED <<loaded[q], sender[q], socket[q], receiver[q]>>
<1>1. CASE SenderStep(r)
  <2>1. /\ loaded' = loaded /\ receiver' = receiver
        /\ \E x : sender' = [sender EXCEPT ![r] = x]
        /\ socket' = socket \/ \E x : socket' = [socket EXCEPT ![r] = x]
    <3>1. CASE PackTensor(r)
      BY <3>1 DEF PackTensor, StreamType
    <3>2. CASE RejectTensor(r) \/ SenderTimesOut(r) \/ EndSending(r)
      BY <3>2 DEF RejectTensor, SenderTimesOut, EndSending, StreamType
    <3>3. CASE SendGroup(r)
      BY <3>3 DEF SendGroup, Request, StreamType
    <3>4. CASE SendComplete(r)
      BY <3>4 DEF SendComplete, Request, StreamType
    <3> QED
      BY <1>1, <3>1, <3>2, <3>3, <3>4 DEF SenderStep
  <2> QED
    BY <2>1 DEF StreamType
<1>2. CASE ReceiverStep(r)
  <2>1. /\ loaded' = loaded \/ \E x : loaded' = [loaded EXCEPT ![r] = x]
        /\ sender' = sender
        /\ \E x : receiver' = [receiver EXCEPT ![r] = x]
        /\ socket' = socket \/ \E x : socket' = [socket EXCEPT ![r] = x]
    <3>1. CASE ReceiveMessage(r)
      BY <3>1 DEF ReceiveMessage, StreamType
    <3>2. CASE LoadGroup(r)
      BY <3>2 DEF LoadGroup, StreamType
    <3>3. CASE AnswerGroup(r) \/ ProcessComplete(r)
      BY <3>3 DEF AnswerGroup, ProcessComplete, StreamType
    <3>4. CASE EndReceiving(r) \/ ReceiverFails(r)
      BY <3>4 DEF EndReceiving, ReceiverFails, StreamType
    <3> QED
      BY <1>2, <3>1, <3>2, <3>3, <3>4 DEF ReceiverStep
  <2> QED
    BY <2>1 DEF StreamType, LoadedType
<1> QED
  BY <1>1, <1>2

\* What a step of streaming does to what is loaded.
LEMMA StreamLoads ==
    ASSUME StreamInv, LoadedType, NEW r \in Ranks, TurnsInv(r),
           SenderStep(r) \/ ReceiverStep(r)
    PROVE  \/ loaded' = loaded
           \/ \E q \in Seq(Nat) :
                  /\ q # <<>> /\ loaded[r] \o q \in Seq(Nat)
                  /\ loaded' = [loaded EXCEPT ![r] = loaded[r] \o q]
<1>1. CASE LoadGroup(r)
  BY <1>1, GroupLoaded
<1>2. CASE ~LoadGroup(r)
  BY <1>2 DEF SenderStep, PackTensor, RejectTensor, SendGroup, SendComplete,
      EndSending, SenderTimesOut, ReceiverStep, ReceiveMessage, AnswerGroup,
      ProcessComplete, EndReceiving, ReceiverFails
<1> QED
  BY <1>1, <1>2

LEMMA CarryKeeps ==
    ASSUME StreamInv, BroadcastInv, CarryInv, [RefitNext]_refitVars,
           Leaders = Ranks
    PROVE  CarryInv'
<1>t. StreamType
  BY DEF StreamInv
<1>c. LoadedType /\ ControlInv
  BY DEF CarryInv
<1>1. CASE ControlSteps
  <2>1. UNCHANGED <<tensors, loaded, sender, socket, receiver, cpu, stream,
                    colocated>>
    BY <1>1 DEF ControlSteps
  <2>2. ControlInv'
    <3>1. Drained' = Drained
      BY <2>1 DEF Drained, Members, Buffers
    <3>2. outcome' \in {"none", "success", "failure"}
          /\ (phase' \in {"start", "offloaded", "transfer"} <=> outcome' = "none")
      BY <1>1, <1>c DEF ControlSteps, ControlInv
    <3>3. ASSUME ~colocated, outcome' = "success", NEW m \in Members
          PROVE  cpu'[m].pc = "returned"
      <4>1. CASE outcome' = outcome
        BY <1>c, <2>1, <3>3, <4>1 DEF ControlInv
      <4>2. CASE outcome' # outcome
        <5>1. SendingEnded /\ UpdateSuccess
          BY <1>1, <3>3, <4>2 DEF ControlSteps
        <5> QED
          BY <2>1, <3>3, <5>1 DEF SendingEnded, UpdateSuccess, Returned, Members
      <4> QED
        BY <4>1, <4>2
    <3> QED
      BY <1>c, <2>1, <3>1, <3>2, <3>3 DEF ControlInv, Members
  <2>3. LoadedType'
    BY <1>c, <2>1 DEF LoadedType
  <2>4. ASSUME NEW r \in Ranks PROVE /\ LoadInv(r) => LoadInv(r)'
                                     /\ TurnsInv(r) => TurnsInv(r)'
    BY <2>1, OtherRanksLoads, OtherRanksTurns
  <2> QED
    BY <2>1, <2>2, <2>3, <2>4 DEF CarryInv
<1>2. CASE ~colocated /\ BroadcastStep /\ UNCHANGED <<ipcVars, controlVars>>
  <2>1. colocated' = colocated /\ phase' = phase /\ outcome' = outcome
    BY <1>2 DEF controlVars
  <2>2. LoadedType' /\ \A r \in Ranks : LoadInv(r)'
    BY <1>2, <1>c, BroadcastLoads DEF CarryInv
  <2>3. ControlInv'
    <3>1. CASE outcome = "success"
      <4>1. \A m \in Members : cpu[m].pc = "returned"
        BY <1>2, <1>c, <3>1 DEF ControlInv
      <4>2. cpu' = cpu
        BY <1>2, <4>1, AllReturned
      <4> QED
        BY <1>2, <1>c, <2>1, <4>1, <4>2 DEF ControlInv, Members
    <3>2. CASE outcome # "success"
      BY <1>2, <1>c, <2>1, <3>2 DEF ControlInv
    <3> QED
      BY <3>1, <3>2
  <2> QED
    BY <1>2, <2>1, <2>2, <2>3 DEF CarryInv
<1>3. ASSUME NEW r \in Ranks,
             /\ colocated /\ phase = "transfer"
             /\ SenderStep(r) \/ ReceiverStep(r)
             /\ UNCHANGED <<tensors, bufferSize, broadcastVars, controlVars>>
      PROVE  CarryInv'
  <2>1. UNCHANGED <<tensors, bufferSize, stream, cpu, colocated, phase, outcome>>
    BY <1>3 DEF controlVars, broadcastVars
  <2>2. \A q \in Ranks : TurnsInv(q)
    BY <1>3 DEF CarryInv
  <2>3. TurnsInv(r)'
    BY <1>3, <1>c, <2>1, <2>2, SenderTurns, ReceiverTurns
  <2>4. ASSUME NEW q \in Ranks, q # r PROVE TurnsInv(q)'
    <3>1. UNCHANGED <<loaded[q], sender[q], socket[q], receiver[q]>>
      BY <1>3, <1>t, <1>c, <2>4, RankStep
    <3> QED
      BY <2>1, <2>2, <3>1, OtherRanksTurns
  <2>5. LoadedType'
    <3>1. \/ loaded' = loaded
          \/ \E q \in Seq(Nat) :
                  /\ q # <<>> /\ loaded[r] \o q \in Seq(Nat)
                  /\ loaded' = [loaded EXCEPT ![r] = loaded[r] \o q]
      BY <1>3, <1>c, <2>2, StreamLoads
    <3> QED
      BY <1>c, <3>1 DEF LoadedType
  <2>6. ControlInv'
    <3>1. Drained' = Drained
      BY <2>1 DEF Drained, Members, Buffers
    <3> QED
      BY <1>c, <2>1, <3>1 DEF ControlInv, Members
  <2> QED
    BY <1>3, <2>1, <2>3, <2>4, <2>5, <2>6 DEF CarryInv
<1> QED
  BY <1>1, <1>2, <1>3, RefitMoves

\* What the refit reports, once the GPUs have done what they were given.
Reported == IF outcome = "success" /\ ~Drained THEN "none" ELSE outcome

LEMMA LoadingMore ==
    ASSUME LoadedType, LoadedType', NEW r \in Ranks, NEW q \in Seq(Nat),
           q # <<>>, loaded[r] \o q \in Seq(Nat),
           loaded' = [loaded EXCEPT ![r] = loaded[r] \o q]
    PROVE  /\ loaded' = [loaded EXCEPT ![r] = loaded'[r]]
           /\ Transfer!IsStrictPrefix(loaded[r], loaded'[r])
<1> DEFINE l == loaded[r]
           k == l \o q
<1>1. l \in Seq(Nat) /\ loaded'[r] = k
  BY DEF LoadedType
<1>2. /\ k \in Seq(Nat) /\ Len(k) = Len(l) + Len(q)
      /\ Len(l) \in Nat /\ Len(q) \in Nat \ {0}
      /\ \A i \in 1 .. Len(l) : k[i] = l[i]
  BY <1>1, ConcatProperties
<1> HIDE DEF k, l
<1>3. SubSeq(l, 1, Len(l)) = SubSeq(k, 1, Len(l))
  BY <1>1, <1>2
<1>4. l # k /\ Len(l) <= Len(k)
  BY <1>2
<1>5. Transfer!IsStrictPrefix(l, k)
  BY <1>3, <1>4 DEF Transfer!IsStrictPrefix, Transfer!IsPrefix
<1> QED
  BY <1>1, <1>5 DEF l, k

\* What a rank has loaded is in order, or each tensor once, and never
\* something that the policy does not have.
LEMMA LoadedOnce ==
    ASSUME StreamInv, BroadcastInv, CarryInv, NEW r \in Ranks
    PROVE  /\ Transfer!IsInjective(loaded[r])
           /\ Transfer!Range(loaded[r]) \subseteq DOMAIN tensors
<1> DEFINE l == loaded[r]
<1>1. l \in Seq(Nat) /\ tensors \in Seq(Nat \ {0})
  BY DEF CarryInv, LoadedType, StreamInv, StreamType
<1>2. CASE colocated
  <2>1. Counts(l, 0) /\ Len(l) <= Len(tensors)
    BY <1>2 DEF CarryInv, TurnsInv
  <2>2. \A i \in 1 .. Len(l) : l[i] = i
    BY <2>1 DEF Counts
  <2> HIDE DEF l
  <2>3. DOMAIN l = 1 .. Len(l) /\ DOMAIN tensors = 1 .. Len(tensors)
    BY <1>1
  <2>4. Transfer!IsInjective(l)
    BY <2>2, <2>3 DEF Transfer!IsInjective
  <2>5. Transfer!Range(l) \subseteq DOMAIN tensors
    BY <1>1, <2>1, <2>2, <2>3 DEF Transfer!Range
  <2> QED
    BY <2>4, <2>5 DEF l
<1>3. CASE ~colocated
  <2>1. Injects(l) /\ \A i \in 1 .. Len(l) : l[i] \in 1 .. cpu[r].next - 1
    BY <1>3 DEF CarryInv, LoadInv, InRange
  <2>2. cpu[r].next \in 1 .. Len(tensors) + 1
    <3>1. PICK plan \in Seq(Nat) :
              IsPlan(plan) /\ \A q \in Members : Follows(q, plan)
      BY DEF BroadcastInv
    <3> QED
      BY <3>1, PlaceInPlan, SourceIsMember DEF BroadcastInv
  <2> HIDE DEF l
  <2>3. DOMAIN l = 1 .. Len(l) /\ DOMAIN tensors = 1 .. Len(tensors)
        /\ Len(tensors) \in Nat
    BY <1>1
  <2>4. Transfer!IsInjective(l)
    BY <2>1, <2>3 DEF Transfer!IsInjective, Injects
  <2>5. \A i \in 1 .. Len(l) : l[i] \in 1 .. Len(tensors)
    BY <2>1, <2>2, <2>3
  <2>6. Transfer!Range(l) \subseteq DOMAIN tensors
    BY <2>3, <2>5 DEF Transfer!Range
  <2> QED
    BY <2>4, <2>6 DEF l
<1> QED
  BY <1>2, <1>3

\* A rank that has returned, and whose GPU is done, has loaded everything.
LEMMA ReturnedHasLoaded ==
    ASSUME StreamInv, CarryInv, Drained, \A r \in Ranks : Returned(r)
    PROVE  Transfer!AllLoaded
<1> SUFFICES ASSUME NEW r \in Ranks
             PROVE  Transfer!Range(loaded[r]) = DOMAIN tensors
  BY DEF Transfer!AllLoaded
<1> DEFINE l == loaded[r]
<1>1. l \in Seq(Nat) /\ tensors \in Seq(Nat \ {0})
  BY DEF CarryInv, LoadedType, StreamInv, StreamType
<1>2. \A x \in DOMAIN tensors : HasLoaded(l, x)
  <2>1. CASE colocated
    <3>1. Counts(l, 0) /\ Len(l) = Len(tensors)
      BY <2>1 DEF CarryInv, TurnsInv, Returned
    <3> HIDE DEF l
    <3>2. ASSUME NEW x \in DOMAIN tensors PROVE HasLoaded(l, x)
      <4>1. x \in 1 .. Len(l) /\ l[x] = 0 + x /\ 0 + x = x
        BY <1>1, <3>1 DEF Counts
      <4> QED
        BY <4>1 DEF HasLoaded
    <3> QED
      BY <3>2
  <2>2. CASE ~colocated
    <3>1. cpu[r].next = Len(tensors) + 1 /\ LeavesNoneOut(l, stream[r], cpu[r].next)
      BY <2>2 DEF CarryInv, LoadInv, Returned
    <3>2. \A x : ~WillLoad(stream[r], x)
      BY SourceIsMember DEF Drained, WillLoad, LoadsAt
    <3> HIDE DEF l
    <3>3. Len(tensors) \in Nat /\ DOMAIN tensors = 1 .. Len(tensors)
      BY <1>1
    <3> QED
      BY <3>1, <3>2, <3>3 DEF LeavesNoneOut
  <2> QED
    BY <2>1, <2>2
<1>3. Transfer!Range(l) \subseteq DOMAIN tensors
  <2>1. CASE colocated
    <3>1. Counts(l, 0) /\ Len(l) <= Len(tensors)
      BY <2>1 DEF CarryInv, TurnsInv
    <3> HIDE DEF l
    <3>2. \A i \in DOMAIN l : l[i] \in DOMAIN tensors
      BY <1>1, <3>1 DEF Counts
    <3> QED
      BY <3>2 DEF Transfer!Range
  <2>2. CASE ~colocated
    <3>1. /\ \A i \in 1 .. Len(l) : l[i] \in 1 .. cpu[r].next - 1
          /\ cpu[r].next = Len(tensors) + 1
      BY <2>2 DEF CarryInv, LoadInv, InRange, Returned
    <3> HIDE DEF l
    <3>2. \A i \in DOMAIN l : l[i] \in DOMAIN tensors
      BY <1>1, <3>1
    <3> QED
      BY <3>2 DEF Transfer!Range
  <2> QED
    BY <2>1, <2>2
<1>4. DOMAIN tensors \subseteq Transfer!Range(l)
  <2> HIDE DEF l
  <2>1. DOMAIN l = 1 .. Len(l)
    BY <1>1
  <2> QED
    BY <1>2, <2>1 DEF HasLoaded, Transfer!Range
<1> QED
  BY <1>3, <1>4

\* What the two say of the state, before a step and after it.
SoFar ==
    /\ \A r \in Ranks : /\ Transfer!IsInjective(loaded[r])
                       /\ Transfer!Range(loaded[r]) \subseteq DOMAIN tensors
    /\ Drained /\ (\A r \in Ranks : Returned(r)) => Transfer!AllLoaded

LEMMA RefitTransfers ==
    ASSUME StreamInv, BroadcastInv, CarryInv, CarryInv', SoFar, SoFar',
           [RefitNext]_refitVars, Leaders = Ranks
    PROVE  [Transfer!Next]_(Transfer!transferVars)
<1>t. StreamType /\ LoadedType /\ LoadedType' /\ ControlInv
  BY DEF StreamInv, CarryInv
<1> DEFINE after == IF outcome' = "success" /\ ~Drained' THEN "none" ELSE outcome'
<1>a. Reported' = after
  BY DEF Reported
<1>1. CASE ControlSteps
  <2>1. /\ UNCHANGED <<tensors, loaded, sender, socket, receiver, cpu, stream,
                       colocated>>
        /\ Drained' = Drained
    BY <1>1 DEF ControlSteps, Drained, Members, Buffers
  <2>2. CASE outcome' = outcome
    <3>1. after = Reported
      BY <2>1, <2>2 DEF Reported
    <3> QED
      BY <2>1, <3>1 DEF Transfer!transferVars, Reported
  <2>3. CASE outcome' # outcome
    <3>1. outcome = "none" /\ Reported = "none"
      BY <1>1, <1>t, <2>3 DEF ControlSteps, ControlInv, Reported
    <3>2. CASE outcome' = "failure"
      <4>1. after = "failure"
        BY <3>2
      <4> QED
        BY <2>1, <3>1, <4>1 DEF Transfer!Next, Transfer!Fail, Reported
    <3>3. CASE outcome' # "failure"
      <4>1. outcome' = "success" /\ \A r \in Ranks : Returned(r)
        BY <1>1, <2>3, <3>3 DEF ControlSteps, UpdateSuccess
      <4>2. CASE Drained
        <5>1. Transfer!AllLoaded
          BY <4>1, <4>2 DEF SoFar
        <5>2. after = "success"
          BY <2>1, <4>1, <4>2
        <5> QED
          BY <2>1, <3>1, <5>1, <5>2 DEF Transfer!Next, Transfer!Succeed, Reported
      <4>3. CASE ~Drained
        <5>1. after = "none"
          BY <2>1, <4>1, <4>3
        <5> QED
          BY <2>1, <3>1, <5>1 DEF Transfer!transferVars, Reported
      <4> QED
        BY <4>2, <4>3
    <3> QED
      BY <3>2, <3>3
  <2> QED
    BY <2>2, <2>3
<1>l. ASSUME NEW r \in Ranks, NEW q \in Seq(Nat),
             q # <<>>, loaded[r] \o q \in Seq(Nat),
             loaded' = [loaded EXCEPT ![r] = loaded[r] \o q],
             UNCHANGED tensors, Reported # "success",
             \/ after = Reported
             \/ Reported = "none" /\ Transfer!AllLoaded' /\ after = "success"
      PROVE  Transfer!Next
  <2>1. /\ loaded' = [loaded EXCEPT ![r] = loaded'[r]]
        /\ Transfer!IsStrictPrefix(loaded[r], loaded'[r])
    BY <1>t, <1>l, LoadingMore
  <2>2. /\ Transfer!IsInjective(loaded[r])'
        /\ (Transfer!Range(loaded[r]) \subseteq DOMAIN tensors)'
    BY DEF SoFar
  <2>3. /\ Transfer!IsInjective(loaded'[r])
        /\ Transfer!Range(loaded'[r]) \subseteq DOMAIN tensors
    BY <1>l, <2>2 DEF Transfer!IsInjective, Transfer!Range
  <2> HIDE DEF after
  <2>4. /\ Reported # "success"
        /\ \/ Reported' = Reported
           \/ Reported = "none" /\ Transfer!AllLoaded' /\ Reported' = "success"
    BY <1>a, <1>l
  <2>5. Transfer!Load(r)
    BY <1>l, <2>1, <2>3, <2>4 DEF Transfer!Load, Reported
  <2> QED
    BY <2>5 DEF Transfer!Next
<1>2. CASE ~colocated /\ BroadcastStep /\ UNCHANGED <<ipcVars, controlVars>>
  <2>1. /\ tensors' = tensors /\ outcome' = outcome /\ colocated' = colocated
    BY <1>2 DEF controlVars, BroadcastStep
  <2>2. \/ UNCHANGED loaded
        \/ \E r \in Ranks : \E q \in Seq(Nat) :
               /\ q # <<>> /\ loaded[r] \o q \in Seq(Nat)
               /\ loaded' = [loaded EXCEPT ![r] = loaded[r] \o q]
    BY <1>2, <1>t, BroadcastLoads DEF CarryInv
  <2>3. CASE outcome # "success"
    <3>1. after = Reported /\ Reported # "success"
      BY <2>1, <2>3 DEF Reported
    <3>2. CASE UNCHANGED loaded
      BY <2>1, <3>1, <3>2 DEF Transfer!transferVars, Reported
    <3> QED
      BY <1>l, <2>1, <2>2, <3>1, <3>2
  <2>4. CASE outcome = "success"
    <3>1. \A m \in Members : cpu[m].pc = "returned"
      BY <1>2, <1>t, <2>4 DEF ControlInv
    <3>2. cpu' = cpu /\ ~Drained
      BY <1>2, <3>1, AllReturned
    <3>3. Reported = "none"
      BY <2>4, <3>2 DEF Reported
    <3>4. CASE Drained'
      <4>1. (\A r \in Ranks : Returned(r))'
        BY <1>2, <2>1, <3>1, <3>2, SourceIsMember DEF Returned
      <4>2. Transfer!AllLoaded'
        BY <3>4, <4>1 DEF SoFar
      <4>3. after = "success"
        BY <2>1, <2>4, <3>4
      <4>4. CASE UNCHANGED loaded
        <5>1. Transfer!AllLoaded
          BY <2>1, <4>2, <4>4 DEF Transfer!AllLoaded
        <5> QED
          BY <2>1, <3>3, <4>3, <4>4, <5>1
          DEF Transfer!Next, Transfer!Succeed, Reported
      <4> QED
        BY <1>l, <2>1, <2>2, <3>3, <4>2, <4>3, <4>4
    <3>5. CASE ~Drained'
      <4>1. after = Reported
        BY <2>1, <2>4, <3>3, <3>5
      <4>2. CASE UNCHANGED loaded
        BY <2>1, <4>1, <4>2 DEF Transfer!transferVars, Reported
      <4> QED
        BY <1>l, <2>1, <2>2, <3>3, <4>1, <4>2
    <3> QED
      BY <3>4, <3>5
  <2> QED
    BY <2>3, <2>4
<1>3. ASSUME NEW r \in Ranks,
             /\ colocated /\ phase = "transfer"
             /\ SenderStep(r) \/ ReceiverStep(r)
             /\ UNCHANGED <<tensors, bufferSize, broadcastVars, controlVars>>
      PROVE  [Transfer!Next]_(Transfer!transferVars)
  <2>1. /\ tensors' = tensors /\ outcome' = outcome /\ stream' = stream
    BY <1>3 DEF controlVars, broadcastVars
  <2>2. outcome = "none"
    BY <1>3, <1>t DEF ControlInv
  <2>3. after = "none" /\ Reported = "none"
    BY <2>1, <2>2 DEF Reported
  <2>4. TurnsInv(r)
    BY <1>3 DEF CarryInv
  <2>5. \/ loaded' = loaded
        \/ \E q \in Seq(Nat) :
                /\ q # <<>> /\ loaded[r] \o q \in Seq(Nat)
                /\ loaded' = [loaded EXCEPT ![r] = loaded[r] \o q]
    BY <1>3, <1>t, <2>4, StreamLoads
  <2>6. CASE loaded' = loaded
    BY <2>1, <2>3, <2>6 DEF Transfer!transferVars, Reported
  <2> QED
    BY <1>l, <2>1, <2>3, <2>5, <2>6
<1> QED
  BY <1>1, <1>2, <1>3, RefitMoves

\* A refit carries out a WeightTransfer, when the result of every rank counts:
\* no rank loads a tensor twice or one that the policy does not have, and a
\* refit that reports success has brought every tensor to every rank, in
\* whatever order the GPUs did their work (refit_policy_generation).
THEOREM RefitCarriesOut ==
    ASSUME Leaders = Ranks
    PROVE  RefitSpec => TransfersWeights
<1>1. RefitInit => Transfer!Init
  <2> SUFFICES ASSUME RefitInit PROVE Transfer!Init
    OBVIOUS
  <2>1. tensors \in Seq(Nat)
    <3>1. tensors \in Seq(Nat \ {0})
      BY WeightsAssumption DEF RefitInit, WeightsInit
    <3> QED
      BY <3>1
  <2> QED
    BY <2>1 DEF RefitInit, WeightsInit, Transfer!Init
<1>2. RefitInit => StreamInv /\ BroadcastInv /\ CarryInv
  BY StreamInit, BroadcastStarts, CarryStarts
<1>3. StreamInv /\ BroadcastInv /\ CarryInv /\ [RefitNext]_refitVars
          => StreamInv' /\ BroadcastInv' /\ CarryInv'
  BY StreamStep, BroadcastKeeps, CarryKeeps
<1>4. StreamInv /\ BroadcastInv /\ CarryInv => SoFar
  BY LoadedOnce, ReturnedHasLoaded DEF SoFar
<1>5. StreamInv /\ BroadcastInv /\ CarryInv /\ CarryInv' /\ SoFar /\ SoFar'
      /\ [RefitNext]_refitVars
          => [Transfer!Next]_(Transfer!transferVars)
  BY RefitTransfers
<1> QED
  BY <1>1, <1>2, <1>3, <1>4, <1>5, PTL DEF RefitSpec, TransfersWeights, Transfer!Spec
=============================================================================
