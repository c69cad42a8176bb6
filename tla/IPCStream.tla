------------------------------ MODULE IPCStream ------------------------------
(***************************************************************************)
(* The refit of an engine that shares the policy's GPUs: on every GPU the  *)
(* policy's worker (models/policy/utils.py) packs tensors into two buffers *)
(* in turn and tells the engine's worker (vllm_backend.py), through a ZMQ  *)
(* socket, where to read.  The sender owns the memory, the receiver reads  *)
(* it directly: only the acknowledgements keep the two apart.              *)
(*                                                                         *)
(* One action is what a side does between two uses of the socket or of the *)
(* shared memory.  The two sockets are REQ and REP: a REQ socket that has  *)
(* an unanswered request refuses to send.                                  *)
(***************************************************************************)
EXTENDS EngineWeights

CONSTANTS Align,            \* alignment of tensors in a buffer, in bytes
          BufferSizes       \* the amounts of free memory considered

ASSUME StreamingAssumption ==
    /\ Align \in Nat \ {0}
    /\ BufferSizes \subseteq Nat

VARIABLES
    bufferSize,     \* buffer_size_bytes, of both buffers together
    sender,         \* stream_weights_via_ipc_zmq_impl, by rank
    memory,         \* the two buffers of each rank: the tensors in them
    socket,         \* the message under way: none, a request or the answer
    receiver        \* update_weights_via_ipc_zmq, by rank

ipcVars == <<bufferSize, sender, memory, socket, receiver>>

None == [kind |-> "none"]
Complete == [kind |-> "complete"]
Answer == [kind |-> "ACK"]
Group(b, names, used) ==
    [kind |-> "group", buffer |-> b, names |-> names, used |-> used]

IsRequest(m) == m.kind \in {"group", "complete"}

Half == bufferSize \div 2

Aligned(n) == ((n + Align - 1) \div Align) * Align

IPCInit ==
    /\ bufferSize \in BufferSizes
    /\ sender = [r \in Ranks |-> [pc |-> "pack", next |-> 1, used |-> 0,
                    names |-> <<>>, buffer |-> 1, awaitRecv |-> FALSE]]
    /\ memory = [r \in Ranks |-> [b \in {1, 2} |-> <<>>]]
    /\ socket = [r \in Ranks |-> None]
    /\ receiver = [r \in Ranks |-> [pc |-> "receive", payload |-> None]]

-----------------------------------------------------------------------------
\* The sender.

Fits(s) == s.used + Aligned(tensors[s.next]) <= Half

TooLarge(s) == Aligned(tensors[s.next]) > Half

MoreTensors(s) == s.next <= Len(tensors)

PackTensor(r) ==
    LET s == sender[r]
        before == IF s.used = 0 THEN <<>> ELSE memory[r][s.buffer]
    IN  /\ s.pc = "pack" /\ MoreTensors(s)
        /\ ~TooLarge(s) /\ Fits(s)
        /\ memory' = [memory EXCEPT ![r][s.buffer] = Append(before, s.next)]
        /\ sender' = [sender EXCEPT ![r].next = @ + 1,
                                    ![r].used = @ + Aligned(tensors[s.next]),
                                    ![r].names = Append(@, s.next)]
        /\ UNCHANGED <<socket, receiver, loaded, faults>>

\* assert aligned_size <= buffer_size_bytes.
RejectTensor(r) ==
    LET s == sender[r]
    IN  /\ s.pc = "pack" /\ MoreTensors(s)
        /\ TooLarge(s)
        /\ sender' = [sender EXCEPT ![r].pc = "raised"]
        /\ UNCHANGED <<memory, socket, receiver, loaded, faults>>

\* The group is due: the next tensor does not fit, or none is left.
GroupDue(s) ==
    /\ s.pc = "pack" /\ s.names # <<>>
    /\ MoreTensors(s) => ~TooLarge(s) /\ ~Fits(s)

\* "if await_recv: zmq_socket.recv()"
MaySend(r) == sender[r].awaitRecv => socket[r] = Answer

\* What a REQ socket does: with an unanswered request it raises instead.
Request(r, m, s) ==
    IF sender[r].awaitRecv /\ socket[r] # Answer
    THEN /\ sender' = [sender EXCEPT ![r].pc = "protocol error"]
         /\ UNCHANGED socket
    ELSE /\ sender' = [sender EXCEPT ![r] = s]
         /\ socket' = [socket EXCEPT ![r] = m]

\* mutant: goes on in the same buffer.
OtherBufferSame(b) == b

OtherBuffer(b) == 3 - b

SendGroup(r) ==
    LET s == sender[r]
    IN  /\ GroupDue(s)
        /\ MaySend(r)
        /\ Request(r, Group(s.buffer, s.names, s.used),
                   [s EXCEPT !.used = 0, !.names = <<>>, !.awaitRecv = TRUE,
                             !.buffer = OtherBuffer(@)])
        /\ UNCHANGED <<memory, receiver, loaded, faults>>

CompleteDue(s) == s.pc = "pack" /\ ~MoreTensors(s) /\ s.names = <<>>

SendComplete(r) ==
    LET s == sender[r]
    IN  /\ CompleteDue(s)
        /\ MaySend(r)
        /\ Request(r, Complete, [s EXCEPT !.pc = "last", !.awaitRecv = TRUE])
        /\ UNCHANGED <<memory, receiver, loaded, faults>>

EndSending(r) ==
    /\ sender[r].pc = "last"
    /\ socket[r] = Answer
    /\ sender' = [sender EXCEPT ![r].pc = "returned", ![r].awaitRecv = FALSE]
    /\ socket' = [socket EXCEPT ![r] = None]
    /\ UNCHANGED <<memory, receiver, loaded, faults>>

\* mutant: no time-out is set.
SenderWaits(r) == FALSE

\* zmq.Again after 120 seconds in recv(): certain when the receiver is gone,
\* and possible when it is only slow.
SenderTimesOut(r) ==
    LET s == sender[r]
        gone == receiver[r].pc = "failed"
    IN  /\ s.awaitRecv /\ socket[r] # Answer
        /\ GroupDue(s) \/ CompleteDue(s) \/ s.pc = "last"
        /\ gone \/ faults > 0
        /\ faults' = IF gone THEN faults ELSE faults - 1
        /\ sender' = [sender EXCEPT ![r].pc = "raised"]
        /\ UNCHANGED <<memory, socket, receiver, loaded>>

-----------------------------------------------------------------------------
\* The receiver.

ReceiveMessage(r) ==
    /\ receiver[r].pc = "receive"
    /\ IsRequest(socket[r])
    /\ receiver' = [receiver EXCEPT ![r].payload = socket[r],
           ![r].pc = IF socket[r] = Complete THEN "process" ELSE "load"]
    /\ socket' = [socket EXCEPT ![r] = None]
    /\ UNCHANGED <<sender, memory, loaded, faults>>

\* load_weights through views of the sender's buffer, then synchronize.
LoadGroup(r) ==
    /\ receiver[r].pc = "load"
    /\ loaded' = [loaded EXCEPT ![r] =
                     @ \o memory[r][receiver[r].payload.buffer]]
    /\ receiver' = [receiver EXCEPT ![r].pc = "answer"]
    /\ UNCHANGED <<sender, memory, socket, faults>>

AnswerGroup(r) ==
    /\ receiver[r].pc = "answer"
    /\ socket' = [socket EXCEPT ![r] = Answer]
    /\ receiver' = [receiver EXCEPT ![r].pc = "receive", ![r].payload = None]
    /\ UNCHANGED <<sender, memory, loaded, faults>>

\* process_weights_after_loading and the last answer.
ProcessComplete(r) ==
    /\ receiver[r].pc = "process"
    /\ socket' = [socket EXCEPT ![r] = Answer]
    /\ receiver' = [receiver EXCEPT ![r].pc = "finish", ![r].payload = None]
    /\ UNCHANGED <<sender, memory, loaded, faults>>

\* _maybe_process_fp8_kv_cache, "return True".
EndReceiving(r) ==
    /\ receiver[r].pc = "finish"
    /\ receiver' = [receiver EXCEPT ![r].pc = "returned"]
    /\ UNCHANGED <<sender, memory, socket, loaded, faults>>

\* An exception anywhere, a time-out of recv_pyobj among them: "return
\* False", and no answer.
ReceiverFails(r) ==
    LET gone == sender[r].pc \in {"raised", "protocol error"}
        waiting == receiver[r].pc = "receive" /\ ~IsRequest(socket[r])
    IN  /\ receiver[r].pc \in {"receive", "load", "process", "finish"}
        /\ (waiting /\ gone) \/ faults > 0
        /\ faults' = IF waiting /\ gone THEN faults ELSE faults - 1
        /\ receiver' = [receiver EXCEPT ![r].pc = "failed", ![r].payload = None]
        /\ UNCHANGED <<sender, memory, socket, loaded>>

-----------------------------------------------------------------------------
\* What the caller waits for.

\* One of the policy's workers raised; all of them returned.
SenderRaised == \E r \in Ranks : sender[r].pc \in {"raised", "protocol error"}
SendersReturned == \A r \in Ranks : sender[r].pc = "returned"

IPCEnded(r) == receiver[r].pc \in {"returned", "failed"}

SenderStep(r) ==
    \/ PackTensor(r) \/ RejectTensor(r) \/ SendGroup(r) \/ SendComplete(r)
    \/ EndSending(r) \/ SenderTimesOut(r)

ReceiverStep(r) ==
    \/ ReceiveMessage(r) \/ LoadGroup(r) \/ AnswerGroup(r)
    \/ ProcessComplete(r) \/ EndReceiving(r) \/ ReceiverFails(r)

-----------------------------------------------------------------------------
\* Properties.

\* Where the receiver reads, and the sizes it expects, are what the sender
\* wrote: a buffer is not filled again before its group has been loaded
\* ("Delete views before ACK to prevent corruption").
ReadsWhatWasSent ==
    \A r \in Ranks : receiver[r].pc = "load" =>
        memory[r][receiver[r].payload.buffer] = receiver[r].payload.names

\* No group is larger than the buffer it lies in, and requests and answers
\* alternate, as REQ and REP sockets demand.
KeepsProtocol ==
    \A r \in Ranks :
        /\ sender[r].used <= Half
        /\ sender[r].pc # "protocol error"

\* The acknowledgements keep sender and receiver apart, in the memory they
\* share and on the socket.
StreamingSafe == ReadsWhatWasSent /\ KeepsProtocol
=============================================================================
