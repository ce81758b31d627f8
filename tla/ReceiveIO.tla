----------------------------- MODULE ReceiveIO ------------------------------
(***************************************************************************)
(* The receive path of one session: the bytes of the peer's messages come  *)
(* in pieces of any size, NetworkTaskReceiveIO has WSARecv store them in   *)
(* the session's RingQ, cuts them into messages again, and                 *)
(* NetworkSession::OnRecvMessage pushes each one to the JobQueue.          *)
(*                                                                         *)
(* At most one NetworkTaskReceiveIO exists per session, so Start and       *)
(* Complete are the only users of the ring.  The task keeps the value of   *)
(* m_socket when the session is removed: a WSARecv after that may reach    *)
(* another connection, and the ring then holds bytes of both.              *)
(*                                                                         *)
(* A byte is the pair <<m, i>>: byte i, counted from 0, of the peer's m-th *)
(* message.  The first Header bytes of a message hold its length.          *)
(***************************************************************************)
EXTENDS RingQ

CONSTANTS Header,   \* PACKET_HEADER_SIZE
          Lengths,  \* payload lengths the peer sends
          Verdicts, \* what the flatbuffers verifier says of the peer's messages
          MaxMsgs   \* bound: messages sent by the peer

ASSUME ReceiveAssumption ==
    /\ Header \in Nat \ {0}
    /\ Lengths \subseteq Nat
    /\ Verdicts \subseteq BOOLEAN
    /\ MaxMsgs \in Nat

VARIABLES
    sent,        \* the peer's messages, [len, valid]; invalid: a buffer that the
                 \* flatbuffers verifier rejects
    wire,        \* bytes sent and not yet received
    peer,        \* "open", "closed" (orderly) or "reset"
    socketOpen,  \* m_socket has not been closed by this process
    inSessions,  \* the session is in NetworkServer::m_sessions
    task,        \* the NetworkTaskReceiveIO of the session
    parsed,      \* history: messages cut off the ring so far
    delivered,   \* history: what was pushed to the JobQueue; 0 is a message
                 \* whose bytes are not those the peer sent
    spoiled      \* history: Complete read or wrote behind the end of m_Buffer,
                 \* or bytes of another connection were stored in the ring

peerVars == <<sent, wire, peer>>
vars == <<ringVars, peerVars, socketOpen, inSessions, task, parsed, delivered,
          spoiled>>

\* "posted": WorkerPush(task), "receiving": WSARecv is pending, "straying":
\* WSARecv is pending on another connection, "parsing": in the loop of
\* Complete, "deleted": Run returned false.
TaskStates == {"posted", "receiving", "straying", "parsing", "deleted"}

Init ==
    /\ RingInit
    /\ sent = <<>>
    /\ wire = <<>>
    /\ peer = "open"
    /\ socketOpen = TRUE
    /\ inSessions = TRUE
    /\ task = "posted"
    /\ parsed = 0
    /\ delivered = <<>>
    /\ spoiled = FALSE

-----------------------------------------------------------------------------
(***************************************************************************)
(* The peer and the other threads of this process                          *)
(***************************************************************************)

PeerSend(len, valid) ==
    /\ peer = "open"
    /\ Len(sent) < MaxMsgs
    /\ sent' = Append(sent, [len |-> len, valid |-> valid])
    /\ wire' = wire \o [i \in 1..Header + len |-> <<Len(sent) + 1, i - 1>>]
    /\ UNCHANGED <<ringVars, peer, socketOpen, inSessions, task, parsed,
                   delivered, spoiled>>

\* An orderly close keeps what is on its way, a reset drops it.
PeerLeave(how) ==
    /\ peer = "open"
    /\ peer' = how
    /\ wire' = IF how = "reset" THEN <<>> ELSE wire
    /\ UNCHANGED <<ringVars, sent, socketOpen, inSessions, task, parsed,
                   delivered, spoiled>>

\* NetworkServer::RemoveSession by another thread: closesocket, then erase.
RemoveSession ==
    /\ inSessions
    /\ inSessions' = FALSE
    /\ socketOpen' = FALSE
    /\ UNCHANGED <<ringVars, peerVars, task, parsed, delivered, spoiled>>

-----------------------------------------------------------------------------
(***************************************************************************)
(* NetworkTaskReceiveIO                                                    *)
(***************************************************************************)

\* What Start does when it is reached: without room it gives up; WSARecv may
\* be refused on a socket that is closed or reset, and is accepted otherwise.
\* Disconnect leaves m_socket as it is: when the system has given the handle to
\* another connection meanwhile, WSARecv is accepted there.
StartOutcome(t) ==
    \/ GetWriteSize <= 0 /\ t = "deleted"
    \/ /\ GetWriteSize > 0
       /\ \/ t = "deleted" /\ (~socketOpen \/ peer = "reset")
          \/ t = "receiving" /\ socketOpen
          \/ t = "straying" /\ ~socketOpen

\* Run with EStep::None.
Start ==
    /\ task = "posted"
    /\ \E t \in TaskStates : StartOutcome(t) /\ task' = t
    /\ UNCHANGED <<ringVars, peerVars, socketOpen, inSessions, parsed,
                   delivered, spoiled>>

\* Complete with data: WSARecv stored the next n bytes in the WSABUFs it was
\* given; MoveWitePosition(n).
CompleteData(n) ==
    /\ task = "receiving"
    /\ n <= Len(wire)
    /\ n <= GetWriteSize
    /\ buffer' = CopyIn(GetDirectEnQData, SubSeq(wire, 1, n))
    /\ writePosition' = Move(writePosition, n)
    /\ wire' = SubSeq(wire, n + 1, Len(wire))
    /\ task' = "parsing"
    /\ UNCHANGED <<readPosition, out, sent, peer, socketOpen, inSessions,
                   parsed, delivered, spoiled>>

\* Slip: an aborted WSARecv is issued again instead of ending the task.
AfterFailureRetries == "receiving"

\* Complete returns false, and the worker deletes the task.
AfterFailure == "deleted"

\* Complete with a failure or with 0 bytes: the session is removed.
CompleteFailed ==
    /\ task = "receiving"
    /\ ~socketOpen \/ peer = "reset" \/ (peer = "closed" /\ wire = <<>>)
    /\ inSessions' = FALSE
    /\ socketOpen' = FALSE
    /\ task' = AfterFailure
    /\ UNCHANGED <<ringVars, peerVars, parsed, delivered, spoiled>>

\* A byte of another connection.
Foreign == <<0, -1>>

\* Bound: bytes of another connection arrive in one completion.
StraysOnce == ~spoiled

\* Complete with data of another connection.
CompleteStrayed(n) ==
    /\ task = "straying"
    /\ StraysOnce
    /\ n <= GetWriteSize
    /\ buffer' = CopyIn(GetDirectEnQData, [i \in 1..n |-> Foreign])
    /\ writePosition' = Move(writePosition, n)
    /\ task' = "parsing"
    /\ spoiled' = TRUE
    /\ UNCHANGED <<readPosition, out, peerVars, socketOpen, inSessions, parsed,
                   delivered>>

\* Complete when the other connection ended: RemoveSession does not find the
\* session of this task.
StrayFailed ==
    /\ task = "straying"
    /\ task' = AfterFailure
    /\ UNCHANGED <<ringVars, peerVars, socketOpen, inSessions, parsed, delivered,
                   spoiled>>

\* GetReadBufferPtr: where the linear view of the unread bytes begins.
ReadIndex == (readPosition + 1) % Size

\* The n bytes from ReadIndex on lie inside m_Buffer.
InBuffer(n) == ReadIndex + n <= Size

\* Values a length read from bytes that are no header may have.
AnyLength == {-1} \union 0..Size

\* ReadScalar(packet): the length, if the Header bytes at ReadIndex are the
\* header of a message.  Bytes behind m_Buffer belong to the next member of
\* NetworkSession and may have any value.
MessageSizes ==
    LET m == buffer[ReadIndex][1]
    IN  IF /\ InBuffer(Header)
           /\ \A i \in 0..Header - 1 : buffer[ReadIndex + i] = <<m, i>>
        THEN {sent[m].len} ELSE AnyLength

\* Slip: a header that announces one byte more than has arrived is accepted.
FitsOffByOne(size) == 0 <= size /\ size <= GetReadSize - Header + 1

\* The test of the parse loop.
Fits(size) == 0 <= size /\ size <= GetReadSize - Header

\* The message at ReadIndex, Header + size bytes long, is pushed to the
\* JobQueue when the verifier accepts it.  Convert decrypts it in place.  Of
\* bytes that are not one message of the peer nobody knows what the verifier
\* says; what it accepts is pushed as 0.
Hand(size) ==
    LET m == buffer[ReadIndex][1]
        whole == /\ InBuffer(Header + size)
                 /\ \A i \in 0..Header + size - 1 : buffer[ReadIndex + i] = <<m, i>>
    IN  IF whole
        THEN delivered' = IF sent[m].valid THEN Append(delivered, m) ELSE delivered
        ELSE delivered' \in {delivered, Append(delivered, 0)}

\* One round of the parse loop in Complete.
ParseMessage ==
    /\ task = "parsing"
    /\ GetReadSize >= Header
    /\ \E size \in MessageSizes :
          /\ Fits(size)
          /\ readPosition' = Move(readPosition, Header + size)
          /\ Hand(size)
          /\ spoiled' = (spoiled \/ ~InBuffer(Header + size))
    /\ parsed' = parsed + 1
    /\ UNCHANGED <<writePosition, buffer, out, peerVars, socketOpen, inSessions,
                   task>>

\* Slip: Complete parses one message per completion.
StopsEarly(size) == ~Fits(size) \/ parsed > 0

\* The loop ends at a message that announces size bytes.
Stops(size) == ~Fits(size)

\* The loop ends: too few bytes for a header or for the message it announces.
\* Complete goes on to Start.
ParseDone ==
    /\ task = "parsing"
    /\ \/ GetReadSize < Header /\ UNCHANGED spoiled
       \/ /\ GetReadSize >= Header
          /\ \E size \in MessageSizes : Stops(size)
          /\ spoiled' = (spoiled \/ ~InBuffer(Header))
    /\ \E t \in TaskStates : StartOutcome(t) /\ task' = t
    /\ UNCHANGED <<ringVars, peerVars, socketOpen, inSessions, parsed, delivered>>

-----------------------------------------------------------------------------
TaskStep ==
    \/ Start
    \/ \E n \in 1..Size : CompleteData(n)
    \/ CompleteFailed
    \/ ParseMessage
    \/ ParseDone

\* What happens on the other connection is up to its peer.
OtherConnection ==
    \/ \E n \in 1..Size : CompleteStrayed(n)
    \/ StrayFailed

Next ==
    \/ \E len \in Lengths, valid \in Verdicts : PeerSend(len, valid)
    \/ \E how \in {"closed", "reset"} : PeerLeave(how)
    \/ RemoveSession
    \/ TaskStep
    \/ OtherConnection

Spec == Init /\ [][Next]_vars

\* IOCP hands a posted or completed task to a worker, and the stack completes a
\* WSARecv for which there is data or an error.
FairSpec == Spec /\ WF_vars(TaskStep)

-----------------------------------------------------------------------------
\* The byte after b in the peer's stream.
Successor(b) ==
    IF b[2] + 1 < Header + sent[b[1]].len THEN <<b[1], b[2] + 1>> ELSE <<b[1] + 1, 0>>

\* The bytes in the ring, followed by those on their way, continue the stream
\* where parsing stopped: with the header of message parsed + 1.
InSync ==
    LET rest == Unread \o wire
    IN  /\ rest # <<>> => rest[1] = <<parsed + 1, 0>>
        /\ \A i \in 1..Len(rest) - 1 : rest[i + 1] = Successor(rest[i])
        /\ rest = <<>> /\ peer # "reset" => parsed = Len(sent)

\* The JobQueue got the valid ones of the messages parsed, in order.
DeliveredInOrder ==
    /\ {delivered[k] : k \in DOMAIN delivered} = {m \in 1..parsed : sent[m].valid}
    /\ \A j, k \in DOMAIN delivered : j < k => delivered[j] < delivered[k]

\* However the stream is cut into completions and wherever the ring wraps
\* between two messages, Complete reassembles exactly the messages that were
\* sent, as long as no message lies across the end of m_Buffer and no byte of
\* another connection was received.
Reassembled == ~spoiled => InSync /\ DeliveredInOrder

\* README, "Session serialization" 1: a received packet is pushed to the
\* JobQueue of its session; here, as long as the session is registered.
ReceivedIsPushed == inSessions => DeliveredInOrder

\* The task does not receive on its session's connection any more, and does not
\* come back to it.
Off == task \in {"straying", "deleted"}

\* A message that has arrived is parsed without waiting for more bytes, unless
\* the task ended or lost its connection.
EveryMessageParsed ==
    \A n \in 1..MaxMsgs : (Len(sent) >= n) ~> (parsed >= n \/ spoiled \/ Off)

\* Closing the socket, by RemoveSession in any thread, ends the reception of
\* the connection: the task is deleted, or its next WSARecv goes to whatever
\* connection m_socket stands for by then.
CloseEndsReception == ~socketOpen ~> Off
=============================================================================
