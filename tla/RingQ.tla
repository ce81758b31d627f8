------------------------------- MODULE RingQ --------------------------------
(***************************************************************************)
(* RingQ, the receive buffer of a session (Memory/RingBuffer.cpp).         *)
(*                                                                         *)
(* m_readPosition and m_writePosition are the indices of the byte read     *)
(* last and of the byte written last, so one cell always stays unused.     *)
(* Every access copies one or two contiguous segments of m_Buffer.         *)
(***************************************************************************)
EXTENDS Integers, Sequences

CONSTANTS Size,    \* RING_BUFFER_SIZE
          Zero,    \* the byte m_Buffer is initialised with
          Inputs   \* the byte strings written, none of them empty

ASSUME RingAssumption == Size \in Nat \ {0, 1}

ASSUME InputAssumption ==
    \A s \in Inputs : s # <<>> /\ s \in Seq({s[i] : i \in DOMAIN s})

VARIABLES readPosition,   \* m_readPosition
          writePosition,  \* m_writePosition
          buffer,         \* m_Buffer
          out             \* the bytes the last call returned

ringVars == <<readPosition, writePosition, buffer, out>>

Cells == 0..Size - 1

RingInit ==
    /\ readPosition = 0
    /\ writePosition = 0
    /\ buffer = [c \in Cells |-> Zero]
    /\ out = <<>>

-----------------------------------------------------------------------------
(***************************************************************************)
(* Sizes, as functions of the two positions                                *)
(***************************************************************************)

GetFreeSize(front, rear) ==
    IF (rear + 1) % Size = front THEN 0
    ELSE IF front > rear THEN front - rear - 1
    ELSE front + (Size - 1) - rear

GetUsedSize(front, rear) ==
    IF rear = front THEN 0
    ELSE IF front < rear THEN rear - front
    ELSE rear + (Size - 1) - front + 1

\* Slip: the contiguous part ignores the unread bytes behind it.
DirectEnqueueToEnd(front, rear) ==
    IF (rear + 1) % Size = front THEN 0 ELSE Size - ((rear + 1) % Size)

\* Free cells that follow rear without wrapping.
GetDirectEnqueueSize(front, rear) ==
    LET rearNext == (rear + 1) % Size
    IN  IF rearNext = front THEN 0
        ELSE IF rearNext < front THEN front - rearNext
        ELSE (Size - 1) - rearNext + 1

\* Unread cells that follow front without wrapping.
GetDirectDequeueSize(front, rear) ==
    LET nextFront == (front + 1) % Size
    IN  IF front = rear THEN 0
        ELSE IF nextFront <= rear THEN rear - nextFront + 1
        ELSE (Size - 1) - nextFront + 1

GetWriteSize == GetFreeSize(readPosition, writePosition)
GetReadSize  == GetUsedSize(readPosition, writePosition)

-----------------------------------------------------------------------------
(***************************************************************************)
(* Segments: what one memcpy, or one WSABUF, covers                        *)
(***************************************************************************)

Segment(at, len) == [at |-> at, len |-> len]

\* Slip: the second copy starts on the last cell of the first one.
SegmentsOverlap(position, direct, size) ==
    LET first == (position + 1) % Size
        last  == (first + direct - 1) % Size
    IN  IF direct < size
        THEN <<Segment(first, direct), Segment(last, size - direct)>>
        ELSE <<Segment(first, size)>>

\* Enqueue, Dequeue and Peek copy size bytes that start behind position; the
\* first direct ones are contiguous, the others start at the next cell.
Segments(position, direct, size) ==
    LET first == (position + 1) % Size
        last  == (first + direct - 1) % Size
    IN  IF direct < size
        THEN <<Segment(first, direct), Segment((last + 1) % Size, size - direct)>>
        ELSE <<Segment(first, size)>>

\* GetDirectEnQData: the WSABUFs for WSARecv, at most two.
GetDirectEnQData ==
    LET front == readPosition
        size1 == GetDirectEnqueueSize(front, writePosition)
        rear2 == (writePosition + size1) % Size
        size2 == GetDirectEnqueueSize(front, rear2)
    IN  IF size1 = 0 THEN <<>>
        ELSE IF size2 = 0 THEN <<Segment((writePosition + 1) % Size, size1)>>
        ELSE <<Segment((writePosition + 1) % Size, size1),
               Segment((rear2 + 1) % Size, size2)>>

InSegment(c, seg) == seg.at <= c /\ c < seg.at + seg.len

\* The leading bytes of s go to the segments one after the other.
CopyIn(segs, s) ==
    [c \in Cells |->
        LET before(k) == IF k = 1 THEN 0 ELSE segs[1].len
            hit == {k \in 1..Len(segs) :
                        InSegment(c, segs[k]) /\ before(k) + c - segs[k].at < Len(s)}
        IN  IF hit = {} THEN buffer[c]
            ELSE LET k == CHOOSE k \in hit : TRUE
                 IN  s[before(k) + c - segs[k].at + 1]]

CopyOut(segs) ==
    LET bytes(seg) == [i \in 1..seg.len |-> buffer[seg.at + i - 1]]
    IN  IF Len(segs) = 1 THEN bytes(segs[1]) ELSE bytes(segs[1]) \o bytes(segs[2])

\* The position after a copy of these segments.
LastCell(segs) ==
    LET seg == segs[Len(segs)] IN (seg.at + seg.len - 1) % Size

-----------------------------------------------------------------------------
(***************************************************************************)
(* Operations                                                              *)
(***************************************************************************)

\* RingQ::Enqueue stores what fits and returns its size.
Enqueue(s) ==
    LET free == GetFreeSize(readPosition, writePosition)
        size == IF free < Len(s) THEN free ELSE Len(s)
        segs == Segments(writePosition,
                         GetDirectEnqueueSize(readPosition, writePosition), size)
    IN  /\ IF size = 0 THEN UNCHANGED <<buffer, writePosition>>
           ELSE /\ buffer' = CopyIn(segs, SubSeq(s, 1, size))
                /\ writePosition' = LastCell(segs)
        /\ out' = <<>>
        /\ UNCHANGED readPosition

\* RingQ::Dequeue copies the oldest bytes out, at most n.
Dequeue(n) ==
    LET used == GetUsedSize(readPosition, writePosition)
        size == IF used < n THEN used ELSE n
        segs == Segments(readPosition,
                         GetDirectDequeueSize(readPosition, writePosition), size)
    IN  /\ IF size = 0 THEN UNCHANGED readPosition /\ out' = <<>>
           ELSE /\ out' = CopyOut(segs)
                /\ readPosition' = LastCell(segs)
        /\ UNCHANGED <<buffer, writePosition>>

\* RingQ::Peek: Dequeue without moving the position.
Peek(n) ==
    LET used == GetUsedSize(readPosition, writePosition)
        size == IF used < n THEN used ELSE n
        segs == Segments(readPosition,
                         GetDirectDequeueSize(readPosition, writePosition), size)
    IN  /\ out' = IF size = 0 THEN <<>> ELSE CopyOut(segs)
        /\ UNCHANGED <<buffer, readPosition, writePosition>>

\* Slip: the position moves past the end of the buffer.
MoveWithoutWrap(position, n) == position + n

\* MoveWitePosition, MoveReadPosition.
Move(position, n) == (position + n) % Size

\* WSARecv fills the WSABUFs in order with the n leading bytes of s, and its
\* completion calls MoveWitePosition(n).
ReceiveDirect(s) ==
    /\ Len(s) <= GetWriteSize
    /\ buffer' = CopyIn(GetDirectEnQData, s)
    /\ writePosition' = Move(writePosition, Len(s))
    /\ out' = <<>>
    /\ UNCHANGED readPosition

\* RingQ::MoveReadPosition, by the caller that parsed n bytes in place.
MoveReadPosition(n) ==
    /\ n <= GetReadSize
    /\ readPosition' = Move(readPosition, n)
    /\ out' = <<>>
    /\ UNCHANGED <<buffer, writePosition>>

ClearBuffer ==
    /\ readPosition' = 0
    /\ writePosition' = 0
    /\ out' = <<>>
    /\ UNCHANGED buffer

RingNext ==
    \/ \E s \in Inputs : Enqueue(s) \/ ReceiveDirect(s)
    \/ \E n \in 1..Size : Dequeue(n) \/ Peek(n) \/ MoveReadPosition(n)
    \/ ClearBuffer

RingSpec == RingInit /\ [][RingNext]_ringVars

-----------------------------------------------------------------------------
\* Both positions stay inside m_Buffer.
RingTypeOK == readPosition \in Cells /\ writePosition \in Cells

\* The bytes written and not yet read, oldest first.
Unread == [i \in 1..GetReadSize |-> buffer[(readPosition + i) % Size]]

\* GetReadSize and GetWriteSize are computed from different cases of the same
\* two positions; together they always account for every cell but one.
SizesAddUp == GetReadSize + GetWriteSize = Size - 1

\* The WSABUFs handed to WSARecv stay inside m_Buffer, never cover an unread
\* byte, do not overlap and together offer exactly the free bytes.
DirectSegmentsFree ==
    LET segs   == GetDirectEnQData
        unread == {(readPosition + i) % Size : i \in 1..GetReadSize}
        covers(k) == segs[k].at..(segs[k].at + segs[k].len - 1)
    IN  /\ \A k \in 1..Len(segs) : covers(k) \subseteq Cells \ unread
        /\ Len(segs) = 2 => covers(1) \intersect covers(2) = {}
        /\ GetWriteSize = (IF Len(segs) > 0 THEN segs[1].len ELSE 0)
                            + (IF Len(segs) > 1 THEN segs[2].len ELSE 0)

Queue == INSTANCE ByteQueue WITH Capacity <- Size - 1, content <- Unread

\* Whatever the positions, wrapped or not, RingQ is a first-in first-out queue
\* of Size - 1 bytes: no call loses, repeats or reorders a byte.
ImplementsQueue == Queue!Spec
=============================================================================
