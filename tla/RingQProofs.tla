---------------------------- MODULE RingQProofs -----------------------------
(***************************************************************************)
(* Proofs about RingQ, for a ring of any size and any byte strings, and    *)
(* about ReceiveIO, which extends it, for any messages the peer sends.     *)
(***************************************************************************)
EXTENDS ReceiveIO, SequenceTheorems, TLAPS

\* An input is a sequence of at least one byte.
LEMMA InputFacts ==
    ASSUME NEW s \in Inputs
    PROVE  /\ Len(s) \in Nat /\ Len(s) > 0
           /\ s \in Seq({s[i] : i \in DOMAIN s}) /\ DOMAIN s = 1..Len(s)
<1>1. s \in Seq({s[i] : i \in DOMAIN s}) /\ s # <<>>
    BY InputAssumption
<1> QED  BY <1>1

\* A remainder is a cell.
LEMMA ModCell ==
    ASSUME NEW a \in Int
    PROVE  a % Size \in Cells
BY RingAssumption DEF Cells

\* The cell behind another one.
LEMMA ModNext ==
    ASSUME NEW a \in Cells
    PROVE  (a + 1) % Size = IF a = Size - 1 THEN 0 ELSE a + 1
BY RingAssumption DEF Cells

\* A sum of two cells wraps at most once.
LEMMA ModWrap ==
    ASSUME NEW a \in Cells, NEW b \in 0..Size
    PROVE  (a + b) % Size = IF a + b < Size THEN a + b ELSE a + b - Size
BY RingAssumption DEF Cells

\* What the sizes are, for any two positions.
LEMMA Sizes ==
    ASSUME NEW front \in Cells, NEW rear \in Cells
    PROVE  /\ GetFreeSize(front, rear) \in 0..Size - 1
           /\ GetUsedSize(front, rear) \in 0..Size - 1
           /\ GetUsedSize(front, rear) + GetFreeSize(front, rear) = Size - 1
           /\ GetDirectEnqueueSize(front, rear) \in 0..GetFreeSize(front, rear) + 1
           /\ GetDirectDequeueSize(front, rear) \in 0..GetUsedSize(front, rear)
<1> USE RingAssumption, ModNext
<1>1. /\ GetFreeSize(front, rear) \in 0..Size - 1
      /\ GetUsedSize(front, rear) \in 0..Size - 1
      /\ GetUsedSize(front, rear) + GetFreeSize(front, rear) = Size - 1
    BY DEF GetFreeSize, GetUsedSize, Cells
<1>2. GetDirectEnqueueSize(front, rear) \in 0..GetFreeSize(front, rear) + 1
    BY DEF GetFreeSize, GetDirectEnqueueSize, Cells
<1>3. GetDirectDequeueSize(front, rear) \in 0..GetUsedSize(front, rear)
    <2>1. CASE front = Size - 1
        <3>1. (front + 1) % Size = 0
            BY <2>1
        <3> QED  BY <2>1, <3>1 DEF GetUsedSize, GetDirectDequeueSize, Cells
    <2>2. CASE front # Size - 1
        <3>1. (front + 1) % Size = front + 1
            BY <2>2
        <3> QED  BY <2>2, <3>1 DEF GetUsedSize, GetDirectDequeueSize, Cells
    <2> QED  BY <2>1, <2>2
<1> QED  BY <1>1, <1>2, <1>3

\* The position a copy ends on is a cell.
LEMMA LastCellInside ==
    ASSUME NEW position \in Cells, NEW direct \in Nat, NEW size \in Nat
    PROVE  LastCell(Segments(position, direct, size)) \in Cells
<1>1. PICK first \in Cells : first = (position + 1) % Size
    <2>1. position + 1 \in Int
        BY RingAssumption DEF Cells
    <2> QED  BY <2>1, ModCell
<1>2. CASE direct < size
    <2>1. PICK last \in Cells : last = (first + direct - 1) % Size
        <3>1. first + direct - 1 \in Int
            BY RingAssumption DEF Cells
        <3> QED  BY <3>1, ModCell
    <2>2. PICK second \in Cells : second = (last + 1) % Size
        <3>1. last + 1 \in Int
            BY RingAssumption DEF Cells
        <3> QED  BY <3>1, ModCell
    <2>3. Segments(position, direct, size) =
            <<Segment(first, direct), Segment(second, size - direct)>>
        BY <1>1, <1>2, <2>1, <2>2 DEF Segments
    <2>4. LastCell(Segments(position, direct, size)) = (second + (size - direct) - 1) % Size
        BY <2>3 DEF LastCell, Segment
    <2>5. second + (size - direct) - 1 \in Int
        BY RingAssumption DEF Cells
    <2> QED  BY <2>4, <2>5, ModCell
<1>3. CASE ~(direct < size)
    <2>1. Segments(position, direct, size) = <<Segment(first, size)>>
        BY <1>1, <1>3 DEF Segments
    <2>2. LastCell(Segments(position, direct, size)) = (first + size - 1) % Size
        BY <2>1 DEF LastCell, Segment
    <2>3. first + size - 1 \in Int
        BY RingAssumption DEF Cells
    <2> QED  BY <2>2, <2>3, ModCell
<1> QED  BY <1>2, <1>3

\* Moving a position leads to a cell.
LEMMA MoveInside ==
    ASSUME NEW position \in Cells, NEW n \in Nat
    PROVE  Move(position, n) \in Cells
<1>1. position + n \in Int
    BY RingAssumption DEF Cells
<1> QED  BY <1>1, ModCell DEF Move

\* Every call keeps both positions inside m_Buffer.
LEMMA PositionsInside == RingTypeOK /\ [RingNext]_ringVars => RingTypeOK'
<1> SUFFICES ASSUME RingTypeOK, [RingNext]_ringVars
             PROVE  RingTypeOK'
    OBVIOUS
<1> USE RingAssumption
<1>r. readPosition \in Cells /\ writePosition \in Cells
    BY DEF RingTypeOK
<1>1. ASSUME NEW s \in Inputs, Enqueue(s)
      PROVE  RingTypeOK'
    <2>a. PICK free \in Nat, direct \in Nat :
            /\ free = GetFreeSize(readPosition, writePosition)
            /\ direct = GetDirectEnqueueSize(readPosition, writePosition)
        <3>1. /\ GetFreeSize(readPosition, writePosition) \in 0..Size - 1
              /\ GetDirectEnqueueSize(readPosition, writePosition) \in Nat
            BY <1>r, Sizes
        <3> QED  BY <3>1
    <2>1. PICK size \in Nat : size = IF free < Len(s) THEN free ELSE Len(s)
        BY InputFacts
    <2>2. writePosition' = writePosition
            \/ writePosition' = LastCell(Segments(writePosition, direct, size))
        BY <1>1, <2>a, <2>1 DEF Enqueue
    <2>3. readPosition' = readPosition
        BY <1>1 DEF Enqueue
    <2> QED  BY <2>2, <2>3, <1>r, LastCellInside DEF RingTypeOK
<1>2. ASSUME NEW s \in Inputs, ReceiveDirect(s)
      PROVE  RingTypeOK'
    BY <1>2, <1>r, MoveInside, InputFacts DEF ReceiveDirect, RingTypeOK
<1>3. ASSUME NEW n \in 1..Size, Dequeue(n)
      PROVE  RingTypeOK'
    <2>a. PICK used \in Nat, direct \in Nat :
            /\ used = GetUsedSize(readPosition, writePosition)
            /\ direct = GetDirectDequeueSize(readPosition, writePosition)
        <3>1. /\ GetUsedSize(readPosition, writePosition) \in 0..Size - 1
              /\ GetDirectDequeueSize(readPosition, writePosition) \in Nat
            BY <1>r, Sizes
        <3> QED  BY <3>1
    <2>1. PICK size \in Nat : size = IF used < n THEN used ELSE n
        OBVIOUS
    <2>2. readPosition' = readPosition
            \/ readPosition' = LastCell(Segments(readPosition, direct, size))
        BY <1>3, <2>a, <2>1 DEF Dequeue
    <2>3. writePosition' = writePosition
        BY <1>3 DEF Dequeue
    <2> QED  BY <2>2, <2>3, <1>r, LastCellInside DEF RingTypeOK
<1>4. ASSUME NEW n \in 1..Size, Peek(n) \/ MoveReadPosition(n)
      PROVE  RingTypeOK'
    BY <1>4, <1>r, MoveInside DEF Peek, MoveReadPosition, RingTypeOK
<1>5. CASE ClearBuffer
    BY <1>5 DEF ClearBuffer, RingTypeOK, Cells
<1>6. CASE UNCHANGED ringVars
    BY <1>6 DEF ringVars, RingTypeOK
<1> QED  BY <1>1, <1>2, <1>3, <1>4, <1>5, <1>6 DEF RingNext

\* Both positions stay inside m_Buffer, whatever is called.
THEOREM TypeCorrect == RingSpec => []RingTypeOK
<1>1. RingInit => RingTypeOK
    BY RingAssumption DEF RingInit, RingTypeOK, Cells
<1> QED  BY <1>1, PositionsInside, PTL DEF RingSpec

\* GetReadSize and GetWriteSize always account for every cell but one.
THEOREM SizesExact == RingSpec => []SizesAddUp
<1>1. RingTypeOK => SizesAddUp
    BY Sizes DEF RingTypeOK, SizesAddUp, GetReadSize, GetWriteSize
<1> QED  BY <1>1, TypeCorrect, PTL

\* The WSABUFs in terms of the positions: the free cells lie between the two
\* positions, at the end of m_Buffer, at its beginning, or at both.
LEMMA DirectCases ==
    ASSUME RingTypeOK
    PROVE  LET r == readPosition
               w == writePosition
           IN  /\ r = w + 1 \/ (r = 0 /\ w = Size - 1) => GetDirectEnQData = <<>>
               /\ r > w + 1 => GetDirectEnQData = <<Segment(w + 1, r - w - 1)>>
               /\ r <= w /\ w = Size - 1 /\ r > 0 => GetDirectEnQData = <<Segment(0, r)>>
               /\ r <= w /\ w < Size - 1 /\ r = 0 =>
                    GetDirectEnQData = <<Segment(w + 1, Size - 1 - w)>>
               /\ r <= w /\ w < Size - 1 /\ r > 0 =>
                    GetDirectEnQData = <<Segment(w + 1, Size - 1 - w), Segment(0, r)>>
<1> USE RingAssumption
<1>c. PICK r \in Cells, w \in Cells : r = readPosition /\ w = writePosition
    BY DEF RingTypeOK
<1>n. (w + 1) % Size = IF w = Size - 1 THEN 0 ELSE w + 1
    BY ModNext
<1>z. 0 \in Cells /\ Size - 1 \in Cells
    BY DEF Cells
<1>1. CASE r = w + 1 \/ (r = 0 /\ w = Size - 1)
    <2>1. GetDirectEnqueueSize(r, w) = 0
        BY <1>1, <1>n DEF GetDirectEnqueueSize, Cells
    <2>2. GetDirectEnQData = <<>>
        BY <2>1, <1>c DEF GetDirectEnQData
    <2> QED  BY <1>1, <1>c, <2>2 DEF Cells
<1>2. CASE r > w + 1
    <2>1. GetDirectEnqueueSize(r, w) = r - w - 1 /\ r - w - 1 # 0
        BY <1>2, <1>n DEF GetDirectEnqueueSize, Cells
    <2>2. (w + (r - w - 1)) % Size = r - 1 /\ r - 1 \in Cells
        BY <1>2 DEF Cells
    <2>3. GetDirectEnqueueSize(r, r - 1) = 0
        BY <2>2, ModNext DEF GetDirectEnqueueSize, Cells
    <2>4. GetDirectEnQData = <<Segment((w + 1) % Size, r - w - 1)>>
        BY <2>1, <2>2, <2>3, <1>c DEF GetDirectEnQData
    <2>5. (w + 1) % Size = w + 1
        BY <1>2, <1>n DEF Cells
    <2> QED  BY <1>2, <1>c, <2>4, <2>5 DEF Cells
<1>3. CASE r <= w /\ w = Size - 1 /\ r > 0
    <2>1. GetDirectEnqueueSize(r, w) = r
        BY <1>3, <1>n DEF GetDirectEnqueueSize, Cells
    <2>2. (w + r) % Size = r - 1 /\ r - 1 \in Cells
        <3>1. r \in 0..Size /\ r - 1 \in Cells
            BY <1>3 DEF Cells
        <3>2. (w + r) % Size = IF w + r < Size THEN w + r ELSE w + r - Size
            BY <3>1, ModWrap
        <3>3. w + r >= Size /\ w + r - Size = r - 1
            BY <1>3, <3>1
        <3>4. ~(w + r < Size)
            BY <1>3, <3>1
        <3> QED  BY <3>1, <3>2, <3>3, <3>4
    <2>3. GetDirectEnqueueSize(r, r - 1) = 0
        BY <2>2, ModNext DEF GetDirectEnqueueSize, Cells
    <2>4. GetDirectEnQData = <<Segment((w + 1) % Size, r)>>
        <3>1. GetDirectEnqueueSize(r, w) # 0
            BY <1>3, <2>1 DEF Cells
        <3> QED  BY <3>1, <2>1, <2>2, <2>3, <1>c DEF GetDirectEnQData
    <2>5. (w + 1) % Size = 0
        BY <1>3, <1>n
    <2> QED  BY <1>3, <1>c, <2>4, <2>5 DEF Cells
<1>4. CASE r <= w /\ w < Size - 1
    <2>1. GetDirectEnqueueSize(r, w) = Size - 1 - w /\ Size - 1 - w # 0
        BY <1>4, <1>n DEF GetDirectEnqueueSize, Cells
    <2>2. (w + (Size - 1 - w)) % Size = Size - 1
        <3>1. w + (Size - 1 - w) = Size - 1
            BY DEF Cells
        <3>2. (Size - 1) % Size = Size - 1
            OBVIOUS
        <3> QED  BY <3>1, <3>2
    <2>3. GetDirectEnqueueSize(r, Size - 1) = r /\ ((Size - 1) + 1) % Size = 0
        BY <1>z, ModNext DEF GetDirectEnqueueSize, Cells
    <2>4. (w + 1) % Size = w + 1
        BY <1>4, <1>n DEF Cells
    <2>5. r = 0 => GetDirectEnQData = <<Segment(w + 1, Size - 1 - w)>>
        BY <2>1, <2>2, <2>3, <2>4, <1>c DEF GetDirectEnQData
    <2>6. r # 0 => GetDirectEnQData = <<Segment(w + 1, Size - 1 - w), Segment(0, r)>>
        BY <2>1, <2>2, <2>3, <2>4, <1>c DEF GetDirectEnQData
    <2> QED  BY <1>4, <1>c, <2>5, <2>6 DEF Cells
<1> QED  BY <1>1, <1>2, <1>3, <1>4, <1>c DEF Cells

\* Where the unread bytes are.
LEMMA UnreadCells ==
    ASSUME RingTypeOK, NEW i \in 1..GetReadSize
    PROVE  LET r == readPosition
               w == writePosition
               c == (r + i) % Size
           IN  IF r <= w THEN r < c /\ c <= w ELSE c <= w \/ r < c
<1> USE RingAssumption
<1>1. PICK r \in Cells, w \in Cells : r = readPosition /\ w = writePosition
    BY DEF RingTypeOK
<1>2. i \in 0..Size
    <2>1. GetReadSize \in 0..Size - 1
        BY <1>1, Sizes DEF GetReadSize
    <2> QED  BY <2>1
<1>3. (r + i) % Size = IF r + i < Size THEN r + i ELSE r + i - Size
    BY <1>2, ModWrap
<1>4. i \in 1..GetUsedSize(r, w)
    BY <1>1 DEF GetReadSize
<1> QED  BY <1>1, <1>3, <1>4 DEF GetUsedSize, Cells

\* The WSABUFs given to WSARecv are inside m_Buffer, apart from each other and
\* from every unread byte, and offer exactly the free bytes.
THEOREM DirectFree == RingSpec => []DirectSegmentsFree
<1>1. ASSUME RingTypeOK PROVE DirectSegmentsFree
    <2> USE RingAssumption
    <2>c. PICK r \in Cells, w \in Cells : r = readPosition /\ w = writePosition
        BY <1>1 DEF RingTypeOK
    <2>u. ASSUME NEW i \in 1..GetReadSize
          PROVE  LET c == (readPosition + i) % Size
                 IN  IF r <= w THEN r < c /\ c <= w ELSE c <= w \/ r < c
        BY <1>1, <2>c, UnreadCells
    <2>f. GetWriteSize = IF (w + 1) % Size = r THEN 0
                         ELSE IF r > w THEN r - w - 1 ELSE r + (Size - 1) - w
        BY <2>c DEF GetWriteSize, GetFreeSize
    <2>n. (w + 1) % Size = IF w = Size - 1 THEN 0 ELSE w + 1
        BY ModNext
    <2>i. r \in Int /\ w \in Int /\ 0 <= r /\ r < Size /\ 0 <= w /\ w < Size /\ Size \in Int
        BY DEF Cells
    <2>1. CASE r = w + 1 \/ (r = 0 /\ w = Size - 1)
        <3>1. GetDirectEnQData = <<>>
            BY <1>1, <2>1, <2>c, DirectCases
        <3>2. GetWriteSize = 0
            BY <2>1, <2>f, <2>n, <2>i
        <3> QED  BY <3>1, <3>2 DEF DirectSegmentsFree
    <2>2. CASE r > w + 1
        <3>1. GetDirectEnQData = <<Segment(w + 1, r - w - 1)>>
            BY <1>1, <2>2, <2>c, DirectCases
        <3>2. GetWriteSize = r - w - 1
            BY <2>2, <2>f, <2>n, <2>i
        <3>3. \A c \in w + 1..w + 1 + (r - w - 1) - 1 :
                c \in Cells \ {(readPosition + i) % Size : i \in 1..GetReadSize}
            BY <2>2, <2>u, <2>i DEF Cells
        <3> QED  BY <3>1, <3>2, <3>3, <2>i DEF DirectSegmentsFree, Segment
    <2>3. CASE r <= w /\ w = Size - 1 /\ r > 0
        <3>1. GetDirectEnQData = <<Segment(0, r)>>
            BY <1>1, <2>3, <2>c, DirectCases
        <3>2. GetWriteSize = r
            BY <2>3, <2>f, <2>n, <2>i
        <3>3. \A c \in 0..0 + r - 1 :
                c \in Cells \ {(readPosition + i) % Size : i \in 1..GetReadSize}
            BY <2>3, <2>u, <2>i DEF Cells
        <3> QED  BY <3>1, <3>2, <3>3, <2>i DEF DirectSegmentsFree, Segment
    <2>4. CASE r <= w /\ w < Size - 1 /\ r = 0
        <3>1. GetDirectEnQData = <<Segment(w + 1, Size - 1 - w)>>
            BY <1>1, <2>4, <2>c, DirectCases
        <3>2. GetWriteSize = Size - 1 - w
            BY <2>4, <2>f, <2>n, <2>i
        <3>3. \A c \in w + 1..w + 1 + (Size - 1 - w) - 1 :
                c \in Cells \ {(readPosition + i) % Size : i \in 1..GetReadSize}
            BY <2>4, <2>u, <2>i DEF Cells
        <3> QED  BY <3>1, <3>2, <3>3 DEF DirectSegmentsFree, Segment
    <2>5. CASE r <= w /\ w < Size - 1 /\ r > 0
        <3>1. GetDirectEnQData = <<Segment(w + 1, Size - 1 - w), Segment(0, r)>>
            BY <1>1, <2>5, <2>c, DirectCases
        <3>2. GetWriteSize = (Size - 1 - w) + r
            BY <2>5, <2>f, <2>n, <2>i
        <3>3. \A c \in w + 1..w + 1 + (Size - 1 - w) - 1 :
                c \in Cells \ {(readPosition + i) % Size : i \in 1..GetReadSize}
            BY <2>5, <2>u, <2>i DEF Cells
        <3>4. \A c \in 0..0 + r - 1 :
                c \in Cells \ {(readPosition + i) % Size : i \in 1..GetReadSize}
            BY <2>5, <2>u, <2>i DEF Cells
        <3>5. (w + 1..w + 1 + (Size - 1 - w) - 1) \intersect (0..0 + r - 1) = {}
            BY <2>5, <2>i
        <3> QED  BY <3>1, <3>2, <3>3, <3>4, <3>5 DEF DirectSegmentsFree, Segment
    <2> QED  BY <2>1, <2>2, <2>3, <2>4, <2>5, <2>i
<1> QED  BY <1>1, TypeCorrect, PTL

-----------------------------------------------------------------------------
(***************************************************************************)
(* RingQ implements ByteQueue                                              *)
(***************************************************************************)

\* Two sequences are equal if their elements are.
LEMMA ConcatIs ==
    ASSUME NEW S, NEW a \in Seq(S), NEW b \in Seq(S), NEW c \in Seq(S),
           Len(c) = Len(a) + Len(b),
           \A i \in 1..Len(a) : c[i] = a[i],
           \A i \in 1..Len(b) : c[Len(a) + i] = b[i]
    PROVE  c = a \o b
<1>1. a \o b \in Seq(S) /\ Len(a \o b) = Len(a) + Len(b)
    OBVIOUS
<1>2. ASSUME NEW i \in 1..Len(c) PROVE c[i] = (a \o b)[i]
    <2>1. CASE i <= Len(a)
        BY <2>1
    <2>2. CASE i > Len(a)
        <3>1. PICK j \in 1..Len(b) : i = Len(a) + j
            <4>1. i - Len(a) \in 1..Len(b) /\ i = Len(a) + (i - Len(a))
                BY <2>2
            <4> QED  BY <4>1
        <3>2. (a \o b)[Len(a) + j] = b[j]
            OBVIOUS
        <3> QED  BY <3>1, <3>2
    <2> QED  BY <2>1, <2>2
<1> QED  BY <1>1, <1>2, SeqEqual

LEMMA SubSeqIs ==
    ASSUME NEW S, NEW q \in Seq(S), NEW c \in Seq(S), NEW k \in Nat, NEW n \in Nat,
           k + Len(c) = n, n <= Len(q),
           \A i \in 1..Len(c) : c[i] = q[k + i]
    PROVE  c = SubSeq(q, k + 1, n)
<1>1. /\ SubSeq(q, k + 1, n) \in Seq(S) /\ Len(SubSeq(q, k + 1, n)) = Len(c)
      /\ \A i \in 1..Len(c) : SubSeq(q, k + 1, n)[i] = q[k + i]
    <2>1. \A i \in (k + 1)..n : q[i] \in S
        OBVIOUS
    <2>2. k + 1 \in Nat /\ (IF k + 1 <= n THEN n - (k + 1) + 1 ELSE 0) = Len(c)
        OBVIOUS
    <2>3. /\ SubSeq(q, k + 1, n) \in Seq(S)
          /\ Len(SubSeq(q, k + 1, n)) = IF k + 1 <= n THEN n - (k + 1) + 1 ELSE 0
          /\ \A i \in 1..(n - (k + 1) + 1) : SubSeq(q, k + 1, n)[i] = q[(k + 1) + i - 1]
        BY <2>1, SubSeqProperties
    <2>4. \A i \in 1..Len(c) : i \in 1..(n - (k + 1) + 1) /\ (k + 1) + i - 1 = k + i
        OBVIOUS
    <2> QED  BY <2>2, <2>3, <2>4
<1> QED  BY <1>1

\* Copying into one segment ...
LEMMA CopyInOne ==
    ASSUME NEW a \in Cells, NEW l \in Nat, a + l <= Size,
           NEW x, Len(x) \in Nat, Len(x) <= l, NEW c \in Cells
    PROVE  CopyIn(<<Segment(a, l)>>, x)[c] =
              IF a <= c /\ c < a + Len(x) THEN x[c - a + 1] ELSE buffer[c]
<1> DEFINE segs == <<Segment(a, l)>>
           before(k) == IF k = 1 THEN 0 ELSE segs[1].len
           hit == {k \in 1..Len(segs) :
                      InSegment(c, segs[k]) /\ before(k) + c - segs[k].at < Len(x)}
<1>1. Len(segs) = 1 /\ segs[1].at = a /\ segs[1].len = l /\ before(1) = 0
    BY DEF Segment
<1>2. CopyIn(segs, x)[c] = IF hit = {} THEN buffer[c]
                           ELSE LET k == CHOOSE k \in hit : TRUE
                                IN  x[before(k) + c - segs[k].at + 1]
    BY DEF CopyIn
<1>3. a \in Int /\ c \in Int /\ Size \in Int
    BY RingAssumption DEF Cells
<1>4. 1 \in hit <=> a <= c /\ c < a + Len(x)
    BY <1>1, <1>3 DEF InSegment
<1>5. \A k \in hit : k = 1
    BY <1>1
<1>6. CASE 1 \in hit
    <2>1. hit = {1}
        BY <1>5, <1>6
    <2>2. (CHOOSE k \in hit : TRUE) = 1
        BY <2>1
    <2>3. CopyIn(segs, x)[c] = x[0 + c - a + 1]
        <3>1. CopyIn(segs, x)[c] = x[before(1) + c - segs[1].at + 1]
            BY <1>2, <1>6, <2>2
        <3> QED  BY <1>1, <3>1
    <2>4. 0 + c - a + 1 = c - a + 1
        BY <1>3
    <2> QED  BY <1>4, <1>6, <2>3, <2>4
<1>7. CASE 1 \notin hit
    <2>1. hit = {}
        BY <1>5, <1>7
    <2> QED  BY <1>2, <1>4, <1>7, <2>1
<1> QED  BY <1>6, <1>7

\* ... and into two, of which the second begins at cell 0.
LEMMA CopyInTwo ==
    ASSUME NEW a \in Cells, NEW l \in Nat, NEW m \in Nat, a + l = Size, m <= a,
           NEW x, Len(x) \in Nat, Len(x) <= l + m, NEW c \in Cells
    PROVE  CopyIn(<<Segment(a, l), Segment(0, m)>>, x)[c] =
              IF a <= c /\ c < a + Len(x) THEN x[c - a + 1]
              ELSE IF c < a /\ l + c < Len(x) THEN x[l + c + 1]
              ELSE buffer[c]
<1> DEFINE segs == <<Segment(a, l), Segment(0, m)>>
           before(k) == IF k = 1 THEN 0 ELSE segs[1].len
           hit == {k \in 1..Len(segs) :
                      InSegment(c, segs[k]) /\ before(k) + c - segs[k].at < Len(x)}
<1>1. /\ Len(segs) = 2 /\ segs[1].at = a /\ segs[1].len = l /\ before(1) = 0
      /\ segs[2].at = 0 /\ segs[2].len = m /\ before(2) = l
    BY DEF Segment
<1>2. CopyIn(segs, x)[c] = IF hit = {} THEN buffer[c]
                           ELSE LET k == CHOOSE k \in hit : TRUE
                                IN  x[before(k) + c - segs[k].at + 1]
    BY DEF CopyIn
<1>3. a \in Int /\ c \in Int /\ Size \in Int /\ 0 <= c /\ c < Size
    BY RingAssumption DEF Cells
<1>4. 1 \in hit <=> a <= c /\ c < a + Len(x)
    BY <1>1, <1>3 DEF InSegment
<1>5. 2 \in hit <=> c < a /\ l + c < Len(x)
    BY <1>1, <1>3 DEF InSegment
<1>6. \A k \in hit : k = 1 \/ k = 2
    BY <1>1
<1>7. CASE 1 \in hit
    <2>1. 2 \notin hit
        BY <1>3, <1>4, <1>5, <1>7
    <2>2. hit = {1}
        BY <1>6, <1>7, <2>1
    <2>3. (CHOOSE k \in hit : TRUE) = 1
        BY <2>2
    <2>4. CopyIn(segs, x)[c] = x[0 + c - a + 1]
        <3>1. CopyIn(segs, x)[c] = x[before(1) + c - segs[1].at + 1]
            BY <1>2, <1>7, <2>3
        <3> QED  BY <1>1, <3>1
    <2>5. 0 + c - a + 1 = c - a + 1
        BY <1>3
    <2> QED  BY <1>4, <1>7, <2>4, <2>5
<1>8. CASE 1 \notin hit /\ 2 \in hit
    <2>1. hit = {2}
        BY <1>6, <1>8
    <2>2. (CHOOSE k \in hit : TRUE) = 2
        BY <2>1
    <2>3. CopyIn(segs, x)[c] = x[l + c - 0 + 1]
        BY <1>1, <1>2, <1>8, <2>2
    <2>4. l + c - 0 + 1 = l + c + 1
        BY <1>3
    <2> QED  BY <1>4, <1>5, <1>8, <2>3, <2>4
<1>9. CASE 1 \notin hit /\ 2 \notin hit
    <2>1. hit = {}
        BY <1>6, <1>9
    <2> QED  BY <1>2, <1>4, <1>5, <1>9, <2>1
<1> QED  BY <1>7, <1>8, <1>9

\* What the segments of a copy of n bytes behind p look like: they begin behind
\* p, and go on at cell 0 when they reach the end of m_Buffer.
Layout(segs, p, n) ==
    LET a == (p + 1) % Size
    IN  \/ \E l \in Nat : segs = <<Segment(a, l)>> /\ a + l <= Size /\ n <= l
        \/ \E l, m \in Nat : /\ segs = <<Segment(a, l), Segment(0, m)>>
                             /\ a + l = Size /\ m < a /\ n <= l + m

\* Copying in stores the bytes in the cells behind p, and nothing elsewhere.
LEMMA CopyInWhere ==
    ASSUME NEW p \in Cells, NEW n \in 0..Size - 1, NEW x, Len(x) = n, NEW segs,
           Layout(segs, p, n)
    PROVE  /\ \A i \in 1..n : CopyIn(segs, x)[(p + i) % Size] = x[i]
           /\ \A c \in Cells : (\A i \in 1..n : c # (p + i) % Size) =>
                 CopyIn(segs, x)[c] = buffer[c]
<1> USE RingAssumption
<1>1. PICK a : a = (p + 1) % Size
    OBVIOUS
<1>2. a \in Cells /\ a = IF p = Size - 1 THEN 0 ELSE p + 1
    BY <1>1, ModNext DEF Cells
<1>n. n \in Nat /\ Len(x) \in Nat /\ Size \in Int
    OBVIOUS
<1>3. ASSUME NEW i \in 1..n
      PROVE  /\ (p + i) % Size = IF a + i - 1 < Size THEN a + i - 1 ELSE a + i - 1 - Size
             /\ (p + i) % Size \in Cells
    <2>1. i \in 0..Size
        OBVIOUS
    <2>2. (p + i) % Size = IF p + i < Size THEN p + i ELSE p + i - Size
        BY <2>1, ModWrap
    <2> QED  BY <1>2, <2>2 DEF Cells
<1>4. CASE \E l \in Nat : segs = <<Segment(a, l)>> /\ a + l <= Size /\ n <= l
    <2>1. PICK l \in Nat : segs = <<Segment(a, l)>> /\ a + l <= Size /\ n <= l
        BY <1>4
    <2>2. ASSUME NEW c \in Cells
          PROVE  CopyIn(segs, x)[c] =
                    IF a <= c /\ c < a + n THEN x[c - a + 1] ELSE buffer[c]
        <3>1. a \in Cells /\ a + l <= Size /\ Len(x) \in Nat /\ Len(x) <= l
            BY <1>2, <1>n, <2>1
        <3>2. CopyIn(<<Segment(a, l)>>, x)[c] =
                  IF a <= c /\ c < a + Len(x) THEN x[c - a + 1] ELSE buffer[c]
            BY <3>1, CopyInOne
        <3> QED  BY <2>1, <3>2
    <2>3. ASSUME NEW i \in 1..n PROVE CopyIn(segs, x)[(p + i) % Size] = x[i]
        <3>1. PICK c \in Cells : c = (p + i) % Size
            BY <1>3
        <3>v. c = IF a + i - 1 < Size THEN a + i - 1 ELSE a + i - 1 - Size
            BY <1>3, <3>1
        <3>2. a <= c /\ c < a + n /\ c - a + 1 = i
            BY <1>2, <1>n, <2>1, <3>v DEF Cells
        <3> QED  BY <2>2, <3>1, <3>2
    <2>4. ASSUME NEW c \in Cells, \A i \in 1..n : c # (p + i) % Size
          PROVE  CopyIn(segs, x)[c] = buffer[c]
        <3>1. CASE a <= c /\ c < a + n
            <4>1. PICK i \in 1..n : i = c - a + 1
                <5>1. c - a + 1 \in 1..n
                    BY <1>2, <1>n, <3>1 DEF Cells
                <5> QED  BY <5>1
            <4>2. (p + i) % Size = c
                BY <1>2, <1>3, <4>1 DEF Cells
            <4> QED  BY <2>4, <4>2
        <3> QED  BY <2>2, <3>1
    <2> QED  BY <2>3, <2>4
<1>5. CASE \E l, m \in Nat : /\ segs = <<Segment(a, l), Segment(0, m)>>
                             /\ a + l = Size /\ m < a /\ n <= l + m
    <2>1. PICK l \in Nat, m \in Nat : /\ segs = <<Segment(a, l), Segment(0, m)>>
                                      /\ a + l = Size /\ m < a /\ n <= l + m
        BY <1>5
    <2>2. ASSUME NEW c \in Cells
          PROVE  CopyIn(segs, x)[c] =
                    IF a <= c /\ c < a + n THEN x[c - a + 1]
                    ELSE IF c < a /\ l + c < n THEN x[l + c + 1]
                    ELSE buffer[c]
        <3>1. m <= a /\ a + l = Size /\ a \in Cells
            BY <1>2, <2>1 DEF Cells
        <3>2. Len(x) \in Nat /\ Len(x) <= l + m
            BY <1>n, <2>1
        <3>3. CopyIn(<<Segment(a, l), Segment(0, m)>>, x)[c] =
                  IF a <= c /\ c < a + Len(x) THEN x[c - a + 1]
                  ELSE IF c < a /\ l + c < Len(x) THEN x[l + c + 1]
                  ELSE buffer[c]
            BY <3>1, <3>2, CopyInTwo
        <3> QED  BY <2>1, <3>3
    <2>3. ASSUME NEW i \in 1..n PROVE CopyIn(segs, x)[(p + i) % Size] = x[i]
        <3>1. PICK c \in Cells : c = (p + i) % Size
            BY <1>3
        <3>v. c = IF a + i - 1 < Size THEN a + i - 1 ELSE a + i - 1 - Size
            BY <1>3, <3>1
        <3>2. CASE a + i - 1 < Size
            <4>1. a <= c /\ c < a + n /\ c - a + 1 = i
                BY <1>2, <1>n, <2>1, <3>v, <3>2 DEF Cells
            <4> QED  BY <2>2, <3>1, <4>1
        <3>3. CASE ~(a + i - 1 < Size)
            <4>1. ~(a <= c) /\ c < a /\ l + c < n /\ l + c + 1 = i
                BY <1>2, <1>n, <2>1, <3>v, <3>3 DEF Cells
            <4> QED  BY <2>2, <3>1, <4>1
        <3> QED  BY <3>2, <3>3
    <2>4. ASSUME NEW c \in Cells, \A i \in 1..n : c # (p + i) % Size
          PROVE  CopyIn(segs, x)[c] = buffer[c]
        <3>1. CASE a <= c /\ c < a + n
            <4>1. PICK i \in 1..n : i = c - a + 1
                <5>1. c - a + 1 \in 1..n
                    BY <1>2, <1>n, <3>1 DEF Cells
                <5> QED  BY <5>1
            <4>2. (p + i) % Size = c
                BY <1>2, <1>3, <4>1 DEF Cells
            <4> QED  BY <2>4, <4>2
        <3>2. CASE c < a /\ l + c < n
            <4>1. PICK i \in 1..n : i = l + c + 1
                <5>1. l + c + 1 \in 1..n
                    BY <1>2, <1>n, <3>2 DEF Cells
                <5> QED  BY <5>1
            <4>2. (p + i) % Size = c
                BY <1>2, <1>3, <2>1, <4>1 DEF Cells
            <4> QED  BY <2>4, <4>2
        <3> QED  BY <2>2, <3>1, <3>2
    <2> QED  BY <2>3, <2>4
<1> QED  BY <1>1, <1>4, <1>5 DEF Layout

\* The segments that Enqueue, Dequeue and Peek use.
LEMMA SegmentsAre ==
    ASSUME NEW p \in Cells, NEW direct \in Nat, NEW size \in 1..Size - 1, NEW a \in Cells,
           a = (p + 1) % Size,
           direct < size => a + direct = Size,
           size <= direct => a + size <= Size
    PROVE  /\ Segments(p, direct, size) =
                 IF direct < size THEN <<Segment(a, direct), Segment(0, size - direct)>>
                                  ELSE <<Segment(a, size)>>
           /\ LastCell(Segments(p, direct, size)) = (p + size) % Size
           /\ Layout(Segments(p, direct, size), p, size)
           /\ direct < size => a = p + 1
<1> USE RingAssumption
<1>1. a = IF p = Size - 1 THEN 0 ELSE p + 1
    BY ModNext
<1>2. (p + size) % Size = IF p + size < Size THEN p + size ELSE p + size - Size
    <2>1. size \in 0..Size
        OBVIOUS
    <2> QED  BY <2>1, ModWrap
<1>3. CASE direct < size
    <2>1. a = p + 1 /\ p < Size - 1 /\ a + direct = Size /\ size - direct < a
        BY <1>1, <1>3 DEF Cells
    <2>2. (a + direct - 1) % Size = Size - 1 /\ (Size - 1 + 1) % Size = 0
        <3>1. a + direct - 1 = Size - 1 /\ Size - 1 \in Cells
            BY <2>1 DEF Cells
        <3>2. (Size - 1) % Size = Size - 1
            OBVIOUS
        <3> QED  BY <3>1, <3>2, ModNext
    <2>3. Segments(p, direct, size) = <<Segment(a, direct), Segment(0, size - direct)>>
        BY <1>3, <2>2 DEF Segments
    <2>4. LastCell(Segments(p, direct, size)) = (0 + (size - direct) - 1) % Size
        <3> DEFINE segs == <<Segment(a, direct), Segment(0, size - direct)>>
        <3>1. Len(segs) = 2 /\ segs[2].at = 0 /\ segs[2].len = size - direct
            BY DEF Segment
        <3> QED  BY <2>3, <3>1 DEF LastCell
    <2>5. (0 + (size - direct) - 1) % Size = (p + size) % Size
        <3>1. PICK d \in Cells : d = 0 + (size - direct) - 1
            BY <1>3, <2>1 DEF Cells
        <3>2. d % Size = d
            BY DEF Cells
        <3>3. d = p + size - Size /\ ~(p + size < Size)
            BY <1>3, <2>1, <3>1 DEF Cells
        <3> QED  BY <1>2, <3>1, <3>2, <3>3
    <2>6. Layout(Segments(p, direct, size), p, size)
        <3>1. size - direct \in Nat /\ size <= direct + (size - direct)
            BY <1>3
        <3> QED  BY <2>1, <2>3, <3>1 DEF Layout
    <2> QED  BY <1>3, <2>1, <2>3, <2>4, <2>5, <2>6
<1>4. CASE ~(direct < size)
    <2>1. a + size <= Size
        BY <1>4
    <2>2. Segments(p, direct, size) = <<Segment(a, size)>>
        BY <1>4 DEF Segments
    <2>3. LastCell(Segments(p, direct, size)) = (a + size - 1) % Size
        BY <2>2 DEF LastCell, Segment
    <2>4. (a + size - 1) % Size = (p + size) % Size
        <3>1. PICK d \in Cells : d = a + size - 1
            BY <2>1 DEF Cells
        <3>2. d % Size = d
            BY DEF Cells
        <3>3. d = IF p + size < Size THEN p + size ELSE p + size - Size
            BY <1>1, <2>1, <3>1 DEF Cells
        <3> QED  BY <1>2, <3>1, <3>2, <3>3
    <2>5. Layout(Segments(p, direct, size), p, size)
        BY <2>1, <2>2 DEF Layout
    <2> QED  BY <1>4, <2>2, <2>3, <2>4, <2>5
<1> QED  BY <1>3, <1>4

\* Copying out returns the bytes of the cells behind p.
LEMMA CopyOutIs ==
    ASSUME NEW p \in Cells, NEW direct \in Nat, NEW size \in 1..Size - 1, NEW a \in Cells,
           a = (p + 1) % Size,
           direct < size => a + direct = Size,
           size <= direct => a + size <= Size
    PROVE  CopyOut(Segments(p, direct, size)) = [i \in 1..size |-> buffer[(p + i) % Size]]
<1> USE RingAssumption
<1> DEFINE all == [i \in 1..size |-> buffer[(p + i) % Size]]
<1>1. a = IF p = Size - 1 THEN 0 ELSE p + 1
    BY ModNext
<1>2. ASSUME NEW i \in 1..size
      PROVE  (p + i) % Size = IF p + i < Size THEN p + i ELSE p + i - Size
    <2>1. i \in 0..Size
        OBVIOUS
    <2> QED  BY <2>1, ModWrap
<1>3. CASE direct < size
    <2> DEFINE one == [i \in 1..direct |-> buffer[a + i - 1]]
               two == [i \in 1..size - direct |-> buffer[0 + i - 1]]
    <2>1. Segments(p, direct, size) = <<Segment(a, direct), Segment(0, size - direct)>>
          /\ a = p + 1 /\ a + direct = Size
        BY <1>3, SegmentsAre
    <2>2. CopyOut(Segments(p, direct, size)) = one \o two
        <3> DEFINE segs == <<Segment(a, direct), Segment(0, size - direct)>>
        <3>1. /\ Len(segs) = 2 /\ segs[1].at = a /\ segs[1].len = direct
              /\ segs[2].at = 0 /\ segs[2].len = size - direct
            BY DEF Segment
        <3> HIDE DEF segs
        <3>2. CopyOut(segs) = [i \in 1..segs[1].len |-> buffer[segs[1].at + i - 1]]
                                \o [i \in 1..segs[2].len |-> buffer[segs[2].at + i - 1]]
            BY <3>1 DEF CopyOut
        <3>3. CopyOut(segs) = one \o two
            BY <3>1, <3>2
        <3> QED  BY <2>1, <3>3 DEF segs
    <2>3. PICK S : S = {buffer[c] : c \in Cells}
        OBVIOUS
    <2>4. \A i \in 1..direct : a + i - 1 \in Cells
        BY <2>1 DEF Cells
    <2>5. \A i \in 1..size - direct : 0 + i - 1 \in Cells
        BY DEF Cells
    <2>6. \A i \in 1..size : (p + i) % Size \in Cells
        BY <1>2 DEF Cells
    <2>7. one \in Seq(S) /\ Len(one) = direct
        BY <2>3, <2>4
    <2>8. two \in Seq(S) /\ Len(two) = size - direct
        <3>1. size - direct \in Nat
            BY <1>3
        <3> QED  BY <2>3, <2>5, <3>1
    <2>9. all \in Seq(S) /\ Len(all) = size
        <3>1. \A i \in 1..size : buffer[(p + i) % Size] \in S
            BY <2>3, <2>6
        <3> QED  BY <3>1
    <2>10. ASSUME NEW i \in 1..direct PROVE all[i] = one[i]
        <3>1. i \in 1..size /\ (p + i) % Size = a + i - 1
            BY <1>2, <1>3, <2>1 DEF Cells
        <3> QED  BY <3>1
    <2>11. ASSUME NEW i \in 1..size - direct PROVE all[direct + i] = two[i]
        <3>1. direct + i \in 1..size
            BY <1>3
        <3>2. (p + (direct + i)) % Size = 0 + i - 1
            BY <1>2, <2>1, <3>1 DEF Cells
        <3> QED  BY <3>1, <3>2
    <2>12. size = direct + (size - direct)
        OBVIOUS
    <2> HIDE DEF one, two, all
    <2>13. all = one \o two
        <3>1. /\ Len(all) = Len(one) + Len(two)
              /\ \A i \in 1..Len(one) : all[i] = one[i]
              /\ \A i \in 1..Len(two) : all[Len(one) + i] = two[i]
            BY <2>7, <2>8, <2>9, <2>10, <2>11, <2>12
        <3> QED  BY <2>7, <2>8, <2>9, <3>1, ConcatIs
    <2> QED  BY <2>2, <2>13 DEF all
<1>4. CASE ~(direct < size)
    <2>1. Segments(p, direct, size) = <<Segment(a, size)>> /\ a + size <= Size
        BY <1>4, SegmentsAre
    <2>2. CopyOut(Segments(p, direct, size)) = [i \in 1..size |-> buffer[a + i - 1]]
        BY <2>1 DEF CopyOut, Segment
    <2>3. \A i \in 1..size : (p + i) % Size = a + i - 1
        BY <1>1, <1>2, <2>1 DEF Cells
    <2> QED  BY <2>2, <2>3
<1> QED  BY <1>3, <1>4

\* The contiguous part of a write is all of it or ends with m_Buffer ...
LEMMA EnqueueDirect ==
    ASSUME NEW r \in Cells, NEW w \in Cells, NEW size \in 1..GetFreeSize(r, w),
           NEW a \in Cells, a = (w + 1) % Size
    PROVE  /\ GetDirectEnqueueSize(r, w) \in Nat
           /\ GetDirectEnqueueSize(r, w) < size => a + GetDirectEnqueueSize(r, w) = Size
           /\ size <= GetDirectEnqueueSize(r, w) => a + size <= Size
<1> USE RingAssumption
<1>1. a = IF w = Size - 1 THEN 0 ELSE w + 1
    BY ModNext
<1>2. GetFreeSize(r, w) = IF a = r THEN 0
                          ELSE IF r > w THEN r - w - 1 ELSE r + (Size - 1) - w
    BY DEF GetFreeSize
<1>3. GetDirectEnqueueSize(r, w) =
         IF a = r THEN 0 ELSE IF a < r THEN r - a ELSE (Size - 1) - a + 1
    BY DEF GetDirectEnqueueSize
<1> QED  BY <1>1, <1>2, <1>3 DEF Cells

\* ... and so is the contiguous part of a read.
LEMMA DequeueDirect ==
    ASSUME NEW r \in Cells, NEW w \in Cells, NEW size \in 1..GetUsedSize(r, w),
           NEW a \in Cells, a = (r + 1) % Size
    PROVE  /\ GetDirectDequeueSize(r, w) \in Nat
           /\ GetDirectDequeueSize(r, w) < size => a + GetDirectDequeueSize(r, w) = Size
           /\ size <= GetDirectDequeueSize(r, w) => a + size <= Size
<1> USE RingAssumption
<1>1. a = IF r = Size - 1 THEN 0 ELSE r + 1
    BY ModNext
<1>2. GetUsedSize(r, w) = IF w = r THEN 0 ELSE IF r < w THEN w - r
                          ELSE w + (Size - 1) - r + 1
    BY DEF GetUsedSize
<1>3. GetDirectDequeueSize(r, w) =
         IF r = w THEN 0 ELSE IF a <= w THEN w - a + 1 ELSE (Size - 1) - a + 1
    BY DEF GetDirectDequeueSize
<1> QED  BY <1>1, <1>2, <1>3 DEF Cells

\* The WSABUFs have room for every write that fits.
LEMMA DirectLayout ==
    ASSUME RingTypeOK, NEW n \in 1..GetWriteSize
    PROVE  Layout(GetDirectEnQData, writePosition, n)
<1> USE RingAssumption
<1>c. PICK r \in Cells, w \in Cells : r = readPosition /\ w = writePosition
    BY DEF RingTypeOK
<1>f. GetWriteSize = IF (w + 1) % Size = r THEN 0
                     ELSE IF r > w THEN r - w - 1 ELSE r + (Size - 1) - w
    BY <1>c DEF GetWriteSize, GetFreeSize
<1>n. (w + 1) % Size = IF w = Size - 1 THEN 0 ELSE w + 1
    BY ModNext
<1>i. r \in Int /\ w \in Int /\ 0 <= r /\ r < Size /\ 0 <= w /\ w < Size /\ Size \in Int
    BY DEF Cells
<1>1. CASE r = w + 1 \/ (r = 0 /\ w = Size - 1)
    <2>1. GetWriteSize = 0
        BY <1>1, <1>f, <1>n, <1>i
    <2> QED  BY <2>1
<1>2. CASE r > w + 1
    <2>1. GetDirectEnQData = <<Segment(w + 1, r - w - 1)>>
        BY <1>2, <1>c, DirectCases
    <2>2. (w + 1) % Size = w + 1 /\ GetWriteSize = r - w - 1
        BY <1>2, <1>f, <1>n, <1>i
    <2>3. r - w - 1 \in Nat /\ (w + 1) + (r - w - 1) <= Size /\ n <= r - w - 1
        BY <1>2, <1>i, <2>2
    <2> QED  BY <1>c, <2>1, <2>2, <2>3 DEF Layout
<1>3. CASE r <= w /\ w = Size - 1 /\ r > 0
    <2>1. GetDirectEnQData = <<Segment(0, r)>>
        BY <1>3, <1>c, DirectCases
    <2>2. (w + 1) % Size = 0 /\ GetWriteSize = r
        BY <1>3, <1>f, <1>n, <1>i
    <2>3. r \in Nat /\ 0 + r <= Size /\ n <= r
        BY <1>i, <2>2
    <2> QED  BY <1>c, <2>1, <2>2, <2>3 DEF Layout
<1>4. CASE r <= w /\ w < Size - 1 /\ r = 0
    <2>1. GetDirectEnQData = <<Segment(w + 1, Size - 1 - w)>>
        BY <1>4, <1>c, DirectCases
    <2>2. (w + 1) % Size = w + 1 /\ GetWriteSize = Size - 1 - w
        BY <1>4, <1>f, <1>n, <1>i
    <2>3. Size - 1 - w \in Nat /\ (w + 1) + (Size - 1 - w) <= Size /\ n <= Size - 1 - w
        BY <1>4, <1>i, <2>2
    <2> QED  BY <1>c, <2>1, <2>2, <2>3 DEF Layout
<1>5. CASE r <= w /\ w < Size - 1 /\ r > 0
    <2>1. GetDirectEnQData = <<Segment(w + 1, Size - 1 - w), Segment(0, r)>>
        BY <1>5, <1>c, DirectCases
    <2>2. (w + 1) % Size = w + 1 /\ GetWriteSize = (Size - 1 - w) + r
        BY <1>5, <1>f, <1>n, <1>i
    <2>3. /\ Size - 1 - w \in Nat /\ r \in Nat /\ r < w + 1
          /\ (w + 1) + (Size - 1 - w) = Size /\ n <= (Size - 1 - w) + r
        BY <1>5, <1>i, <2>2
    <2> QED  BY <1>c, <2>1, <2>2, <2>3 DEF Layout
<1> QED  BY <1>1, <1>2, <1>3, <1>4, <1>5, <1>i

\* Writing size bytes leaves so many more of them to read ...
LEMMA UsedAfterWrite ==
    ASSUME NEW r \in Cells, NEW w \in Cells, NEW size \in 0..GetFreeSize(r, w)
    PROVE  /\ (w + size) % Size \in Cells
           /\ GetUsedSize(r, (w + size) % Size) = GetUsedSize(r, w) + size
<1> USE RingAssumption
<1>1. /\ GetFreeSize(r, w) \in 0..Size - 1 /\ GetUsedSize(r, w) \in 0..Size - 1
      /\ GetUsedSize(r, w) + GetFreeSize(r, w) = Size - 1
    BY Sizes
<1>2. PICK d : d = (w + size) % Size
    OBVIOUS
<1>3. d = IF w + size < Size THEN w + size ELSE w + size - Size
    <2>1. size \in 0..Size
        BY <1>1
    <2> QED  BY <1>2, <2>1, ModWrap
<1>4. d \in Cells
    BY <1>1, <1>3 DEF Cells
<1>5. GetUsedSize(r, w) = IF w = r THEN 0 ELSE IF r < w THEN w - r
                          ELSE w + (Size - 1) - r + 1
    BY DEF GetUsedSize
<1>6. GetUsedSize(r, d) = IF d = r THEN 0 ELSE IF r < d THEN d - r
                          ELSE d + (Size - 1) - r + 1
    BY DEF GetUsedSize
<1>7. GetUsedSize(r, d) = GetUsedSize(r, w) + size
    <2>1. PICK u \in Nat : u = GetUsedSize(r, w) /\ u + size <= Size - 1
        BY <1>1
    <2> QED  BY <1>3, <1>5, <1>6, <2>1 DEF Cells
<1> QED  BY <1>2, <1>4, <1>7

\* ... and reading them so many fewer.
LEMMA UsedAfterRead ==
    ASSUME NEW r \in Cells, NEW w \in Cells, NEW size \in 0..GetUsedSize(r, w)
    PROVE  /\ (r + size) % Size \in Cells
           /\ GetUsedSize((r + size) % Size, w) = GetUsedSize(r, w) - size
<1> USE RingAssumption
<1>1. GetUsedSize(r, w) \in 0..Size - 1
    BY Sizes
<1>2. PICK d : d = (r + size) % Size
    OBVIOUS
<1>3. d = IF r + size < Size THEN r + size ELSE r + size - Size
    <2>1. size \in 0..Size
        BY <1>1
    <2> QED  BY <1>2, <2>1, ModWrap
<1>4. d \in Cells
    BY <1>1, <1>3 DEF Cells
<1>5. GetUsedSize(r, w) = IF w = r THEN 0 ELSE IF r < w THEN w - r
                          ELSE w + (Size - 1) - r + 1
    BY DEF GetUsedSize
<1>6. GetUsedSize(d, w) = IF w = d THEN 0 ELSE IF d < w THEN w - d
                          ELSE w + (Size - 1) - d + 1
    BY DEF GetUsedSize
<1>7. GetUsedSize(d, w) = GetUsedSize(r, w) - size
    BY <1>3, <1>5, <1>6 DEF Cells
<1> QED  BY <1>2, <1>4, <1>7

\* Moving by m and then by n is moving by their sum.
LEMMA MoveTwice ==
    ASSUME NEW p \in Cells, NEW m \in Nat, NEW n \in Nat, m + n <= Size
    PROVE  (((p + m) % Size) + n) % Size = (p + (m + n)) % Size
<1> USE RingAssumption
<1>1. PICK d : d = (p + m) % Size
    OBVIOUS
<1>2. d = IF p + m < Size THEN p + m ELSE p + m - Size
    <2>1. m \in 0..Size
        OBVIOUS
    <2> QED  BY <1>1, <2>1, ModWrap
<1>3. d \in Cells
    BY <1>2 DEF Cells
<1>4. (d + n) % Size = IF d + n < Size THEN d + n ELSE d + n - Size
    <2>1. n \in 0..Size
        OBVIOUS
    <2> QED  BY <1>3, <2>1, ModWrap
<1>5. (p + (m + n)) % Size = IF p + (m + n) < Size THEN p + (m + n) ELSE p + (m + n) - Size
    <2>1. m + n \in 0..Size
        OBVIOUS
    <2> QED  BY <2>1, ModWrap
<1>6. (d + n) % Size = (p + (m + n)) % Size
    BY <1>2, <1>4, <1>5 DEF Cells
<1> QED  BY <1>1, <1>6

\* Different distances behind a position are different cells.
LEMMA CellsApart ==
    ASSUME NEW p \in Cells, NEW m \in 0..Size - 1, NEW n \in 0..Size - 1, m # n
    PROVE  (p + m) % Size # (p + n) % Size
<1> USE RingAssumption
<1>1. m \in 0..Size /\ n \in 0..Size
    OBVIOUS
<1>2. (p + m) % Size = IF p + m < Size THEN p + m ELSE p + m - Size
    BY <1>1, ModWrap
<1>3. (p + n) % Size = IF p + n < Size THEN p + n ELSE p + n - Size
    BY <1>1, ModWrap
<1> QED  BY <1>2, <1>3 DEF Cells

\* The last unread byte is at the write position.
LEMMA LastUnread ==
    ASSUME NEW r \in Cells, NEW w \in Cells
    PROVE  (r + GetUsedSize(r, w)) % Size = w
<1> USE RingAssumption
<1>1. PICK u \in 0..Size - 1 : u = GetUsedSize(r, w)
    BY Sizes
<1>2. u = IF w = r THEN 0 ELSE IF r < w THEN w - r ELSE w + (Size - 1) - r + 1
    BY <1>1 DEF GetUsedSize
<1>3. (r + u) % Size = IF r + u < Size THEN r + u ELSE r + u - Size
    <2>1. u \in 0..Size
        OBVIOUS
    <2> QED  BY <2>1, ModWrap
<1>4. (r + u) % Size = w
    BY <1>2, <1>3 DEF Cells
<1> QED  BY <1>1, <1>4

\* What is unread is a sequence of GetReadSize bytes.
LEMMA UnreadIs ==
    ASSUME RingTypeOK
    PROVE  /\ GetReadSize \in 0..Size - 1 /\ GetWriteSize \in 0..Size - 1
           /\ GetReadSize + GetWriteSize = Size - 1
           /\ Unread \in Seq({buffer[c] : c \in Cells}) /\ Len(Unread) = GetReadSize
           /\ \A i \in 1..GetReadSize : Unread[i] = buffer[(readPosition + i) % Size]
<1>1. PICK u : u = GetReadSize
    OBVIOUS
<1>2. /\ u \in 0..Size - 1 /\ GetWriteSize \in 0..Size - 1 /\ u + GetWriteSize = Size - 1
    BY <1>1, Sizes DEF RingTypeOK, GetReadSize, GetWriteSize
<1>3. ASSUME NEW i \in 1..u PROVE (readPosition + i) % Size \in Cells
    <2>1. readPosition + i \in Int
        BY <1>2, RingAssumption DEF RingTypeOK, Cells
    <2> QED  BY <2>1, ModCell
<1>4. Unread = [i \in 1..u |-> buffer[(readPosition + i) % Size]]
    BY <1>1 DEF Unread
<1>5. \A i \in 1..u : buffer[(readPosition + i) % Size] \in {buffer[c] : c \in Cells}
    BY <1>3
<1>6. u \in Nat
    BY <1>2, RingAssumption
<1>7. Unread \in Seq({buffer[c] : c \in Cells}) /\ Len(Unread) = u
    BY <1>4, <1>5, <1>6
<1> QED  BY <1>1, <1>2, <1>4, <1>7

\* A copy into the cells behind the write position appends to what is unread.
LEMMA WriteAppends ==
    ASSUME RingTypeOK, NEW n \in 1..GetWriteSize, NEW T, NEW x \in Seq(T), Len(x) = n,
           NEW segs, Layout(segs, writePosition, n),
           buffer' = CopyIn(segs, x), writePosition' = (writePosition + n) % Size,
           readPosition' = readPosition
    PROVE  Unread' = Unread \o x
<1> USE RingAssumption
<1>1. PICK r \in Cells, w \in Cells : r = readPosition /\ w = writePosition
    BY DEF RingTypeOK
<1>2. PICK u \in 0..Size - 1 : u = GetReadSize
    BY UnreadIs
<1>3. n \in 1..Size - 1 /\ u + n <= Size - 1 /\ n \in Nat /\ u \in Nat
    BY <1>2, UnreadIs
<1>4. RingTypeOK' /\ GetReadSize' = u + n
    <2>1. n \in 0..GetFreeSize(r, w)
        BY <1>1 DEF GetWriteSize
    <2>2. (w + n) % Size \in Cells /\ GetUsedSize(r, (w + n) % Size) = GetUsedSize(r, w) + n
        BY <2>1, UsedAfterWrite
    <2> QED  BY <1>1, <1>2, <2>2 DEF RingTypeOK, GetReadSize
<1>5. PICK old : old = Unread
    OBVIOUS
<1>6. PICK S : S = {buffer[c] : c \in Cells} \cup {buffer'[c] : c \in Cells} \cup T
    OBVIOUS
<1>7. /\ old \in Seq(S) /\ Len(old) = u
      /\ \A i \in 1..u : old[i] = buffer[(r + i) % Size]
    <2>1. old \in Seq({buffer[c] : c \in Cells}) /\ {buffer[c] : c \in Cells} \subseteq S
        BY <1>5, <1>6, UnreadIs
    <2>2. old \in Seq(S)
        BY <2>1
    <2> QED  BY <1>1, <1>2, <1>5, <2>2, UnreadIs
<1>8. PICK new : new = Unread'
    OBVIOUS
<1>9. /\ new \in Seq(S) /\ Len(new) = u + n
      /\ \A i \in 1..u + n : new[i] = buffer'[(r + i) % Size]
    <2>1. /\ Unread' \in Seq({buffer'[c] : c \in Cells}) /\ Len(Unread') = GetReadSize'
          /\ \A i \in 1..GetReadSize' : Unread'[i] = buffer'[(readPosition' + i) % Size]
        <3>1. (RingTypeOK => /\ Unread \in Seq({buffer[c] : c \in Cells})
                             /\ Len(Unread) = GetReadSize
                             /\ \A i \in 1..GetReadSize :
                                   Unread[i] = buffer[(readPosition + i) % Size])'
            BY UnreadIs, PTL
        <3> QED  BY <1>4, <3>1
    <2>2. new \in Seq({buffer'[c] : c \in Cells}) /\ {buffer'[c] : c \in Cells} \subseteq S
        BY <1>6, <1>8, <2>1
    <2>3. new \in Seq(S)
        BY <2>2
    <2> QED  BY <1>1, <1>4, <1>8, <2>1, <2>3
<1>10. x \in Seq(S)
    BY <1>6
<1>11. /\ \A i \in 1..n : buffer'[(w + i) % Size] = x[i]
       /\ \A c \in Cells : (\A i \in 1..n : c # (w + i) % Size) => buffer'[c] = buffer[c]
    <2>1. n \in 0..Size - 1
        BY <1>3
    <2> QED  BY <1>1, <2>1, CopyInWhere
<1>12. ASSUME NEW i \in 1..n
       PROVE  (w + i) % Size = (r + (u + i)) % Size
    <2>1. (r + u) % Size = w
        BY <1>1, <1>2, LastUnread DEF GetReadSize
    <2>2. i \in Nat /\ u + i <= Size
        BY <1>3
    <2>3. (((r + u) % Size) + i) % Size = (r + (u + i)) % Size
        BY <1>3, <2>2, MoveTwice
    <2> QED  BY <2>1, <2>3
<1>13. ASSUME NEW i \in 1..u PROVE new[i] = old[i]
    <2>1. PICK c \in Cells : c = (r + i) % Size
        <3>1. r + i \in Int
            BY <1>3 DEF Cells
        <3> QED  BY <3>1, ModCell
    <2>2. ASSUME NEW j \in 1..n PROVE c # (w + j) % Size
        <3>1. i \in 0..Size - 1 /\ u + j \in 0..Size - 1 /\ i # u + j
            BY <1>3
        <3>2. (r + i) % Size # (r + (u + j)) % Size
            BY <3>1, CellsApart
        <3> QED  BY <1>12, <2>1, <3>2
    <2>3. buffer'[c] = buffer[c]
        BY <1>11, <2>2
    <2>4. i \in 1..u + n
        BY <1>3
    <2> QED  BY <1>7, <1>9, <2>1, <2>3, <2>4
<1>14. ASSUME NEW i \in 1..n PROVE new[u + i] = x[i]
    <2>1. u + i \in 1..u + n
        BY <1>3
    <2> QED  BY <1>9, <1>11, <1>12, <2>1
<1>15. new = old \o x
    <2>1. /\ Len(new) = Len(old) + Len(x)
          /\ \A i \in 1..Len(old) : new[i] = old[i]
          /\ \A i \in 1..Len(x) : new[Len(old) + i] = x[i]
        BY <1>7, <1>9, <1>13, <1>14
    <2> QED  BY <1>7, <1>9, <1>10, <2>1, ConcatIs
<1> QED  BY <1>5, <1>8, <1>15

\* Moving the read position drops the oldest bytes.
LEMMA ReadDrops ==
    ASSUME RingTypeOK, NEW n \in 0..GetReadSize,
           readPosition' = (readPosition + n) % Size,
           buffer' = buffer, writePosition' = writePosition
    PROVE  Unread' = SubSeq(Unread, n + 1, Len(Unread))
<1> USE RingAssumption
<1>1. PICK r \in Cells, w \in Cells : r = readPosition /\ w = writePosition
    BY DEF RingTypeOK
<1>2. PICK u \in 0..Size - 1 : u = GetReadSize
    BY UnreadIs
<1>3. n \in Nat /\ n <= u /\ u \in Nat /\ u - n \in Nat
    BY <1>2
<1>4. PICK d \in Cells : d = (r + n) % Size /\ GetUsedSize(d, w) = u - n
    <2>1. n \in 0..GetUsedSize(r, w) /\ u = GetUsedSize(r, w)
        BY <1>1, <1>2 DEF GetReadSize
    <2> QED  BY <2>1, UsedAfterRead
<1>5. PICK S : S = {buffer[c] : c \in Cells}
    OBVIOUS
<1>6. PICK old : old = Unread
    OBVIOUS
<1>7. /\ old \in Seq(S) /\ Len(old) = u
      /\ \A i \in 1..u : old[i] = buffer[(r + i) % Size]
    BY <1>1, <1>2, <1>5, <1>6, UnreadIs
<1>8. PICK new : new = [i \in 1..u - n |-> buffer[(d + i) % Size]]
    OBVIOUS
<1>9. Unread' = new
    BY <1>1, <1>4, <1>8 DEF Unread, GetReadSize
<1>10. new \in Seq(S) /\ Len(new) = u - n
    <2>1. ASSUME NEW i \in 1..u - n PROVE buffer[(d + i) % Size] \in S
        <3>1. d + i \in Int
            BY <1>3 DEF Cells
        <3> QED  BY <1>5, <3>1, ModCell
    <2> QED  BY <1>3, <1>8, <2>1
<1>11. ASSUME NEW i \in 1..Len(new) PROVE new[i] = old[n + i]
    <2>1. i \in 1..u - n /\ i \in Nat /\ n + i \in 1..u /\ n + i <= Size
        BY <1>3, <1>10
    <2>2. (d + i) % Size = (r + (n + i)) % Size
        BY <1>3, <1>4, <2>1, MoveTwice
    <2> QED  BY <1>7, <1>8, <2>1, <2>2
<1>12. n + Len(new) = u /\ u <= Len(old)
    BY <1>3, <1>7, <1>10
<1>13. new = SubSeq(old, n + 1, u)
    BY <1>3, <1>7, <1>10, <1>11, <1>12, SubSeqIs
<1> QED  BY <1>6, <1>7, <1>9, <1>13

\* The bytes Dequeue and Peek copy out are the oldest ones.
LEMMA ReadFirst ==
    ASSUME RingTypeOK, NEW n \in 1..GetReadSize
    PROVE  LET segs == Segments(readPosition,
                                GetDirectDequeueSize(readPosition, writePosition), n)
           IN  /\ CopyOut(segs) = SubSeq(Unread, 1, n)
               /\ LastCell(segs) = (readPosition + n) % Size
<1> USE RingAssumption
<1>1. PICK r \in Cells, w \in Cells : r = readPosition /\ w = writePosition
    BY DEF RingTypeOK
<1>2. PICK u \in 0..Size - 1 : u = GetReadSize
    BY UnreadIs
<1>3. n \in 1..Size - 1 /\ n <= u /\ n \in Nat
    BY <1>2
<1>4. PICK a \in Cells : a = (r + 1) % Size
    <2>1. r + 1 \in Int
        BY DEF Cells
    <2> QED  BY <2>1, ModCell
<1>5. PICK direct \in Nat : /\ direct = GetDirectDequeueSize(r, w)
                            /\ direct < n => a + direct = Size
                            /\ n <= direct => a + n <= Size
    <2>1. n \in 1..GetUsedSize(r, w)
        BY <1>1 DEF GetReadSize
    <2> QED  BY <1>4, <2>1, DequeueDirect
<1>6. LastCell(Segments(r, direct, n)) = (r + n) % Size
    BY <1>3, <1>4, <1>5, SegmentsAre
<1>7. CopyOut(Segments(r, direct, n)) = [i \in 1..n |-> buffer[(r + i) % Size]]
    BY <1>3, <1>4, <1>5, CopyOutIs
<1>8. PICK S, old, c : /\ S = {buffer[d] : d \in Cells} /\ old = Unread
                       /\ c = [i \in 1..n |-> buffer[(r + i) % Size]]
    OBVIOUS
<1>9. /\ old \in Seq(S) /\ Len(old) = u
      /\ \A i \in 1..u : old[i] = buffer[(r + i) % Size]
    BY <1>1, <1>2, <1>8, UnreadIs
<1>10. \A i \in 1..n : i \in 1..u
    BY <1>3
<1>11. \A i \in 1..n : c[i] = old[0 + i]
    BY <1>8, <1>9, <1>10
<1>12. c \in Seq(S) /\ Len(c) = n
    <2>1. \A i \in 1..n : buffer[(r + i) % Size] \in S
        BY <1>9, <1>10
    <2> QED  BY <1>3, <1>8, <2>1
<1>13. c = SubSeq(old, 0 + 1, n)
    <2>1. 0 \in Nat /\ 0 + Len(c) = n /\ n <= Len(old)
        BY <1>3, <1>9, <1>12
    <2> QED  BY <1>3, <1>9, <1>11, <1>12, <2>1, SubSeqIs
<1> QED  BY <1>1, <1>5, <1>6, <1>7, <1>8, <1>13

\* The leading bytes of a sequence.
LEMMA PrefixIs ==
    ASSUME NEW T, NEW s \in Seq(T), NEW n \in 0..Len(s)
    PROVE  SubSeq(s, 1, n) \in Seq(T) /\ Len(SubSeq(s, 1, n)) = n
<1>1. /\ SubSeq(s, 1, n) \in Seq(T)
      /\ Len(SubSeq(s, 1, n)) = IF 1 <= n THEN n - 1 + 1 ELSE 0
    <2>1. 1 \in Nat /\ n \in Nat /\ \A i \in 1..n : s[i] \in T
        OBVIOUS
    <2> QED  BY <2>1, SubSeqProperties
<1> QED  BY <1>1

\* Enqueue and WSARecv put, ...
LEMMA EnqueuePuts ==
    ASSUME RingTypeOK, NEW s \in Inputs, Enqueue(s)
    PROVE  Queue!Put(s)
<1> USE RingAssumption
<1>1. PICK r \in Cells, w \in Cells : r = readPosition /\ w = writePosition
    BY DEF RingTypeOK
<1>2. PICK free \in 0..Size - 1 : free = GetWriteSize /\ free = Size - 1 - Len(Unread)
    BY UnreadIs
<1>3. PICK T : s \in Seq(T) /\ Len(s) \in Nat /\ Len(s) > 0
    BY InputFacts
<1>4. PICK size \in 0..Size - 1 : size = IF free < Len(s) THEN free ELSE Len(s)
    BY <1>3
<1>5. Queue!Least(Len(s), (Size - 1) - Len(Unread)) = size
    BY <1>2, <1>3, <1>4 DEF Queue!Least
<1>6. PICK x : x = SubSeq(s, 1, size)
    OBVIOUS
<1>7. x \in Seq(T) /\ Len(x) = size
    <2>1. size \in 0..Len(s)
        BY <1>3, <1>4
    <2> QED  BY <1>3, <1>6, <2>1, PrefixIs
<1>8. out' = <<>> /\ readPosition' = readPosition
    BY Enqueue(s) DEF Enqueue
<1>9. Unread' = Unread \o x
    <2>1. CASE size = 0
        <3>1. buffer' = buffer /\ writePosition' = writePosition
            BY <1>2, <1>4, <2>1 DEF Enqueue, GetWriteSize
        <3>2. Unread' = Unread
            BY <1>8, <3>1 DEF Unread, GetReadSize
        <3>3. x = <<>>
            BY <1>7, <2>1
        <3>4. Unread \o <<>> = Unread
            BY UnreadIs
        <3> QED  BY <3>2, <3>3, <3>4
    <2>2. CASE size # 0
        <3>1. PICK a \in Cells : a = (w + 1) % Size
            <4>1. w + 1 \in Int
                BY DEF Cells
            <4> QED  BY <4>1, ModCell
        <3>2. size \in 1..Size - 1 /\ size \in 1..free
            BY <1>3, <1>4, <2>2
        <3>3. PICK direct \in Nat : /\ direct = GetDirectEnqueueSize(r, w)
                                    /\ direct < size => a + direct = Size
                                    /\ size <= direct => a + size <= Size
            <4>1. size \in 1..GetFreeSize(r, w)
                BY <1>1, <1>2, <3>2 DEF GetWriteSize
            <4> QED  BY <3>1, <4>1, EnqueueDirect
        <3>4. PICK segs : segs = Segments(w, direct, size)
            OBVIOUS
        <3>5. LastCell(segs) = (w + size) % Size /\ Layout(segs, w, size)
            BY <3>1, <3>2, <3>3, <3>4, SegmentsAre
        <3>6. buffer' = CopyIn(segs, x) /\ writePosition' = LastCell(segs)
            BY <1>1, <1>2, <1>4, <1>6, <2>2, <3>3, <3>4 DEF Enqueue, GetWriteSize
        <3>7. size \in 1..GetWriteSize
            BY <1>2, <3>2
        <3> QED  BY <1>1, <1>7, <1>8, <3>5, <3>6, <3>7, WriteAppends
    <2> QED  BY <2>1, <2>2
<1> QED  BY <1>5, <1>6, <1>8, <1>9 DEF Queue!Put

LEMMA ReceivePuts ==
    ASSUME RingTypeOK, NEW s \in Inputs, ReceiveDirect(s)
    PROVE  Queue!Put(s)
<1> USE RingAssumption
<1>1. PICK T : s \in Seq(T) /\ Len(s) \in Nat /\ Len(s) > 0
    BY InputFacts
<1>2. PICK free \in 0..Size - 1 : free = GetWriteSize /\ free = Size - 1 - Len(Unread)
    BY UnreadIs
<1>3. /\ Len(s) <= free /\ buffer' = CopyIn(GetDirectEnQData, s)
      /\ writePosition' = (writePosition + Len(s)) % Size
      /\ out' = <<>> /\ readPosition' = readPosition
    BY <1>2 DEF ReceiveDirect, Move
<1>4. Len(s) \in 1..GetWriteSize
    BY <1>1, <1>2, <1>3
<1>5. Layout(GetDirectEnQData, writePosition, Len(s))
    BY <1>4, DirectLayout
<1>6. PICK segs, n : segs = GetDirectEnQData /\ n = Len(s)
    OBVIOUS
<1>7. Unread' = Unread \o s
    BY <1>1, <1>3, <1>4, <1>5, <1>6, WriteAppends
<1>8. Queue!Least(Len(s), (Size - 1) - Len(Unread)) = Len(s)
    BY <1>1, <1>2, <1>3 DEF Queue!Least
<1>9. SubSeq(s, 1, Len(s)) = s
    <2>1. /\ SubSeq(s, 1, Len(s)) \in Seq(T)
          /\ Len(SubSeq(s, 1, Len(s))) = IF 1 <= Len(s) THEN Len(s) - 1 + 1 ELSE 0
          /\ \A i \in 1..Len(s) - 1 + 1 : SubSeq(s, 1, Len(s))[i] = s[1 + i - 1]
        BY <1>1, SubSeqProperties
    <2>2. Len(SubSeq(s, 1, Len(s))) = Len(s)
        BY <1>1, <2>1
    <2>3. \A i \in 1..Len(s) : SubSeq(s, 1, Len(s))[i] = s[i]
        BY <1>1, <2>1
    <2> QED  BY <1>1, <2>1, <2>2, <2>3, SeqEqual
<1> QED  BY <1>3, <1>7, <1>8, <1>9 DEF Queue!Put

\* ... Dequeue takes, Peek looks, MoveReadPosition drops.
LEMMA ReadsAre ==
    ASSUME RingTypeOK, NEW n \in 1..Size
    PROVE  /\ Dequeue(n) => Queue!Take(n)
           /\ Peek(n) => Queue!Look(n)
           /\ MoveReadPosition(n) => Queue!Drop(n)
<1> USE RingAssumption
<1>1. PICK used \in 0..Size - 1 : used = GetReadSize /\ used = Len(Unread)
    BY UnreadIs
<1>2. PICK size \in 0..Size - 1 : size = IF used < n THEN used ELSE n
    <2>1. (IF used < n THEN used ELSE n) \in 0..Size - 1
        OBVIOUS
    <2> QED  BY <2>1
<1>3. size \in 0..used /\ (size = 0 <=> used = 0)
    BY <1>2
<1>4. Queue!Least(n, Len(Unread)) = size
    BY <1>1, <1>2, <1>3 DEF Queue!Least
<1>5. PICK segs : segs = Segments(readPosition,
                                  GetDirectDequeueSize(readPosition, writePosition), size)
    OBVIOUS
<1>6. ASSUME size # 0
      PROVE  CopyOut(segs) = SubSeq(Unread, 1, size)
             /\ LastCell(segs) = (readPosition + size) % Size
    <2>1. size \in 1..GetReadSize
        BY <1>1, <1>3, <1>6
    <2> QED  BY <1>5, <2>1, ReadFirst
<1>7. ASSUME size = 0 PROVE SubSeq(Unread, 1, size) = <<>>
    <2>1. PICK T : Unread \in Seq(T)
        BY UnreadIs
    <2>2. SubSeq(Unread, 1, size) \in Seq(T) /\ Len(SubSeq(Unread, 1, size)) = size
        <3>1. size \in 0..Len(Unread)
            BY <1>1, <1>3
        <3> QED  BY <2>1, <3>1, PrefixIs
    <2> QED  BY <1>7, <2>2
<1>8. size \in 0..GetReadSize
    BY <1>1, <1>3
<1>9. ASSUME Dequeue(n) PROVE Queue!Take(n)
    <2>1. buffer' = buffer /\ writePosition' = writePosition
        BY <1>9 DEF Dequeue
    <2>2. out' = SubSeq(Unread, 1, size)
          /\ readPosition' = (readPosition + size) % Size
        <3>1. CASE size = 0
            <4>1. out' = <<>> /\ readPosition' = readPosition
                BY <1>1, <1>2, <1>9, <3>1 DEF Dequeue, GetReadSize
            <4>2. readPosition = (readPosition + size) % Size
                BY <3>1 DEF RingTypeOK, Cells
            <4> QED  BY <1>7, <3>1, <4>1, <4>2
        <3>2. CASE size # 0
            <4>1. out' = CopyOut(segs) /\ readPosition' = LastCell(segs)
                BY <1>1, <1>2, <1>5, <1>9, <3>2 DEF Dequeue, GetReadSize
            <4> QED  BY <1>6, <3>2, <4>1
        <3> QED  BY <3>1, <3>2
    <2>3. Unread' = SubSeq(Unread, size + 1, Len(Unread))
        BY <1>8, <2>1, <2>2, ReadDrops
    <2> QED  BY <1>4, <2>2, <2>3 DEF Queue!Take
<1>10. ASSUME Peek(n) PROVE Queue!Look(n)
    <2>1. buffer' = buffer /\ writePosition' = writePosition /\ readPosition' = readPosition
        BY <1>10 DEF Peek
    <2>2. out' = IF size = 0 THEN <<>> ELSE CopyOut(segs)
        BY <1>1, <1>2, <1>5, <1>10 DEF Peek, GetReadSize
    <2>3. out' = SubSeq(Unread, 1, size)
        BY <1>6, <1>7, <2>2
    <2>4. Unread' = Unread
        BY <2>1 DEF Unread, GetReadSize
    <2> QED  BY <1>4, <2>3, <2>4 DEF Queue!Look
<1>11. ASSUME MoveReadPosition(n) PROVE Queue!Drop(n)
    <2>1. /\ n <= GetReadSize /\ readPosition' = (readPosition + n) % Size
          /\ out' = <<>> /\ buffer' = buffer /\ writePosition' = writePosition
        BY <1>11 DEF MoveReadPosition, Move
    <2>2. n \in 0..GetReadSize
        BY <1>1, <2>1
    <2>3. Unread' = SubSeq(Unread, n + 1, Len(Unread))
        BY <2>1, <2>2, ReadDrops
    <2> QED  BY <1>1, <2>1, <2>3 DEF Queue!Drop
<1> QED  BY <1>9, <1>10, <1>11

\* An empty ring has nothing to read.
LEMMA EmptyUnread == readPosition = 0 /\ writePosition = 0 => Unread = <<>>
<1> SUFFICES ASSUME readPosition = 0, writePosition = 0
             PROVE  Unread = <<>>
    OBVIOUS
<1>1. GetReadSize = 0 /\ RingTypeOK
    BY RingAssumption DEF GetReadSize, GetUsedSize, RingTypeOK, Cells
<1> QED  BY <1>1, UnreadIs

\* RingQ implements the bounded byte queue, whatever its size and whatever is
\* written: no call loses, repeats or reorders a byte, wrapped or not.
THEOREM Refinement == RingSpec => ImplementsQueue
<1>1. RingInit => Queue!Init
    BY EmptyUnread DEF RingInit, Queue!Init
<1>2. RingTypeOK /\ [RingNext]_ringVars => [Queue!Next]_(Queue!vars)
    <2> SUFFICES ASSUME RingTypeOK, [RingNext]_ringVars
                 PROVE  [Queue!Next]_(Queue!vars)
        OBVIOUS
    <2>1. ASSUME NEW s \in Inputs, Enqueue(s) \/ ReceiveDirect(s)
          PROVE  Queue!Next
        BY <2>1, EnqueuePuts, ReceivePuts DEF Queue!Next
    <2>2. ASSUME NEW n \in 1..Size, Dequeue(n) \/ Peek(n) \/ MoveReadPosition(n)
          PROVE  Queue!Next
        <3>1. n \in 1..(Size - 1) + 1
            BY RingAssumption
        <3> QED  BY <2>2, <3>1, ReadsAre DEF Queue!Next
    <2>3. CASE ClearBuffer
        <3>1. readPosition' = 0 /\ writePosition' = 0 /\ out' = <<>>
            BY <2>3 DEF ClearBuffer
        <3>2. Unread' = <<>>
            <4>1. (readPosition = 0 /\ writePosition = 0 => Unread = <<>>)'
                BY EmptyUnread, PTL
            <4> QED  BY <3>1, <4>1
        <3> QED  BY <3>1, <3>2 DEF Queue!Next, Queue!Clear
    <2>4. CASE UNCHANGED ringVars
        BY <2>4 DEF ringVars, Unread, GetReadSize, Queue!vars
    <2> QED  BY <2>1, <2>2, <2>3, <2>4 DEF RingNext
<1> QED  BY <1>1, <1>2, TypeCorrect, PTL DEF RingSpec, ImplementsQueue, Queue!Spec

-----------------------------------------------------------------------------
(***************************************************************************)
(* ReceiveIO cuts the stream into the messages that were sent              *)
(***************************************************************************)

\* The n bytes q continue a stream of z messages, of the sizes L, at the header
\* of message first: they are bytes of these messages, each message runs on to
\* its end, and the next one begins behind it ...
Follows(q, n, L, z, first) ==
    /\ n \in Nat /\ z \in Nat /\ first \in Nat /\ L \in [1..z -> Nat]
    /\ \A i \in 1..n : q[i] \in Nat \X Nat /\ q[i][1] \in 1..z /\ q[i][2] < L[q[i][1]]
    /\ \A i, k \in 1..n : i <= k /\ q[i][2] + (k - i) < L[q[i][1]] =>
                             q[k] = <<q[i][1], q[i][2] + (k - i)>>
    /\ \A i \in 1..n - 1 : q[i][2] + 1 = L[q[i][1]] => q[i + 1] = <<q[i][1] + 1, 0>>
    /\ n > 0 => q[1] = <<first, 0>>

\* ... and reach the end of the last of them.
ToTheEnd(q, n, L, z, first) ==
    /\ n = 0 => first = z + 1
    /\ n > 0 => q[n] = <<z, L[z] - 1>>

\* The first bytes are those of the first message.
LEMMA FirstMessage ==
    ASSUME NEW q, NEW n, NEW L, NEW z, NEW first, Follows(q, n, L, z, first), n > 0
    PROVE  /\ first \in 1..z
           /\ \A i \in 1..n : i <= L[first] => q[i] = <<first, i - 1>>
<1>0. n \in Nat /\ z \in Nat /\ first \in Nat /\ L \in [1..z -> Nat]
    BY DEF Follows
<1>1. 1 \in 1..n
    BY <1>0
<1>2. q[1] = <<first, 0>> /\ q[1][1] = first /\ q[1][2] = 0
    BY <1>1 DEF Follows
<1>3. first \in 1..z
    BY <1>1, <1>2 DEF Follows
<1>4. ASSUME NEW i \in 1..n, i <= L[first] PROVE q[i] = <<first, i - 1>>
    <2>1. i \in Nat /\ 1 <= i
        BY <1>0
    <2>2. 0 + (i - 1) < L[first] /\ 0 + (i - 1) = i - 1
        BY <1>0, <1>3, <1>4, <2>1
    <2>3. q[1][2] + (i - 1) < L[q[1][1]] => q[i] = <<q[1][1], q[1][2] + (i - 1)>>
        BY <1>1, <2>1 DEF Follows
    <2> QED  BY <1>2, <2>2, <2>3
<1> QED  BY <1>3, <1>4

\* A prefix, which is what a reset leaves, still follows.
LEMMA FollowsPrefix ==
    ASSUME NEW q, NEW p, NEW n \in Nat, NEW m \in 0..n, NEW L, NEW z, NEW first,
           Follows(q, n, L, z, first), \A i \in 1..m : p[i] = q[i]
    PROVE  Follows(p, m, L, z, first)
<1>1. \A i \in 1..m : i \in 1..n /\ p[i] = q[i]
    OBVIOUS
<1>2. \A i \in 1..m : p[i] \in Nat \X Nat /\ p[i][1] \in 1..z /\ p[i][2] < L[p[i][1]]
    BY <1>1 DEF Follows
<1>3. \A i, k \in 1..m : i <= k /\ p[i][2] + (k - i) < L[p[i][1]] =>
                            p[k] = <<p[i][1], p[i][2] + (k - i)>>
    BY <1>1 DEF Follows
<1>4. \A i \in 1..m - 1 : p[i][2] + 1 = L[p[i][1]] => p[i + 1] = <<p[i][1] + 1, 0>>
    <2>1. \A i \in 1..m - 1 : i \in 1..n - 1 /\ p[i] = q[i] /\ p[i + 1] = q[i + 1]
        BY <1>1
    <2> QED  BY <2>1 DEF Follows
<1>5. m > 0 => p[1] = <<first, 0>>
    <2>1. m > 0 => n > 0 /\ p[1] = q[1]
        BY <1>1
    <2> QED  BY <2>1 DEF Follows
<1>6. m \in Nat /\ z \in Nat /\ first \in Nat /\ L \in [1..z -> Nat]
    BY DEF Follows
<1> QED  BY <1>2, <1>3, <1>4, <1>5, <1>6 DEF Follows

\* p is what q holds behind message first, which ends with byte h.
CutAt(q, p, h, m, first) ==
    /\ h \in Nat /\ h > 0 /\ m \in Nat /\ q[h][1] = first
    /\ m > 0 => q[h + 1] = <<first + 1, 0>>
    /\ \A i \in 1..m : p[i] = q[h + i]

\* Cutting off the first message leaves a stream that begins with the next one.
LEMMA FollowsDrop ==
    ASSUME NEW q, NEW p, NEW h, NEW m, NEW L, NEW z, NEW first,
           Follows(q, h + m, L, z, first), CutAt(q, p, h, m, first)
    PROVE  /\ Follows(p, m, L, z, first + 1)
           /\ ToTheEnd(q, h + m, L, z, first) => ToTheEnd(p, m, L, z, first + 1)
<1> SUFFICES ASSUME h \in Nat, h > 0, m \in Nat, q[h][1] = first,
                    m > 0 => q[h + 1] = <<first + 1, 0>>,
                    \A i \in 1..m : p[i] = q[h + i]
             PROVE  /\ Follows(p, m, L, z, first + 1)
                    /\ ToTheEnd(q, h + m, L, z, first) => ToTheEnd(p, m, L, z, first + 1)
    BY DEF CutAt
<1>1. \A i \in 1..m : h + i \in 1..h + m /\ p[i] = q[h + i]
    OBVIOUS
<1>2. \A i \in 1..m : p[i] \in Nat \X Nat /\ p[i][1] \in 1..z /\ p[i][2] < L[p[i][1]]
    BY <1>1 DEF Follows
<1>3. ASSUME NEW i \in 1..m, NEW k \in 1..m, i <= k, p[i][2] + (k - i) < L[p[i][1]]
      PROVE  p[k] = <<p[i][1], p[i][2] + (k - i)>>
    <2>0. i \in Nat /\ k \in Nat /\ i <= k
        BY <1>3
    <2>1. /\ h + i <= h + k /\ (h + k) - (h + i) = k - i
          /\ h + i \in 1..h + m /\ h + k \in 1..h + m
        <3>1. h + i <= h + k /\ (h + k) - (h + i) = k - i
            BY <2>0
        <3> QED  BY <1>1, <3>1
    <2>2. q[h + i][2] + ((h + k) - (h + i)) < L[q[h + i][1]]
        BY <1>1, <1>3, <2>1
    <2>3. q[h + k] = <<q[h + i][1], q[h + i][2] + ((h + k) - (h + i))>>
        BY <2>1, <2>2 DEF Follows
    <2> QED  BY <1>1, <2>1, <2>3
<1>4. ASSUME NEW i \in 1..m - 1, p[i][2] + 1 = L[p[i][1]]
      PROVE  p[i + 1] = <<p[i][1] + 1, 0>>
    <2>1. /\ i \in 1..m /\ i + 1 \in 1..m /\ h + i \in 1..(h + m) - 1
          /\ h + (i + 1) = (h + i) + 1
        OBVIOUS
    <2>2. p[i] = q[h + i] /\ p[i + 1] = q[(h + i) + 1]
        BY <1>1, <2>1
    <2> QED  BY <1>4, <2>1, <2>2 DEF Follows
<1>5. h + m \in Nat /\ h \in 1..h + m /\ h + m > 0
    OBVIOUS
<1>6. m > 0 => p[1] = <<first + 1, 0>>
    <2>1. m > 0 => 1 \in 1..m
        OBVIOUS
    <2> QED  BY <1>1, <2>1
<1>7. ASSUME ToTheEnd(q, h + m, L, z, first) PROVE ToTheEnd(p, m, L, z, first + 1)
    <2>1. q[h + m] = <<z, L[z] - 1>>
        BY <1>5, <1>7 DEF ToTheEnd
    <2>2. m = 0 => first = z
        <3>1. m = 0 => h + m = h
            OBVIOUS
        <3> QED  BY <2>1, <3>1
    <2>3. m > 0 => p[m] = q[h + m]
        BY <1>1
    <2> QED  BY <2>1, <2>2, <2>3 DEF ToTheEnd
<1>8. m \in Nat /\ z \in Nat /\ first + 1 \in Nat /\ L \in [1..z -> Nat]
    BY DEF Follows
<1>9. Follows(p, m, L, z, first + 1)
    BY <1>2, <1>3, <1>4, <1>6, <1>8 DEF Follows
<1> QED  BY <1>7, <1>9

\* The place in an appended message of a byte behind the first n.
LEMMA PlaceBehind ==
    ASSUME NEW n \in Nat, NEW h \in Nat, NEW i \in 1..n + h, i > n
    PROVE  i - n \in 1..h /\ n + (i - n) = i /\ i - n - 1 \in Nat /\ i - n - 1 < h
<1> QED  OBVIOUS

\* A message sent continues a stream that reaches to the end.
LEMMA FollowsSend ==
    ASSUME NEW q, NEW p, NEW n \in Nat, NEW z \in Nat, NEW first \in Nat, NEW h \in Nat,
           h > 0, NEW L \in [1..z -> Nat], NEW M \in [1..z + 1 -> Nat],
           Follows(q, n, L, z, first), ToTheEnd(q, n, L, z, first),
           \A m \in 1..z : M[m] = L[m], M[z + 1] = h,
           \A i \in 1..n : p[i] = q[i],
           \A i \in 1..h : p[n + i] = <<z + 1, i - 1>>
    PROVE  /\ Follows(p, n + h, M, z + 1, first)
           /\ ToTheEnd(p, n + h, M, z + 1, first)
<1>1. ASSUME NEW i \in 1..n
      PROVE  /\ p[i] = q[i] /\ q[i] \in Nat \X Nat /\ q[i][1] \in 1..z
             /\ q[i][1] \in Nat /\ q[i][2] \in Nat
             /\ L[q[i][1]] \in Nat /\ M[q[i][1]] = L[q[i][1]] /\ q[i][2] < L[q[i][1]]
    <2>1. q[i] \in Nat \X Nat /\ q[i][1] \in 1..z /\ q[i][2] < L[q[i][1]]
        BY DEF Follows
    <2> QED  BY <2>1
<1>2. ASSUME NEW i \in 1..n + h, i > n
      PROVE  /\ p[i] = <<z + 1, i - n - 1>> /\ p[i][1] = z + 1 /\ p[i][2] = i - n - 1
             /\ i - n - 1 \in Nat /\ i - n - 1 < h
    <2>1. i - n \in 1..h /\ n + (i - n) = i /\ i - n - 1 \in Nat /\ i - n - 1 < h
        BY <1>2, PlaceBehind, Zenon
    <2>2. p[i] = <<z + 1, i - n - 1>>
        BY <2>1
    <2> QED  BY <2>1, <2>2
<1>3. n > 0 => q[n] = <<z, L[z] - 1>> /\ n \in 1..n
    BY DEF ToTheEnd
<1>4. \A i \in 1..n + h : (i <= n => i \in 1..n) /\ i \in Nat /\ (~(i <= n) => i > n)
    OBVIOUS
<1>5. ASSUME NEW i \in 1..n + h
      PROVE  p[i] \in Nat \X Nat /\ p[i][1] \in 1..z + 1 /\ p[i][2] < M[p[i][1]]
    <2>1. CASE i <= n
        <3>1. p[i] \in Nat \X Nat /\ p[i][2] < M[p[i][1]] /\ p[i][1] \in 1..z
            BY <1>1, <1>4, <2>1
        <3>2. 1..z \subseteq 1..z + 1
            OBVIOUS
        <3> QED  BY <3>1, <3>2
    <2>2. CASE i > n
        <3>1. z + 1 \in Nat /\ z + 1 \in 1..z + 1
            OBVIOUS
        <3>2. p[i] \in Nat \X Nat
            <4>1. p[i] = <<z + 1, i - n - 1>> /\ i - n - 1 \in Nat
                BY <1>2, <2>2
            <4> QED  BY <3>1, <4>1
        <3>3. p[i][1] = z + 1 /\ p[i][2] < h
            BY <1>2, <2>2
        <3> QED  BY <3>1, <3>2, <3>3
    <2> QED  BY <1>4, <2>1, <2>2
<1>6. ASSUME NEW i \in 1..n + h, NEW k \in 1..n + h, i <= k,
             p[i][2] + (k - i) < M[p[i][1]]
      PROVE  p[k] = <<p[i][1], p[i][2] + (k - i)>>
    <2>i. i \in Nat /\ k \in Nat
        BY <1>4
    <2>1. CASE k <= n
        <3>1. k \in 1..n /\ i \in 1..n
            BY <1>4, <1>6, <2>i, <2>1
        <3>2. q[i][2] + (k - i) < L[q[i][1]]
            BY <1>1, <1>6, <3>1
        <3>3. q[k] = <<q[i][1], q[i][2] + (k - i)>>
            BY <1>6, <3>1, <3>2 DEF Follows
        <3> QED  BY <1>1, <3>1, <3>3
    <2>2. CASE i > n
        <3>1. k > n
            BY <1>6, <2>i, <2>2
        <3>2. (i - n - 1) + (k - i) = k - n - 1
            BY <2>i
        <3> QED  BY <1>2, <2>2, <3>1, <3>2
    <2>3. CASE i <= n /\ k > n
        <3>1. i \in 1..n /\ n > 0 /\ n \in 1..n
            BY <1>4, <2>i, <2>3
        <3>2. PICK m \in 1..z, j \in Nat, l \in Nat :
                 m = q[i][1] /\ j = q[i][2] /\ l = L[m] /\ j + (k - i) < l
            <4>1. /\ q[i][1] \in 1..z /\ q[i][2] \in Nat /\ L[q[i][1]] \in Nat
                  /\ p[i] = q[i] /\ M[q[i][1]] = L[q[i][1]]
                BY <1>1, <3>1
            <4>2. q[i][2] + (k - i) < L[q[i][1]]
                BY <1>6, <4>1
            <4> QED  BY <4>1, <4>2
        <3>l. j + (k - i) < l
            BY <3>2, Zenon
        <3>3. j + (n - i) < l /\ i <= n
            BY <2>i, <2>3, <3>l
        <3>4. q[n] = <<m, j + (n - i)>>
            BY <3>1, <3>2, <3>3 DEF Follows
        <3>5. m = z /\ j + (n - i) = l - 1
            <4>1. q[n] = <<z, L[z] - 1>>
                BY <1>3, <3>1
            <4>2. m = z /\ j + (n - i) = L[z] - 1
                BY <3>4, <4>1
            <4> QED  BY <3>2, <4>2
        <3>6. FALSE
            BY <2>i, <2>3, <3>5, <3>l
        <3> QED  BY <3>6
    <2> QED  BY <1>4, <2>i, <2>1, <2>2, <2>3
<1>7. ASSUME NEW i \in 1..(n + h) - 1, p[i][2] + 1 = M[p[i][1]]
      PROVE  p[i + 1] = <<p[i][1] + 1, 0>>
    <2>n. i \in Nat /\ 1 <= i /\ i <= (n + h) - 1
        OBVIOUS
    <2>i. /\ i \in Nat /\ i \in 1..n + h /\ (i < n => i \in 1..n - 1 /\ i \in 1..n)
          /\ (i < n => i + 1 \in 1..n)
        BY <2>n
    <2>1. CASE i < n
        <3>1. q[i][2] + 1 = L[q[i][1]]
            BY <1>1, <1>7, <2>i, <2>1
        <3>2. q[i + 1] = <<q[i][1] + 1, 0>>
            BY <2>i, <2>1, <3>1 DEF Follows
        <3> QED  BY <1>1, <2>i, <2>1, <3>2
    <2>2. CASE i = n
        <3>1. n > 0 /\ n \in 1..n /\ 1 \in 1..h
            BY <2>i, <2>2
        <3>2. p[n] = q[n] /\ q[n][1] = z
            BY <1>1, <1>3, <3>1
        <3>3. p[n + 1] = <<z + 1, 1 - 1>>
            BY <3>1
        <3> QED  BY <2>2, <3>2, <3>3
    <2>3. CASE i > n
        <3>1. i - n - 1 + 1 = h
            BY <1>2, <1>7, <2>i, <2>3
        <3>2. FALSE
            BY <2>i, <3>1
        <3> QED  BY <3>2
    <2>4. i < n \/ i = n \/ i > n
        BY <2>i
    <2> QED  BY <2>1, <2>2, <2>3, <2>4
<1>8. p[1] = <<first, 0>>
    <2>1. CASE n = 0
        <3>1. first = z + 1
            BY <2>1 DEF ToTheEnd
        <3>2. 1 \in 1..h /\ n + 1 = 1
            BY <2>1
        <3>3. p[n + 1] = <<z + 1, 1 - 1>>
            BY <3>2
        <3> QED  BY <3>1, <3>2, <3>3
    <2>2. CASE n # 0
        <3>1. n > 0 /\ 1 \in 1..n
            BY <2>2
        <3>2. q[1] = <<first, 0>>
            BY <3>1 DEF Follows
        <3> QED  BY <3>1, <3>2
    <2> QED  BY <2>1, <2>2
<1>9. Follows(p, n + h, M, z + 1, first)
    <2>1. n + h \in Nat /\ z + 1 \in Nat
        OBVIOUS
    <2> QED  BY <1>5, <1>6, <1>7, <1>8, <2>1 DEF Follows
<1>10. ToTheEnd(p, n + h, M, z + 1, first)
    <2>1. h \in 1..h /\ n + h # 0
        OBVIOUS
    <2>2. p[n + h] = <<z + 1, h - 1>>
        BY <2>1
    <2> QED  BY <2>1, <2>2 DEF ToTheEnd
<1> QED  BY <1>9, <1>10

\* The messages sent, their sizes on the wire, and what is in the ring or on its
\* way.
Message == [len : Nat, valid : BOOLEAN]
Total == [m \in 1..Len(sent) |-> Header + sent[m].len]
Rest == Unread \o wire

\* The inductive invariant of the receive path, as long as nothing was read
\* behind the end of m_Buffer or received from another connection.
ReceiveInv ==
    /\ spoiled \in BOOLEAN
    /\ ~spoiled =>
          /\ RingTypeOK
          /\ sent \in Seq(Message)
          /\ wire \in Seq(Nat \X Nat)
          /\ parsed \in 0..Len(sent)
          /\ delivered \in Seq(Nat)
          /\ Follows(Rest, Len(Rest), Total, Len(sent), parsed + 1)
          /\ peer # "reset" => ToTheEnd(Rest, Len(Rest), Total, Len(sent), parsed + 1)
          /\ DeliveredInOrder

\* What is in the ring comes first.
LEMMA RestIs ==
    ASSUME RingTypeOK, wire \in Seq(Nat \X Nat)
    PROVE  LET S == {buffer[c] : c \in Cells} \cup (Nat \X Nat)
           IN  /\ Unread \in Seq(S) /\ wire \in Seq(S) /\ Rest \in Seq(S)
               /\ Len(Rest) = GetReadSize + Len(wire)
               /\ Len(Unread) = GetReadSize /\ GetReadSize \in Nat /\ Len(wire) \in Nat
               /\ \A i \in 1..GetReadSize : /\ Rest[i] = Unread[i]
                                            /\ Rest[i] = buffer[(readPosition + i) % Size]
               /\ \A i \in 1..Len(wire) : Rest[GetReadSize + i] = wire[i]
<1>1. PICK S : S = {buffer[c] : c \in Cells} \cup (Nat \X Nat)
    OBVIOUS
<1>2. PICK u : u = Unread
    OBVIOUS
<1>3. /\ u \in Seq({buffer[c] : c \in Cells}) /\ Len(u) = GetReadSize /\ GetReadSize \in Nat
      /\ \A i \in 1..GetReadSize : u[i] = buffer[(readPosition + i) % Size]
    BY <1>2, UnreadIs
<1>4. u \in Seq(S) /\ wire \in Seq(S)
    <2>1. {buffer[c] : c \in Cells} \subseteq S /\ Nat \X Nat \subseteq S
        BY <1>1
    <2> QED  BY <1>3, <2>1
<1>5. /\ u \o wire \in Seq(S) /\ Len(u \o wire) = Len(u) + Len(wire)
      /\ \A i \in 1..Len(u) : (u \o wire)[i] = u[i]
      /\ \A i \in 1..Len(wire) : (u \o wire)[Len(u) + i] = wire[i]
    BY <1>4
<1>6. Len(wire) \in Nat
    OBVIOUS
<1> QED  BY <1>1, <1>2, <1>3, <1>4, <1>5, <1>6 DEF Rest

\* Message sizes.
LEMMA TotalIs ==
    ASSUME sent \in Seq(Message)
    PROVE  /\ Len(sent) \in Nat /\ Total \in [1..Len(sent) -> Nat]
           /\ \A m \in 1..Len(sent) : /\ sent[m].len \in Nat /\ sent[m].valid \in BOOLEAN
                                      /\ Total[m] = Header + sent[m].len
<1>1. Len(sent) \in Nat
    OBVIOUS
<1>2. \A m \in 1..Len(sent) : sent[m] \in Message
    OBVIOUS
<1>3. \A m \in 1..Len(sent) : sent[m].len \in Nat /\ sent[m].valid \in BOOLEAN
    BY <1>2 DEF Message
<1>4. \A m \in 1..Len(sent) : Header + sent[m].len \in Nat
    BY <1>3, ReceiveAssumption
<1> QED  BY <1>1, <1>3, <1>4 DEF Total

\* The invariant says that the stream is in sync.
LEMMA InvReassembled == ReceiveInv => Reassembled
<1> SUFFICES ASSUME ReceiveInv, ~spoiled
             PROVE  InSync /\ DeliveredInOrder
    BY DEF Reassembled
<1>1. /\ RingTypeOK /\ sent \in Seq(Message) /\ wire \in Seq(Nat \X Nat)
      /\ parsed \in 0..Len(sent) /\ Follows(Rest, Len(Rest), Total, Len(sent), parsed + 1)
      /\ peer # "reset" => ToTheEnd(Rest, Len(Rest), Total, Len(sent), parsed + 1)
      /\ DeliveredInOrder
    BY DEF ReceiveInv
<1>2. PICK q, n : q = Rest /\ n = Len(Rest)
    OBVIOUS
<1>3. n \in Nat /\ (q = <<>> <=> n = 0)
    BY <1>1, <1>2, RestIs
<1>4. PICK z \in Nat : z = Len(sent)
    BY <1>1, TotalIs
<1>5. PICK L \in [1..z -> Nat] : L = Total
    BY <1>1, <1>4, TotalIs
<1>6. Follows(q, n, L, z, parsed + 1)
    BY <1>1, <1>2, <1>4, <1>5
<1>7. q # <<>> => q[1] = <<parsed + 1, 0>>
    BY <1>3, <1>6 DEF Follows
<1>8. ASSUME NEW i \in 1..n - 1 PROVE q[i + 1] = Successor(q[i])
    <2>1. i \in 1..n /\ i + 1 \in 1..n /\ i <= i + 1 /\ (i + 1) - i = 1
        BY <1>3
    <2>2. PICK m \in 1..z, j \in Nat : m = q[i][1] /\ j = q[i][2] /\ j < L[m]
        <3>1. q[i] \in Nat \X Nat /\ q[i][1] \in 1..z /\ q[i][2] < L[q[i][1]]
            BY <1>6, <2>1 DEF Follows
        <3>2. q[i][2] \in Nat
            BY <3>1
        <3> QED  BY <3>1, <3>2
    <2>3. L[m] = Header + sent[m].len /\ L[m] \in Nat
        BY <1>1, <1>4, <1>5, TotalIs
    <2>4. Successor(q[i]) = IF j + 1 < L[m] THEN <<m, j + 1>> ELSE <<m + 1, 0>>
        BY <2>2, <2>3 DEF Successor
    <2>5. CASE j + 1 < L[m]
        <3>1. q[i][2] + ((i + 1) - i) < L[q[i][1]] =>
                 q[i + 1] = <<q[i][1], q[i][2] + ((i + 1) - i)>>
            BY <1>6, <2>1 DEF Follows
        <3> QED  BY <2>1, <2>2, <2>4, <2>5, <3>1
    <2>6. CASE ~(j + 1 < L[m])
        <3>1. j + 1 = L[m]
            BY <2>2, <2>3, <2>6
        <3>2. q[i][2] + 1 = L[q[i][1]] => q[i + 1] = <<q[i][1] + 1, 0>>
            BY <1>6 DEF Follows
        <3> QED  BY <2>2, <2>4, <2>6, <3>1, <3>2
    <2> QED  BY <2>5, <2>6
<1>9. q = <<>> /\ peer # "reset" => parsed = Len(sent)
    <2>1. q = <<>> /\ peer # "reset" => parsed + 1 = z + 1
        BY <1>1, <1>2, <1>3, <1>4 DEF ToTheEnd
    <2>2. parsed \in Nat
        BY <1>1, <1>4
    <2> QED  BY <1>4, <2>1, <2>2
<1> QED  BY <1>1, <1>2, <1>7, <1>8, <1>9 DEF InSync, Rest

\* A step that leaves the ring, the stream and the history alone.
LEMMA QuietStep ==
    ASSUME ReceiveInv, spoiled' \in BOOLEAN, spoiled => spoiled',
           UNCHANGED <<readPosition, writePosition, buffer, sent, wire, peer, parsed,
                       delivered>>
    PROVE  ReceiveInv'
<1>1. Unread' = Unread
    BY DEF Unread, GetReadSize
<1>2. Rest' = Rest /\ Total' = Total
    BY <1>1 DEF Rest, Total
<1>3. RingTypeOK' <=> RingTypeOK
    BY DEF RingTypeOK
<1>4. DeliveredInOrder' <=> DeliveredInOrder
    BY DEF DeliveredInOrder
<1> QED  BY <1>2, <1>3, <1>4 DEF ReceiveInv

\* Sending extends the stream.
LEMMA SendKeeps ==
    ASSUME ReceiveInv, NEW len \in Lengths, NEW valid \in Verdicts, PeerSend(len, valid)
    PROVE  ReceiveInv'
<1>u. UNCHANGED <<readPosition, writePosition, buffer, parsed, delivered, spoiled, peer>>
      /\ peer = "open"
    BY DEF PeerSend, ringVars
<1>o. spoiled' = spoiled /\ spoiled \in BOOLEAN
    BY <1>u DEF ReceiveInv
<1> SUFFICES ASSUME ~spoiled
             PROVE  /\ RingTypeOK' /\ sent' \in Seq(Message) /\ wire' \in Seq(Nat \X Nat)
                    /\ parsed' \in 0..Len(sent') /\ delivered' \in Seq(Nat)
                    /\ Follows(Rest', Len(Rest'), Total', Len(sent'), parsed' + 1)
                    /\ ToTheEnd(Rest', Len(Rest'), Total', Len(sent'), parsed' + 1)
                    /\ DeliveredInOrder'
    BY <1>o DEF ReceiveInv
<1>1. /\ RingTypeOK /\ sent \in Seq(Message) /\ wire \in Seq(Nat \X Nat)
      /\ parsed \in 0..Len(sent) /\ delivered \in Seq(Nat)
      /\ Follows(Rest, Len(Rest), Total, Len(sent), parsed + 1)
      /\ ToTheEnd(Rest, Len(Rest), Total, Len(sent), parsed + 1)
      /\ DeliveredInOrder
    BY <1>u DEF ReceiveInv
<1>l. len \in Nat /\ valid \in BOOLEAN /\ Header \in Nat /\ Header > 0
    BY ReceiveAssumption
<1>2. PICK h \in Nat : h = Header + len /\ h > 0
    BY <1>l
<1>3. PICK z \in Nat : z = Len(sent)
    BY <1>1, TotalIs
<1>4. PICK msg \in Message : msg = [len |-> len, valid |-> valid]
    BY <1>l DEF Message
<1>5. PICK x : x = [i \in 1..h |-> <<z + 1, i - 1>>]
    OBVIOUS
<1>6. sent' = Append(sent, msg) /\ wire' = wire \o x
    BY <1>2, <1>3, <1>4, <1>5 DEF PeerSend
<1>7. /\ sent' \in Seq(Message) /\ Len(sent') = z + 1 /\ sent'[z + 1] = msg
      /\ \A m \in 1..z : sent'[m] = sent[m]
    BY <1>1, <1>3, <1>6
<1>8. x \in Seq(Nat \X Nat) /\ Len(x) = h /\ \A i \in 1..h : x[i] = <<z + 1, i - 1>>
    <2>1. \A i \in 1..h : z + 1 \in Nat /\ i - 1 \in Nat
        OBVIOUS
    <2>2. \A i \in 1..h : <<z + 1, i - 1>> \in Nat \X Nat
        BY <2>1
    <2> QED  BY <1>5, <2>2
<1>9. wire' \in Seq(Nat \X Nat)
    BY <1>1, <1>6, <1>8
<1>10. Unread' = Unread /\ RingTypeOK'
    BY <1>1, <1>u DEF Unread, GetReadSize, RingTypeOK
<1>11. PICK q, n, p : q = Rest /\ n = Len(Rest) /\ p = q \o x
    OBVIOUS
<1>12. n \in Nat /\ Rest' = p /\ Len(p) = n + h
       /\ (\A i \in 1..n : p[i] = q[i]) /\ (\A i \in 1..h : p[n + i] = <<z + 1, i - 1>>)
    <2>1. PICK S, u : S = {buffer[c] : c \in Cells} \cup (Nat \X Nat) /\ u = Unread
        OBVIOUS
    <2>2. u \in Seq(S) /\ wire \in Seq(S) /\ q \in Seq(S) /\ q = u \o wire
        BY <1>1, <1>11, <2>1, RestIs DEF Rest
    <2>3. x \in Seq(S)
        BY <1>8, <2>1
    <2>4. u \o (wire \o x) = (u \o wire) \o x
        BY <2>2, <2>3, ConcatAssociative
    <2>5. Rest' = p
        BY <1>6, <1>10, <1>11, <2>1, <2>2, <2>4 DEF Rest
    <2>6. /\ n \in Nat /\ Len(p) = n + h /\ \A i \in 1..n : p[i] = q[i]
          /\ \A i \in 1..h : p[n + i] = x[i]
        <3>1. /\ Len(q \o x) = Len(q) + Len(x) /\ Len(q) \in Nat
              /\ \A i \in 1..Len(q) : (q \o x)[i] = q[i]
              /\ \A i \in 1..Len(x) : (q \o x)[Len(q) + i] = x[i]
            BY <2>2, <2>3
        <3>2. n = Len(q) /\ h = Len(x) /\ p = q \o x
            BY <1>8, <1>11
        <3> QED  BY <3>1, <3>2
    <2> QED  BY <1>8, <2>5, <2>6
<1>13. PICK L \in [1..z -> Nat] :
          L = Total /\ \A m \in 1..z : sent[m].len \in Nat /\ L[m] = Header + sent[m].len
    BY <1>1, <1>3, TotalIs
<1>14. PICK M : M = [m \in 1..z + 1 |-> Header + sent'[m].len]
    OBVIOUS
<1>15. /\ Total' = M /\ M \in [1..z + 1 -> Nat]
       /\ (\A m \in 1..z : M[m] = L[m]) /\ M[z + 1] = h
    <2>1. Total' = M
        BY <1>7, <1>14 DEF Total
    <2>2. \A m \in 1..z : m \in 1..z + 1
        OBVIOUS
    <2>3. \A m \in 1..z : M[m] = L[m]
        BY <1>7, <1>13, <1>14, <2>2
    <2>4. z + 1 \in 1..z + 1 /\ msg.len = len
        BY <1>4
    <2>5. M[z + 1] = h
        BY <1>2, <1>7, <1>14, <2>4
    <2>6. \A m \in 1..z + 1 : m \in 1..z \/ m = z + 1
        OBVIOUS
    <2>7. \A m \in 1..z + 1 : M[m] \in Nat
        BY <2>3, <2>5, <2>6
    <2> QED  BY <1>14, <2>1, <2>3, <2>5, <2>7
<1>16. PICK f \in Nat : f = parsed + 1
    BY <1>1, <1>3
<1>17. Follows(q, n, L, z, f) /\ ToTheEnd(q, n, L, z, f)
    BY <1>1, <1>3, <1>11, <1>13, <1>16
<1>18. Follows(p, n + h, M, z + 1, f) /\ ToTheEnd(p, n + h, M, z + 1, f)
    BY <1>2, <1>12, <1>15, <1>17, FollowsSend
<1>19. /\ Follows(Rest', Len(Rest'), Total', Len(sent'), parsed' + 1)
       /\ ToTheEnd(Rest', Len(Rest'), Total', Len(sent'), parsed' + 1)
    BY <1>u, <1>7, <1>12, <1>15, <1>16, <1>18
<1>20. parsed' \in 0..Len(sent') /\ delivered' \in Seq(Nat)
    BY <1>1, <1>3, <1>7, <1>u
<1>21. DeliveredInOrder'
    <2>1. \A m \in 1..parsed : sent'[m] = sent[m]
        BY <1>1, <1>3, <1>7
    <2>2. {m \in 1..parsed : sent'[m].valid} = {m \in 1..parsed : sent[m].valid}
        BY <2>1
    <2>3. parsed' = parsed /\ delivered' = delivered /\ DeliveredInOrder
        BY <1>1, <1>u
    <2> QED  BY <2>2, <2>3 DEF DeliveredInOrder
<1> QED  BY <1>7, <1>9, <1>10, <1>19, <1>20, <1>21

\* A reset cuts the stream at the end of the ring.
LEMMA LeaveKeeps ==
    ASSUME ReceiveInv, NEW how \in {"closed", "reset"}, PeerLeave(how)
    PROVE  ReceiveInv'
<1>u. /\ UNCHANGED <<readPosition, writePosition, buffer, parsed, delivered, spoiled, sent>>
      /\ peer = "open" /\ peer' = how
    BY DEF PeerLeave, ringVars
<1>o. spoiled' = spoiled /\ spoiled \in BOOLEAN
    BY <1>u DEF ReceiveInv
<1>1. CASE ~spoiled /\ how = "reset"
    <2>1. /\ RingTypeOK /\ sent \in Seq(Message) /\ wire \in Seq(Nat \X Nat)
          /\ parsed \in 0..Len(sent) /\ delivered \in Seq(Nat)
          /\ Follows(Rest, Len(Rest), Total, Len(sent), parsed + 1)
          /\ DeliveredInOrder
        BY <1>1 DEF ReceiveInv
    <2>2. Unread' = Unread /\ RingTypeOK' /\ Total' = Total /\ wire' = <<>>
        BY <1>1, <1>u, <2>1 DEF Unread, GetReadSize, RingTypeOK, Total, PeerLeave
    <2>3. PICK q, p, n, m : q = Rest /\ p = Unread /\ n = Len(Rest) /\ m = Len(Unread)
        OBVIOUS
    <2>4. Rest' = p
        <3>1. p \o <<>> = p
            BY <2>1, <2>3, UnreadIs
        <3> QED  BY <2>2, <2>3, <3>1 DEF Rest
    <2>5. n \in Nat /\ m \in 0..n /\ \A i \in 1..m : p[i] = q[i]
        <3>1. /\ n = m + Len(wire) /\ m = GetReadSize /\ m \in Nat /\ Len(wire) \in Nat
              /\ \A i \in 1..GetReadSize : Rest[i] = Unread[i]
            BY <2>1, <2>3, RestIs
        <3> QED  BY <2>3, <3>1
    <2>6. Follows(p, m, Total, Len(sent), parsed + 1)
        BY <2>1, <2>3, <2>5, FollowsPrefix
    <2>7. Follows(Rest', Len(Rest'), Total', Len(sent'), parsed' + 1)
        BY <1>u, <2>2, <2>3, <2>4, <2>6
    <2>8. DeliveredInOrder'
        BY <1>u, <2>1 DEF DeliveredInOrder
    <2>9. wire' \in Seq(Nat \X Nat)
        BY <2>2
    <2> QED  BY <1>u, <1>o, <1>1, <2>1, <2>2, <2>7, <2>8, <2>9 DEF ReceiveInv
<1>2. CASE ~spoiled /\ how = "closed"
    <2>1. wire' = wire
        BY <1>2 DEF PeerLeave
    <2>2. Unread' = Unread
        BY <1>u DEF Unread, GetReadSize
    <2>3. Rest' = Rest /\ Total' = Total
        BY <1>u, <2>1, <2>2 DEF Rest, Total
    <2>4. DeliveredInOrder' <=> DeliveredInOrder
        BY <1>u DEF DeliveredInOrder
    <2>5. RingTypeOK' <=> RingTypeOK
        BY <1>u DEF RingTypeOK
    <2> QED  BY <1>u, <1>o, <1>2, <2>1, <2>3, <2>4, <2>5 DEF ReceiveInv
<1>3. CASE spoiled
    BY <1>3, <1>o DEF ReceiveInv
<1> QED  BY <1>1, <1>2, <1>3, <1>o

\* Data that arrives moves from the wire to the ring: the stream is the same.
LEMMA DataKeeps ==
    ASSUME ReceiveInv, NEW n \in 1..Size, CompleteData(n)
    PROVE  ReceiveInv'
<1>u. /\ UNCHANGED <<readPosition, parsed, delivered, spoiled, sent, peer>>
      /\ n <= Len(wire) /\ n <= GetWriteSize
      /\ buffer' = CopyIn(GetDirectEnQData, SubSeq(wire, 1, n))
      /\ writePosition' = (writePosition + n) % Size
      /\ wire' = SubSeq(wire, n + 1, Len(wire))
    BY DEF CompleteData, Move
<1>o. spoiled' = spoiled /\ spoiled \in BOOLEAN
    BY <1>u DEF ReceiveInv
<1>1. CASE ~spoiled
    <2>1. RingTypeOK /\ wire \in Seq(Nat \X Nat)
        BY <1>1 DEF ReceiveInv
    <2>i. n \in Nat /\ 1 <= n
        BY RingAssumption
    <2>2. n \in 1..GetWriteSize
        BY <1>u, <2>1, <2>i, UnreadIs
    <2>3. PICK x, y, k : /\ x = SubSeq(wire, 1, n) /\ y = SubSeq(wire, n + 1, Len(wire))
                         /\ k = Len(wire) /\ k \in Nat
        <3>1. Len(wire) \in Nat
            BY <2>1
        <3> QED  BY <3>1
    <2>4. x \in Seq(Nat \X Nat) /\ Len(x) = n
        <3>1. n \in 0..Len(wire)
            BY <1>u, <2>i, <2>3
        <3> QED  BY <2>1, <2>3, <3>1, PrefixIs
    <2>5. y \in Seq(Nat \X Nat)
        <3>1. n + 1 \in Nat /\ \A i \in n + 1..k : wire[i] \in Nat \X Nat
            BY <2>1, <2>i, <2>3
        <3> QED  BY <2>3, <3>1, SubSeqProperties
    <2>6. x \o y = wire
        <3>1. 1 \in 1..k + 1 /\ n \in 1 - 1..k /\ k \in n..k
            BY <1>u, <2>i, <2>3
        <3>2. SubSeq(wire, 1, n) \o SubSeq(wire, n + 1, Len(wire)) = wire
            <4>1. /\ 1 \in 1..Len(wire) + 1 /\ n \in 1 - 1..Len(wire)
                  /\ Len(wire) \in n..Len(wire)
                BY <2>3, <3>1
            <4>2. SubSeq(wire, 1, n) \o SubSeq(wire, n + 1, Len(wire)) =
                     SubSeq(wire, 1, Len(wire))
                BY <2>1, <4>1, ConcatAdjacentSubSeq
            <4> QED  BY <2>1, <4>2, SubSeqFull
        <3> QED  BY <2>3, <3>2
    <2>7. Layout(GetDirectEnQData, writePosition, n)
        BY <2>1, <2>2, DirectLayout
    <2>8. PICK segs : segs = GetDirectEnQData
        OBVIOUS
    <2>9. Unread' = Unread \o x
        BY <1>u, <2>1, <2>2, <2>3, <2>4, <2>7, <2>8, WriteAppends
    <2>10. Rest' = Rest
        <3>1. PICK S, u : S = {buffer[c] : c \in Cells} \cup (Nat \X Nat) /\ u = Unread
            OBVIOUS
        <3>2. u \in Seq(S) /\ x \in Seq(S) /\ y \in Seq(S)
            BY <2>1, <2>4, <2>5, <3>1, RestIs
        <3>3. (u \o x) \o y = u \o (x \o y)
            BY <3>2, ConcatAssociative
        <3> QED  BY <1>u, <2>3, <2>6, <2>9, <3>1, <3>3 DEF Rest
    <2>11. RingTypeOK'
        <3>1. writePosition + n \in Int
            BY <2>1, <2>i, RingAssumption DEF RingTypeOK, Cells
        <3> QED  BY <1>u, <2>1, <3>1, ModCell DEF RingTypeOK
    <2>12. Total' = Total /\ (DeliveredInOrder' <=> DeliveredInOrder)
        BY <1>u DEF Total, DeliveredInOrder
    <2> QED  BY <1>u, <1>o, <1>1, <2>3, <2>5, <2>10, <2>11, <2>12 DEF ReceiveInv
<1>2. CASE spoiled
    BY <1>2, <1>o DEF ReceiveInv
<1> QED  BY <1>1, <1>2, <1>o

\* d holds the valid ones of the first p of the messages s, in order.
InOrder(d, s, p) ==
    /\ {d[k] : k \in DOMAIN d} = {m \in 1..p : s[m].valid}
    /\ \A j, k \in DOMAIN d : j < k => d[j] < d[k]

\* A message that is not valid is passed over, ...
LEMMA PassOver ==
    ASSUME NEW d, NEW s, NEW p \in Nat, InOrder(d, s, p), ~s[p + 1].valid
    PROVE  InOrder(d, s, p + 1)
<1>1. \A m : m \in 1..p + 1 <=> m \in 1..p \/ m = p + 1
    OBVIOUS
<1>2. {m \in 1..p + 1 : s[m].valid} = {m \in 1..p : s[m].valid}
    BY <1>1
<1> QED  BY <1>2 DEF InOrder

\* ... and one that is comes last.
LEMMA DeliverOne ==
    ASSUME NEW d, NEW e, NEW s, NEW p \in Nat, NEW n \in Nat,
           InOrder(d, s, p), s[p + 1].valid,
           DOMAIN d = 1..n, DOMAIN e = 1..n + 1, e[n + 1] = p + 1,
           \A k \in 1..n : e[k] = d[k]
    PROVE  InOrder(e, s, p + 1)
<1>1. \A m : m \in 1..p + 1 <=> m \in 1..p \/ m = p + 1
    OBVIOUS
<1>2. \A k : k \in 1..n + 1 <=> k \in 1..n \/ k = n + 1
    OBVIOUS
<1>3. /\ {d[k] : k \in 1..n} = {m \in 1..p : s[m].valid}
      /\ \A j, k \in 1..n : j < k => d[j] < d[k]
    BY DEF InOrder
<1>4. \A k \in 1..n : d[k] \in 1..p /\ s[d[k]].valid
    BY <1>3
<1>5. ASSUME NEW k \in 1..n + 1 PROVE e[k] \in 1..p + 1 /\ s[e[k]].valid
    BY <1>1, <1>2, <1>4
<1>6. ASSUME NEW m \in 1..p + 1, s[m].valid PROVE \E k \in 1..n + 1 : e[k] = m
    <2>1. CASE m = p + 1
        <3>1. n + 1 \in 1..n + 1
            OBVIOUS
        <3> QED  BY <2>1, <3>1
    <2>2. CASE m \in 1..p
        <3>1. m \in {d[k] : k \in 1..n}
            BY <1>3, <1>6, <2>2
        <3>2. PICK k \in 1..n : d[k] = m
            BY <3>1
        <3> QED  BY <1>2, <3>2
    <2> QED  BY <1>1, <2>1, <2>2
<1>7. {e[k] : k \in 1..n + 1} = {m \in 1..p + 1 : s[m].valid}
    BY <1>5, <1>6
<1>8. ASSUME NEW j \in 1..n + 1, NEW k \in 1..n + 1, j < k PROVE e[j] < e[k]
    <2>1. j \in 1..n
        BY <1>8
    <2>2. CASE k \in 1..n
        BY <1>3, <1>8, <2>1, <2>2
    <2>3. CASE k = n + 1
        <3>1. \A v \in 1..p : v < p + 1
            OBVIOUS
        <3>2. e[j] \in 1..p /\ e[k] = p + 1
            BY <1>4, <2>1, <2>3
        <3> QED  BY <3>1, <3>2, Zenon
    <2> QED  BY <1>2, <2>2, <2>3
<1> QED  BY <1>7, <1>8 DEF InOrder

\* The message at ReadIndex, when it lies inside m_Buffer, is the next one.
LEMMA NextInRing ==
    ASSUME ReceiveInv, ~spoiled, NEW n \in 1..GetReadSize, InBuffer(n), NEW f \in Nat,
           f = parsed + 1
    PROVE  /\ f \in 1..Len(sent)
           /\ \A i \in 0..n - 1 : i < Header + sent[f].len =>
                                    buffer[ReadIndex + i] = <<f, i>>
           /\ ReadIndex + 0 = ReadIndex
<1> USE RingAssumption
<1>1. /\ RingTypeOK /\ sent \in Seq(Message) /\ wire \in Seq(Nat \X Nat)
      /\ Follows(Rest, Len(Rest), Total, Len(sent), f)
    BY DEF ReceiveInv
<1>2. PICK r \in Cells : r = readPosition
    BY <1>1 DEF RingTypeOK
<1>3. PICK a \in Cells : a = ReadIndex /\ a = IF r = Size - 1 THEN 0 ELSE r + 1
    <2>1. ReadIndex = IF r = Size - 1 THEN 0 ELSE r + 1
        BY <1>2, ModNext DEF ReadIndex
    <2>2. (IF r = Size - 1 THEN 0 ELSE r + 1) \in Cells
        BY DEF Cells
    <2> QED  BY <2>1, <2>2
<1>4. PICK u \in 0..Size - 1 : u = GetReadSize
    BY <1>1, UnreadIs
<1>5. a + n <= Size /\ n \in 1..u
    BY <1>3, <1>4 DEF InBuffer
<1>6. PICK q, l : q = Rest /\ l = Len(Rest)
    OBVIOUS
<1>7. l \in Nat /\ u <= l /\ \A i \in 1..u : q[i] = buffer[(r + i) % Size]
    <2>1. /\ l = u + Len(wire) /\ Len(wire) \in Nat
          /\ \A i \in 1..GetReadSize : Rest[i] = buffer[(readPosition + i) % Size]
        BY <1>1, <1>4, <1>6, RestIs
    <2> QED  BY <1>2, <1>4, <1>6, <2>1
<1>n. l \in Nat /\ l > 0
    BY <1>5, <1>7
<1>z. PICK z \in Nat : z = Len(sent)
    BY <1>1, TotalIs
<1>8. PICK L \in [1..z -> Nat] :
          /\ L = Total
          /\ \A m \in 1..z : sent[m].len \in Nat /\ L[m] = Header + sent[m].len
    BY <1>1, <1>z, TotalIs
<1>9. Follows(q, l, L, z, f)
    BY <1>1, <1>6, <1>8, <1>z
<1>10. f \in 1..z
    BY <1>n, <1>9, FirstMessage
<1>11. ASSUME NEW i \in 0..n - 1, i < Header + sent[f].len
       PROVE  buffer[ReadIndex + i] = <<f, i>>
    <2>1. /\ i + 1 \in 1..u /\ i + 1 \in 1..l /\ i + 1 \in 0..Size
          /\ (i + 1) - 1 = i /\ i \in Nat
        BY <1>5, <1>7
    <2>2. i + 1 <= L[f]
        <3>1. i < L[f] /\ L[f] \in Nat
            BY <1>8, <1>10, <1>11
        <3> QED  BY <2>1, <3>1
    <2>3. q[i + 1] = <<f, (i + 1) - 1>>
        <3>1. PICK k \in 1..l : k = i + 1
            BY <2>1
        <3>2. \A j \in 1..l : j <= L[f] => q[j] = <<f, j - 1>>
            BY <1>n, <1>9, FirstMessage
        <3> QED  BY <2>2, <3>1, <3>2
    <2>4. (r + (i + 1)) % Size = a + i
        <3>1. (r + (i + 1)) % Size = IF r + (i + 1) < Size THEN r + (i + 1)
                                     ELSE r + (i + 1) - Size
            BY <2>1, ModWrap
        <3>2. a + i < Size
            BY <1>5, <2>1 DEF Cells
        <3> QED  BY <1>3, <2>1, <3>1, <3>2 DEF Cells
    <2>5. q[i + 1] = buffer[a + i]
        BY <1>7, <2>1, <2>4
    <2> QED  BY <1>3, <2>1, <2>3, <2>5
<1>12. ReadIndex + 0 = ReadIndex
    BY <1>3 DEF Cells
<1> QED  BY <1>z, <1>10, <1>11, <1>12

\* Parsing cuts off and hands over the next message of the stream.
LEMMA ParseKeeps ==
    ASSUME ReceiveInv, ParseMessage
    PROVE  ReceiveInv'
<1> USE RingAssumption
<1>1. PICK size \in MessageSizes :
         /\ GetReadSize >= Header /\ Fits(size)
         /\ readPosition' = (readPosition + (Header + size)) % Size
         /\ Hand(size)
         /\ spoiled' = (spoiled \/ ~InBuffer(Header + size))
         /\ parsed' = parsed + 1
         /\ UNCHANGED <<writePosition, buffer, sent, wire, peer>>
    BY DEF ParseMessage, Move, peerVars
<1>o. spoiled \in BOOLEAN /\ spoiled' \in BOOLEAN
    BY <1>1 DEF ReceiveInv, InBuffer
<1>2. CASE spoiled \/ ~InBuffer(Header + size)
    BY <1>1, <1>2, <1>o DEF ReceiveInv
<1>3. CASE ~spoiled /\ InBuffer(Header + size)
    <2>1. /\ RingTypeOK /\ sent \in Seq(Message) /\ wire \in Seq(Nat \X Nat)
          /\ parsed \in 0..Len(sent) /\ delivered \in Seq(Nat)
          /\ Follows(Rest, Len(Rest), Total, Len(sent), parsed + 1)
          /\ peer # "reset" => ToTheEnd(Rest, Len(Rest), Total, Len(sent), parsed + 1)
          /\ DeliveredInOrder
        BY <1>3 DEF ReceiveInv
    <2>2. PICK z \in Nat : z = Len(sent)
        BY <2>1, TotalIs
    <2>3. PICK L \in [1..z -> Nat] :
             /\ L = Total
             /\ \A m \in 1..z : sent[m].len \in Nat /\ L[m] = Header + sent[m].len
        BY <2>1, <2>2, TotalIs
    <2>4. PICK f \in Nat : f = parsed + 1 /\ parsed \in Nat
        BY <2>1, <2>2
    <2>5. PICK u \in 0..Size - 1 : u = GetReadSize
        BY <2>1, UnreadIs
    <2>6. PICK a \in Cells : a = ReadIndex
        <3>1. readPosition + 1 \in Int
            BY <2>1 DEF RingTypeOK, Cells
        <3> QED  BY <3>1, ModCell DEF ReadIndex
    <2>h. Header \in Nat /\ Header > 0 /\ Header \in 1..u
        BY <1>1, <2>5, ReceiveAssumption
    <2>7. /\ f \in 1..z
          /\ InBuffer(Header) => \A i \in 0..Header - 1 : buffer[a + i] = <<f, i>>
        <3>1. CASE InBuffer(Header)
            <4>1. Header \in 1..GetReadSize
                BY <2>5, <2>h
            <4>2. /\ f \in 1..z
                  /\ \A i \in 0..Header - 1 :
                        i < Header + sent[f].len => buffer[a + i] = <<f, i>>
                BY <1>3, <2>2, <2>4, <2>6, <3>1, <4>1, NextInRing
            <4>3. \A i \in 0..Header - 1 : i < Header + sent[f].len
                <5>1. sent[f].len \in Nat
                    BY <2>3, <4>2
                <5> QED  BY <2>h, <5>1
            <4> QED  BY <4>2, <4>3
        <3>2. CASE ~InBuffer(Header)
            <4>1. 1 \in 1..Len(Rest) /\ Len(Rest) \in Nat
                BY <2>1, <2>5, <2>h, RestIs
            <4>2. PICK q, n : q = Rest /\ n = Len(Rest)
                OBVIOUS
            <4>3. Follows(q, n, L, z, f) /\ n \in Nat /\ n > 0
                BY <2>1, <2>2, <2>3, <2>4, <4>1, <4>2
            <4>4. f \in 1..z
                BY <4>3, FirstMessage
            <4> QED  BY <3>2, <4>4
        <3> QED  BY <3>1, <3>2
    <2>8. size \in Int /\ 0 <= size /\ size <= u - Header /\ InBuffer(Header)
        <3>1. 0 <= size /\ size <= u - Header
            BY <1>1, <2>5 DEF Fits
        <3>2. size \in Int
            <4>1. CASE InBuffer(Header)
                <5>1. 0 \in 0..Header - 1 /\ a + 0 = a
                    BY <2>h DEF Cells
                <5>2. buffer[a] = <<f, 0>>
                    BY <2>7, <4>1, <5>1
                <5>3. buffer[a][1] = f
                    BY <5>2
                <5>4. MessageSizes = {sent[f].len}
                    BY <2>6, <2>7, <4>1, <5>3 DEF MessageSizes
                <5> QED  BY <1>1, <2>3, <2>7, <5>4
            <4>2. CASE ~InBuffer(Header)
                <5>1. MessageSizes = AnyLength
                    BY <4>2 DEF MessageSizes
                <5> QED  BY <1>1, <5>1 DEF AnyLength
            <4> QED  BY <4>1, <4>2
        <3>3. a + (Header + size) <= Size
            BY <1>3, <2>6 DEF InBuffer
        <3>4. a + Header <= Size
            BY <2>h, <3>1, <3>2, <3>3 DEF Cells
        <3> QED  BY <2>6, <3>1, <3>2, <3>4 DEF InBuffer
    <2>9. buffer[a][1] = f
        <3>1. 0 \in 0..Header - 1 /\ a + 0 = a
            BY <2>h DEF Cells
        <3>2. buffer[a] = <<f, 0>>
            BY <2>7, <2>8, <3>1
        <3> QED  BY <3>2
    <2>10. size = sent[f].len
        <3>1. MessageSizes = {sent[f].len}
            BY <2>6, <2>7, <2>8, <2>9 DEF MessageSizes
        <3> QED  BY <1>1, <3>1
    <2>11. PICK h \in Nat : h = Header + size /\ h > 0 /\ h <= u /\ L[f] = h
        <3>1. Header + size \in Nat /\ Header + size > 0 /\ Header + size <= u
            BY <2>h, <2>8
        <3>2. L[f] = Header + size
            BY <2>3, <2>7, <2>10
        <3> QED  BY <3>1, <3>2
    <2>12. \A i \in 0..h - 1 : buffer[a + i] = <<f, i>>
        <3>1. h \in 1..GetReadSize /\ InBuffer(h)
            BY <1>3, <2>5, <2>11
        <3>2. \A i \in 0..h - 1 : i < Header + sent[f].len => buffer[a + i] = <<f, i>>
            BY <1>3, <2>4, <2>6, <3>1, NextInRing
        <3>3. \A i \in 0..h - 1 : i < h
            OBVIOUS
        <3> QED  BY <2>10, <2>11, <3>2, <3>3
    <2>13. delivered' = IF sent[f].valid THEN Append(delivered, f) ELSE delivered
        <3>1. /\ InBuffer(Header + size)
              /\ \A i \in 0..Header + size - 1 : buffer[ReadIndex + i] = <<f, i>>
            <4>0. h = Header + size
                BY <2>11
            <4>1. 0..Header + size - 1 = 0..h - 1
                BY <2>h, <2>8, <4>0
            <4> QED  BY <1>3, <2>6, <2>12, <4>1
        <3>2. buffer[ReadIndex][1] = f
            BY <2>6, <2>9
        <3> QED  BY <1>1, <3>1, <3>2 DEF Hand
    <2>14. DeliveredInOrder' /\ delivered' \in Seq(Nat)
        <3>1. PICK d, e, s, p : d = delivered /\ e = delivered' /\ s = sent /\ p = parsed
            OBVIOUS
        <3>2. InOrder(d, s, p)
            BY <2>1, <3>1 DEF DeliveredInOrder, InOrder
        <3>3. d \in Seq(Nat) /\ p \in Nat /\ p + 1 = f
            BY <2>1, <2>4, <3>1
        <3>4. e \in Seq(Nat) /\ InOrder(e, s, p + 1)
            <4>1. CASE ~sent[f].valid
                <5>1. e = d /\ ~s[p + 1].valid
                    BY <2>13, <3>1, <3>3, <4>1
                <5> QED  BY <3>2, <3>3, <5>1, PassOver
            <4>2. CASE sent[f].valid
                <5>1. e = Append(d, f) /\ s[p + 1].valid
                    BY <2>13, <3>1, <3>3, <4>2
                <5>2. PICK n : n = Len(d) /\ n \in Nat
                    BY <3>3
                <5>3. /\ e \in Seq(Nat) /\ DOMAIN d = 1..n /\ DOMAIN e = 1..n + 1
                      /\ e[n + 1] = p + 1 /\ \A k \in 1..n : e[k] = d[k]
                    BY <3>3, <5>1, <5>2
                <5> QED  BY <3>2, <3>3, <5>1, <5>2, <5>3, DeliverOne
            <4> QED  BY <4>1, <4>2
        <3> QED  BY <1>1, <3>1, <3>4 DEF DeliveredInOrder, InOrder
    <2>15. Unread' = SubSeq(Unread, h + 1, Len(Unread))
        <3>1. h \in 0..GetReadSize /\ readPosition' = (readPosition + h) % Size
            BY <1>1, <2>5, <2>11
        <3> QED  BY <1>1, <2>1, <3>1, ReadDrops
    <2>16. RingTypeOK'
        <3>1. readPosition + h \in Int
            BY <2>1 DEF RingTypeOK, Cells
        <3>2. readPosition' = (readPosition + h) % Size
            BY <1>1, <2>11
        <3> QED  BY <1>1, <2>1, <3>1, <3>2, ModCell DEF RingTypeOK
    <2>17. PICK q, p, m : /\ q = Rest /\ p = Rest' /\ m \in Nat
                          /\ Len(Rest) = h + m /\ Len(Rest') = m
                          /\ \A i \in 1..m : p[i] = q[h + i]
        <3>1. PICK S, v, k : /\ S = {buffer[c] : c \in Cells} \cup (Nat \X Nat)
                             /\ v = Unread /\ k = Len(wire)
            OBVIOUS
        <3>2. /\ v \in Seq(S) /\ wire \in Seq(S) /\ Len(v) = u /\ k \in Nat
              /\ Rest \in Seq(S) /\ Len(Rest) = u + k
              /\ \A i \in 1..u : Rest[i] = v[i]
              /\ \A i \in 1..k : Rest[u + i] = wire[i]
            BY <2>1, <2>5, <3>1, RestIs
        <3>3. PICK b : b = SubSeq(v, h + 1, u)
            OBVIOUS
        <3>4. b \in Seq(S) /\ Len(b) = u - h /\ \A i \in 1..u - h : b[i] = v[h + i]
            <4>1. h + 1 \in Nat /\ u \in Nat /\ \A i \in h + 1..u : v[i] \in S
                BY <2>11, <3>2
            <4>2. /\ b \in Seq(S) /\ Len(b) = IF h + 1 <= u THEN u - (h + 1) + 1 ELSE 0
                  /\ \A i \in 1..u - (h + 1) + 1 : b[i] = v[(h + 1) + i - 1]
                BY <3>3, <4>1, SubSeqProperties
            <4>3. /\ (IF h + 1 <= u THEN u - (h + 1) + 1 ELSE 0) = u - h
                  /\ \A i \in 1..u - h : i \in 1..u - (h + 1) + 1 /\ (h + 1) + i - 1 = h + i
                BY <2>11
            <4> QED  BY <4>2, <4>3
        <3>5. Rest' = b \o wire
            BY <1>1, <2>15, <3>1, <3>2, <3>3 DEF Rest
        <3>6. PICK m \in Nat : m = (u - h) + k
            <4>1. (u - h) + k \in Nat
                BY <2>11, <3>2
            <4> QED  BY <4>1
        <3>7. /\ Len(b \o wire) = m
              /\ \A i \in 1..u - h : (b \o wire)[i] = b[i]
              /\ \A i \in 1..k : (b \o wire)[(u - h) + i] = wire[i]
            <4>1. /\ Len(b \o wire) = Len(b) + Len(wire)
                  /\ \A i \in 1..Len(b) : (b \o wire)[i] = b[i]
                  /\ \A i \in 1..Len(wire) : (b \o wire)[Len(b) + i] = wire[i]
                <5>1. b \in Seq(S) /\ wire \in Seq(S)
                    BY <3>2, <3>4
                <5> QED  BY <5>1
            <4> QED  BY <3>1, <3>4, <3>6, <4>1
        <3>8. u + k = h + m
            BY <2>11, <3>2, <3>6
        <3>9. ASSUME NEW i \in 1..m PROVE (b \o wire)[i] = Rest[h + i]
            <4>1. CASE i <= u - h
                <5>1. i \in 1..u - h /\ h + i \in 1..u
                    BY <2>11, <4>1
                <5> QED  BY <3>2, <3>4, <3>7, <5>1
            <4>2. CASE i > u - h
                <5>1. PICK j \in 1..k : i = (u - h) + j /\ h + i = u + j
                    <6>0. m = (u - h) + k /\ k \in Nat
                        BY <3>2, <3>6
                    <6>1. i - (u - h) \in 1..k
                        BY <4>2, <6>0
                    <6>2. i = (u - h) + (i - (u - h)) /\ h + i = u + (i - (u - h))
                        BY <2>11
                    <6> QED  BY <6>1, <6>2
                <5>2. (b \o wire)[(u - h) + j] = wire[j]
                    BY <3>7
                <5>3. Rest[u + j] = wire[j]
                    BY <3>2
                <5> QED  BY <5>1, <5>2, <5>3
            <4>3. i <= u - h \/ i > u - h
                OBVIOUS
            <4> QED  BY <4>1, <4>2, <4>3
        <3>10. /\ Len(Rest) = h + m /\ Len(Rest') = m
               /\ \A i \in 1..m : Rest'[i] = Rest[h + i]
            BY <3>2, <3>5, <3>7, <3>8, <3>9
        <3> QED  BY <3>10
    <2>18. Follows(q, h + m, L, z, f) /\ (peer # "reset" => ToTheEnd(q, h + m, L, z, f))
        BY <2>1, <2>2, <2>3, <2>4, <2>17
    <2>19. Follows(p, m, L, z, f + 1) /\ (peer # "reset" => ToTheEnd(p, m, L, z, f + 1))
        <3>1. h > 0 /\ L[f] = h /\ m \in Nat /\ \A i \in 1..m : p[i] = q[h + i]
            BY <2>11, <2>17
        <3>2. /\ Follows(p, m, L, z, f + 1)
              /\ ToTheEnd(q, h + m, L, z, f) => ToTheEnd(p, m, L, z, f + 1)
            <4>1. PICK n : n = h + m /\ n \in Nat /\ n > 0
                BY <2>11, <2>17
            <4>2. Follows(q, n, L, z, f)
                BY <2>18, <4>1
            <4>3. \A i \in 1..n : i <= L[f] => q[i] = <<f, i - 1>>
                <5>1. n > 0
                    BY <4>1
                <5> QED  BY <4>2, <5>1, FirstMessage
            <4>4. h \in 1..n /\ h <= L[f]
                BY <3>1, <4>1
            <4>5. q[h] = <<f, h - 1>>
                BY <4>3, <4>4
            <4>6. q[h][1] = f /\ q[h][2] + 1 = L[q[h][1]]
                BY <3>1, <4>5
            <4>7. m > 0 => q[h + 1] = <<f + 1, 0>>
                <5>1. m > 0 => h \in 1..n - 1
                    BY <3>1, <4>1
                <5> QED  BY <4>2, <4>6, <5>1 DEF Follows
            <4>8. Follows(q, h + m, L, z, f)
                BY <2>18
            <4>9. CutAt(q, p, h, m, f)
                BY <3>1, <4>6, <4>7 DEF CutAt
            <4> QED  BY <4>8, <4>9, FollowsDrop
        <3> QED  BY <2>18, <3>2
    <2>20. Total' = Total /\ sent' = sent /\ peer' = peer /\ wire' = wire /\ parsed' = f
        BY <1>1, <2>4 DEF Total
    <2>21. /\ Follows(Rest', Len(Rest'), Total', Len(sent'), parsed' + 1)
           /\ peer' # "reset" =>
                 ToTheEnd(Rest', Len(Rest'), Total', Len(sent'), parsed' + 1)
        BY <2>2, <2>3, <2>17, <2>19, <2>20
    <2>22. parsed' \in 0..Len(sent')
        BY <2>2, <2>7, <2>20
    <2> QED  BY <1>o, <2>1, <2>14, <2>16, <2>20, <2>21, <2>22 DEF ReceiveInv
<1> QED  BY <1>2, <1>3, <1>o

\* Every step keeps the invariant.
LEMMA ReceiveStep == ReceiveInv /\ [Next]_vars => ReceiveInv'
<1> SUFFICES ASSUME ReceiveInv, [Next]_vars
             PROVE  ReceiveInv'
    OBVIOUS
<1>o. spoiled \in BOOLEAN
    BY DEF ReceiveInv
<1>1. ASSUME NEW len \in Lengths, NEW valid \in Verdicts, PeerSend(len, valid)
      PROVE  ReceiveInv'
    BY <1>1, SendKeeps
<1>2. ASSUME NEW how \in {"closed", "reset"}, PeerLeave(how)
      PROVE  ReceiveInv'
    BY <1>2, LeaveKeeps
<1>3. CASE RemoveSession \/ Start \/ CompleteFailed \/ StrayFailed \/ UNCHANGED vars
    <2>1. UNCHANGED <<readPosition, writePosition, buffer, sent, wire, peer, parsed,
                      delivered, spoiled>>
        BY <1>3 DEF RemoveSession, Start, CompleteFailed, StrayFailed, vars, ringVars,
                    peerVars
    <2> QED  BY <1>o, <2>1, QuietStep
<1>4. ASSUME NEW n \in 1..Size, CompleteData(n)
      PROVE  ReceiveInv'
    BY <1>4, DataKeeps
<1>5. CASE ParseMessage
    BY <1>5, ParseKeeps
<1>6. CASE ParseDone
    <2>1. UNCHANGED <<readPosition, writePosition, buffer, sent, wire, peer, parsed,
                      delivered>>
        BY <1>6 DEF ParseDone, ringVars, peerVars
    <2>2. spoiled' = spoiled \/ spoiled' = (spoiled \/ ~InBuffer(Header))
        BY <1>6 DEF ParseDone
    <2>3. spoiled' \in BOOLEAN /\ (spoiled => spoiled')
        BY <1>o, <2>2 DEF InBuffer
    <2> QED  BY <2>1, <2>3, QuietStep
<1>7. ASSUME NEW n \in 1..Size, CompleteStrayed(n)
      PROVE  ReceiveInv'
    BY <1>7 DEF CompleteStrayed, ReceiveInv
<1> QED  BY <1>1, <1>2, <1>3, <1>4, <1>5, <1>6, <1>7 DEF Next, TaskStep, OtherConnection

\* However the stream is cut into completions and wherever the ring wraps
\* between two messages, Complete reassembles the messages that were sent: for
\* every ring size, header size, set of payload lengths and number of messages.
THEOREM MessagesReassembled == Spec => []Reassembled
<1>1. Init => ReceiveInv
    <2> SUFFICES ASSUME Init PROVE ReceiveInv
        OBVIOUS
    <2>1. /\ readPosition = 0 /\ writePosition = 0 /\ sent = <<>> /\ wire = <<>>
          /\ parsed = 0 /\ delivered = <<>> /\ spoiled = FALSE
        BY DEF Init, RingInit
    <2>2. RingTypeOK
        BY <2>1, RingAssumption DEF RingTypeOK, Cells
    <2>3. Rest = <<>>
        <3>1. Unread = <<>>
            BY <2>1, EmptyUnread
        <3> QED  BY <2>1, <3>1 DEF Rest
    <2>4. Len(Rest) = 0 /\ Len(sent) = 0
        BY <2>1, <2>3
    <2>5. Follows(Rest, 0, Total, 0, parsed + 1) /\ ToTheEnd(Rest, 0, Total, 0, parsed + 1)
        <3>1. Total \in [1..0 -> Nat] /\ parsed + 1 = 1
            BY <2>1, <2>4, TotalIs
        <3> QED  BY <2>1, <3>1 DEF Follows, ToTheEnd
    <2>6. DeliveredInOrder
        BY <2>1 DEF DeliveredInOrder
    <2>7. sent \in Seq(Message) /\ wire \in Seq(Nat \X Nat) /\ delivered \in Seq(Nat)
          /\ parsed \in 0..Len(sent)
        BY <2>1, <2>4
    <2> QED  BY <2>1, <2>2, <2>4, <2>5, <2>6, <2>7 DEF ReceiveInv
<1> QED  BY <1>1, ReceiveStep, InvReassembled, PTL DEF Spec



=============================================================================
