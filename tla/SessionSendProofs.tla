------------------------- MODULE SessionSendProofs --------------------------
(***************************************************************************)
(* Proofs about SessionSend, for any set of senders and any number of      *)
(* calls of Send.                                                          *)
(***************************************************************************)
EXTENDS SessionSend, FiniteSetTheorems, TLAPS

(***************************************************************************)
(* The inductive invariant behind TypeOK, OneSender, WireInOrder and       *)
(* PacketsOwned.                                                           *)
(***************************************************************************)

\* A Send that is about to post is the only one for its packet.
PostingOwn ==
    /\ \A s \in Senders : posting[s] # 0 =>
          posting[s] <= enqueued /\ task[posting[s]] = "none"
    /\ \A r, s \in Senders : posting[r] = posting[s] /\ posting[r] # 0 => r = s
    /\ \A t \in Packets : task[t] # "none" => t <= enqueued

\* Only so many senders are inside EnQ that their number can be subtracted.
CountKnown == IsFiniteSet(counting)

\* Every element of r comes before every element of s.
Before(r, s) == \A i \in 1..Len(r), j \in 1..Len(s) : r[i] < s[j]

\* The stream, the packets of the task in charge and the queue follow each
\* other in the order of EnQ.
Ordered ==
    /\ Increasing(sendQueue)
    /\ \A i \in 1..Len(sendQueue) : sendQueue[i] <= enqueued
    /\ Before(wire, sendQueue)
    /\ \A i \in 1..Len(wire) : wire[i] <= enqueued
    /\ \A t \in Packets :
          /\ Increasing(sending[t])
          /\ Before(sending[t], sendQueue)
          /\ \A i \in 1..Len(sending[t]) : sending[t][i] <= enqueued
          /\ task[t] \in {"draining", "calling"} => Before(wire, sending[t])

IInv ==
    /\ TypeOK
    /\ OneSender
    /\ PostingOwn
    /\ CountKnown
    /\ Ordered
    /\ WireInOrder
    /\ PacketsOwned

-----------------------------------------------------------------------------
\* The initial state satisfies the invariant.
LEMMA InitInv == Init => IInv
<1> SUFFICES ASSUME Init PROVE IInv
    OBVIOUS
<1> USE SendAssumption DEF Init, Packets
<1>1. TypeOK
    <2>1. sendQueue \in Seq(Packets) /\ wire \in Seq(Packets)
        OBVIOUS
    <2>2. enqueued \in 0..MaxSends /\ freed \subseteq Packets
        OBVIOUS
    <2>8. isSending \in BOOLEAN
        OBVIOUS
    <2>3. posting \in [Senders -> 0..MaxSends] /\ counting \subseteq Senders
        OBVIOUS
    <2>4. task \in [Packets -> TaskStates]
        BY DEF TaskStates
    <2>5. \A t \in Packets : sending[t] = <<>>
        OBVIOUS
    <2>6. <<>> \in Seq(Packets)
        OBVIOUS
    <2>7. sending \in [Packets -> Seq(Packets)]
        BY <2>6
    <2> QED  BY <2>1, <2>2, <2>3, <2>4, <2>5, <2>7, <2>8 DEF TypeOK
<1>2. OneSender
    BY DEF OneSender, Holding
<1>3. PostingOwn
    BY DEF PostingOwn
<1>4. Ordered /\ WireInOrder
    BY DEF Ordered, WireInOrder, Increasing, Before
<1>5. PacketsOwned
    BY DEF PacketsOwned, Elements
<1>6. CountKnown
    BY FS_EmptySet DEF CountKnown
<1> QED  BY <1>1, <1>2, <1>3, <1>4, <1>5, <1>6 DEF IInv

\* Appending adds one element.
LEMMA ElementsAppend ==
    ASSUME NEW S, NEW s \in Seq(S), NEW x \in S
    PROVE  Elements(Append(s, x)) = Elements(s) \union {x}
<1>1. /\ Len(Append(s, x)) = Len(s) + 1
      /\ Append(s, x)[Len(s) + 1] = x
      /\ \A i \in 1..Len(s) : Append(s, x)[i] = s[i]
      /\ Len(s) \in Nat
    OBVIOUS
<1>2. ASSUME NEW i \in 1..Len(s) + 1
      PROVE  i \in 1..Len(s) \/ i = Len(s) + 1
    BY <1>1
<1>3. Len(s) + 1 \in 1..Len(s) + 1 /\ \A i \in 1..Len(s) : i \in 1..Len(s) + 1
    BY <1>1
<1> QED  BY <1>1, <1>2, <1>3 DEF Elements

\* A non-empty sequence consists of its head and the elements of its tail.
LEMMA ElementsTail ==
    ASSUME NEW S, NEW s \in Seq(S), s # <<>>
    PROVE  Elements(s) = Elements(Tail(s)) \union {Head(s)}
<1>1. /\ Len(s) \in Nat /\ Len(s) > 0
      /\ Len(Tail(s)) = Len(s) - 1
      /\ Head(s) = s[1]
      /\ \A i \in 1..Len(s) - 1 : Tail(s)[i] = s[i + 1]
    OBVIOUS
<1>2. ASSUME NEW i \in 1..Len(s)
      PROVE  s[i] \in Elements(Tail(s)) \union {Head(s)}
    <2>1. CASE i = 1
        BY <2>1, <1>1
    <2>2. CASE i # 1
        <3>1. i - 1 \in 1..Len(Tail(s)) /\ Tail(s)[i - 1] = s[i]
            BY <2>2, <1>1
        <3> QED  BY <3>1 DEF Elements
    <2> QED  BY <2>1, <2>2
<1>3. ASSUME NEW i \in 1..Len(Tail(s))
      PROVE  Tail(s)[i] \in Elements(s)
    <2>1. i + 1 \in 1..Len(s) /\ Tail(s)[i] = s[i + 1]
        BY <1>1
    <2> QED  BY <2>1 DEF Elements
<1>4. Head(s) \in Elements(s)
    <2>1. 1 \in 1..Len(s)
        BY <1>1
    <2> QED  BY <2>1, <1>1 DEF Elements
<1> QED  BY <1>2, <1>3, <1>4 DEF Elements

\* The enqueueing half of Send preserves the invariant.
LEMMA EnQInv ==
    ASSUME IInv, NEW s \in Senders, EnQ(s)
    PROVE  IInv'
<1> USE SendAssumption DEF IInv
<1>n. enqueued \in Nat /\ MaxSends \in Nat /\ enqueued + 1 \in Packets
    BY DEF EnQ, TypeOK, Packets
<1>a. /\ UNCHANGED <<isSending, task, sending, freed, wire>>
      /\ enqueued' = enqueued + 1
      /\ sendQueue' = Append(sendQueue, enqueued + 1)
      /\ posting[s] = 0 /\ posting' = [posting EXCEPT ![s] = enqueued + 1]
      /\ counting' = counting \union {s}
    BY DEF EnQ
<1>t. sendQueue \in Seq(Packets) /\ sendQueue' \in Seq(Packets)
      /\ wire \in Seq(Packets) /\ sending \in [Packets -> Seq(Packets)]
    BY <1>a, <1>n DEF TypeOK
<1>b. /\ Len(sendQueue) \in Nat /\ Len(sendQueue') = Len(sendQueue) + 1
      /\ sendQueue'[Len(sendQueue) + 1] = enqueued + 1
      /\ \A i \in 1..Len(sendQueue) : sendQueue'[i] = sendQueue[i]
    BY <1>a, <1>t, <1>n
<1>c. \A i \in 1..Len(sendQueue') : i \in 1..Len(sendQueue) \/ i = Len(sendQueue) + 1
    BY <1>b
<1>1. TypeOK'
    BY <1>a, <1>n, <1>t DEF TypeOK, Packets, EnQ
<1>2. OneSender' /\ WireInOrder'
    BY <1>a DEF OneSender, WireInOrder
<1>3. PostingOwn'
    <2>1. posting'[s] = enqueued + 1 /\ \A r \in Senders : r # s => posting'[r] = posting[r]
        BY <1>a DEF TypeOK
    <2>2. \A r \in Senders : posting[r] # 0 => posting[r] <= enqueued
        BY DEF PostingOwn
    <2>3. task[enqueued + 1] = "none"
        BY <1>n DEF PostingOwn
    <2>4. posting \in [Senders -> 0..MaxSends]
        BY DEF TypeOK
    <2>5. \A t \in Packets : task[t] # "none" => t <= enqueued + 1
        BY <1>n DEF PostingOwn, Packets
    <2>6. ASSUME NEW r \in Senders, posting'[r] # 0
          PROVE  posting'[r] <= enqueued + 1 /\ task[posting'[r]] = "none"
        BY <2>1, <2>2, <2>3, <2>4, <2>6, <1>n DEF PostingOwn
    <2>7. ASSUME NEW r \in Senders, NEW q \in Senders,
                 posting'[r] = posting'[q], posting'[r] # 0
          PROVE  r = q
        BY <2>1, <2>2, <2>4, <2>7, <1>n DEF PostingOwn
    <2> QED  BY <2>5, <2>6, <2>7, <1>a DEF PostingOwn
<1>4. Ordered'
    <2>1. /\ \A i \in 1..Len(sendQueue) : sendQueue[i] < enqueued + 1
          /\ \A i \in 1..Len(wire) : wire[i] < enqueued + 1
          /\ \A t \in Packets : \A i \in 1..Len(sending[t]) : sending[t][i] < enqueued + 1
        <3>a. Packets \subseteq Nat
            BY DEF Packets
        <3>1. \A i \in 1..Len(sendQueue) : sendQueue[i] \in Nat /\ sendQueue[i] <= enqueued
            <4>1. \A i \in 1..Len(sendQueue) : sendQueue[i] <= enqueued
                BY DEF Ordered
            <4> HIDE DEF IInv
            <4>2. \A i \in 1..Len(sendQueue) : sendQueue[i] \in Packets
                BY <1>t
            <4> QED  BY <4>1, <4>2, <3>a
        <3>2. \A i \in 1..Len(wire) : wire[i] \in Nat /\ wire[i] <= enqueued
            <4>1. \A i \in 1..Len(wire) : wire[i] <= enqueued
                BY DEF Ordered
            <4> HIDE DEF IInv
            <4>2. \A i \in 1..Len(wire) : wire[i] \in Packets
                BY <1>t
            <4> QED  BY <4>1, <4>2, <3>a
        <3>3. \A t \in Packets : \A i \in 1..Len(sending[t]) :
                sending[t][i] \in Nat /\ sending[t][i] <= enqueued
            BY <1>t DEF Ordered, Packets
        <3> QED  BY <3>1, <3>2, <3>3, <1>n
    <2>2. Increasing(sendQueue')
        BY <2>1, <1>b, <1>c DEF Ordered, Increasing
    <2>3. \A i \in 1..Len(sendQueue') : sendQueue'[i] <= enqueued + 1
        <3>1. sendQueue \in Seq(Nat)
            BY <1>t DEF Packets
        <3>2. \A i \in 1..Len(sendQueue) : sendQueue[i] <= enqueued + 1
            BY <2>1, <3>1, <1>n
        <3> QED  BY <3>2, <1>b, <1>c, <1>n
    <2>4. Before(wire, sendQueue') /\ \A t \in Packets : Before(sending[t], sendQueue')
        BY <2>1, <1>b, <1>c DEF Ordered, Before
    <2>5. /\ \A i \in 1..Len(wire) : wire[i] <= enqueued + 1
          /\ \A t \in Packets : \A i \in 1..Len(sending[t]) : sending[t][i] <= enqueued + 1
        <3>1. wire \in Seq(Nat) /\ sending \in [Packets -> Seq(Nat)]
            BY <1>t DEF Packets
        <3> QED  BY <2>1, <3>1, <1>n
    <2> QED  BY <2>2, <2>3, <2>4, <2>5, <1>a DEF Ordered
<1>5. PacketsOwned'
    <2>1. Elements(sendQueue') = Elements(sendQueue) \union {enqueued + 1}
        BY <1>a, <1>t, <1>n, ElementsAppend
    <2>2. 1..enqueued + 1 = 1..enqueued \union {enqueued + 1}
        BY <1>n
    <2>3. enqueued + 1 \notin 1..enqueued
        BY <1>n
    <2>4. \A t \in Packets : Elements(sending[t]) \subseteq 1..enqueued
        BY DEF PacketsOwned
    <2>5. freed \subseteq 1..enqueued
        BY DEF PacketsOwned
    <2>6. 1..enqueued = Elements(sendQueue) \union freed
                          \union UNION {Elements(sending[t]) : t \in Packets}
        BY DEF PacketsOwned
    <2>7. 1..enqueued' = Elements(sendQueue') \union freed
                           \union UNION {Elements(sending[t]) : t \in Packets}
        BY <2>1, <2>2, <2>6, <1>a
    <2>8. /\ Elements(sendQueue) \intersect freed = {}
          /\ \A t \in Packets : Elements(sending[t])
                               \intersect (Elements(sendQueue) \union freed) = {}
          /\ \A t, u \in Packets : t # u =>
                Elements(sending[t]) \intersect Elements(sending[u]) = {}
        BY DEF PacketsOwned
    <2>9. Elements(sendQueue') \intersect freed = {}
        BY <2>1, <2>3, <2>5, <2>8
    <2>10. \A t \in Packets : Elements(sending[t])
                              \intersect (Elements(sendQueue') \union freed) = {}
        BY <2>1, <2>3, <2>4, <2>8
    <2>11. sending' = sending /\ freed' = freed
        BY <1>a
    <2> HIDE DEF IInv
    <2> QED  BY <2>7, <2>8, <2>9, <2>10, <2>11 DEF PacketsOwned
<1>6. CountKnown'
    BY <1>a, FS_AddElement DEF CountKnown
<1> QED  BY <1>1, <1>2, <1>3, <1>4, <1>5, <1>6

\* The end of EnQ preserves the invariant.
LEMMA EnQReturnInv ==
    ASSUME IInv, NEW s \in Senders, EnQReturn(s)
    PROVE  IInv'
<1>1. /\ UNCHANGED <<sendQueue, isSending, enqueued, posting, task, sending, freed, wire>>
      /\ counting' = counting \ {s}
    BY DEF EnQReturn
<1>2. CountKnown'
    BY <1>1, FS_RemoveElement DEF IInv, CountKnown
<1>3. TypeOK'
    BY <1>1 DEF IInv, TypeOK
<1>4. OneSender' /\ PostingOwn' /\ WireInOrder'
    BY <1>1 DEF IInv, OneSender, PostingOwn, WireInOrder
<1>5. Ordered'
    BY <1>1 DEF IInv, Ordered
<1>6. PacketsOwned'
    BY <1>1 DEF IInv, PacketsOwned
<1> QED  BY <1>2, <1>3, <1>4, <1>5, <1>6 DEF IInv


\* The posting half of Send preserves the invariant.
LEMMA PostInv ==
    ASSUME IInv, NEW s \in Senders, Post(s)
    PROVE  IInv'
<1> USE SendAssumption DEF IInv
<1>p. PICK p \in Packets : p = posting[s] /\ task[p] = "none" /\ p <= enqueued
    BY DEF Post, PostingOwn, TypeOK, Packets
<1>a. /\ UNCHANGED <<sendQueue, isSending, enqueued, counting, sending, freed, wire>>
      /\ task' = [task EXCEPT ![p] = "posted"]
      /\ posting' = [posting EXCEPT ![s] = 0]
    BY <1>p DEF Post
<1>b. /\ task'[p] = "posted" /\ \A t \in Packets : t # p => task'[t] = task[t]
      /\ posting'[s] = 0 /\ \A r \in Senders : r # s => posting'[r] = posting[r]
    BY <1>a DEF TypeOK
<1>1. TypeOK'
    BY <1>a, <1>p, <1>b DEF TypeOK, TaskStates
<1>2. OneSender' /\ WireInOrder' /\ PacketsOwned'
    BY <1>a, <1>b, <1>p DEF OneSender, WireInOrder, PacketsOwned, Holding
<1>3. PostingOwn' /\ CountKnown'
    BY <1>a, <1>b, <1>p DEF PostingOwn, CountKnown
<1>4. Ordered'
    BY <1>a, <1>b, <1>p DEF Ordered
<1> QED  BY <1>1, <1>2, <1>3, <1>4

\* The steps of a task that touch only its state and m_isSending preserve the
\* invariant: at most one of them finds the flag free.
LEMMA FlagInv ==
    ASSUME IInv, NEW t \in Packets,
           Start(t) \/ DeQEmpty(t) \/ NothingToSend(t) \/ CompleteRelease(t)
    PROVE  IInv'
<1> USE SendAssumption DEF IInv
<1>a. UNCHANGED <<sendQueue, senderVars, sending, freed, wire>>
    BY DEF Start, DeQEmpty, NothingToSend, CompleteRelease
<1>b. /\ task[t] # "none" /\ task'[t] # "none"
      /\ \A u \in Packets : u # t => task'[u] = task[u]
    BY DEF Start, DeQEmpty, NothingToSend, CompleteRelease, TypeOK
<1>1. TypeOK'
    <2>1. task' \in [Packets -> TaskStates] /\ isSending' \in BOOLEAN
        BY DEF Start, DeQEmpty, NothingToSend, CompleteRelease, TypeOK, TaskStates
    <2>2. task'[t] \notin {"draining", "calling", "pending"} => sending[t] = <<>>
        BY DEF Start, DeQEmpty, NothingToSend, CompleteRelease, TypeOK
    <2> QED  BY <2>1, <2>2, <1>a, <1>b DEF TypeOK, senderVars
<1>2. OneSender'
    <2>1. CASE Start(t)
        BY <2>1 DEF Start, OneSender, Holding, TypeOK
    <2>2. CASE DeQEmpty(t)
        BY <2>2 DEF DeQEmpty, OneSender, Holding, TypeOK
    <2>3. CASE NothingToSend(t) \/ CompleteRelease(t)
        BY <2>3 DEF NothingToSend, CompleteRelease, OneSender, Holding, TypeOK
    <2> QED  BY <2>1, <2>2, <2>3
<1>3. PostingOwn'
    <2>1. posting' = posting /\ enqueued' = enqueued /\ posting \in [Senders -> 0..MaxSends]
        BY <1>a DEF senderVars, TypeOK
    <2>2. ASSUME NEW s \in Senders, posting[s] # 0
          PROVE  posting[s] <= enqueued /\ task'[posting[s]] = "none"
        <3>1. posting[s] \in Packets
            BY <2>1, <2>2 DEF Packets
        <3>2. posting[s] <= enqueued /\ task[posting[s]] = "none"
            BY <2>2 DEF PostingOwn
        <3> QED  BY <3>1, <3>2, <1>b
    <2>3. \A u \in Packets : task'[u] # "none" => u <= enqueued
        BY <1>b DEF PostingOwn
    <2>4. \A r, s \in Senders : posting[r] = posting[s] /\ posting[r] # 0 => r = s
        BY DEF PostingOwn
    <2> QED  BY <2>1, <2>2, <2>3, <2>4 DEF PostingOwn
<1>5. CountKnown'
    BY <1>a DEF CountKnown, senderVars
<1>4. Ordered' /\ WireInOrder' /\ PacketsOwned'
    <2>1. task'[t] \in {"draining", "calling"} => Before(wire, sending[t])
        <3>1. CASE Start(t)
            <4>1. sending[t] = <<>>
                BY <3>1 DEF Start, TypeOK
            <4> QED  BY <4>1 DEF Before
        <3>2. CASE DeQEmpty(t)
            BY <3>2 DEF DeQEmpty, Ordered
        <3>3. CASE NothingToSend(t) \/ CompleteRelease(t)
            BY <3>3 DEF NothingToSend, CompleteRelease, TypeOK
        <3> QED  BY <3>1, <3>2, <3>3
    <2> QED  BY <2>1, <1>a, <1>b DEF Ordered, WireInOrder, PacketsOwned, senderVars
<1> QED  BY <1>1, <1>2, <1>3, <1>4, <1>5

\* Taking a packet out of the queue preserves the invariant: it goes to the
\* end of the list of the only task that drains.
LEMMA DeQInv ==
    ASSUME IInv, NEW t \in Packets, DeQ(t)
    PROVE  IInv'
<1> USE SendAssumption DEF IInv
<1>t. /\ sendQueue \in Seq(Packets) /\ wire \in Seq(Packets)
      /\ sending \in [Packets -> Seq(Packets)] /\ sending[t] \in Seq(Packets)
    BY DEF TypeOK
<1>e. sendQueue # <<>>
    <2>1. Cardinality(counting) \in Nat /\ Len(sendQueue) - Cardinality(counting) > 0
        BY FS_CardinalityType DEF CountKnown, DeQ, Count
    <2>2. Len(<<>>) = 0
        OBVIOUS
    <2> HIDE DEF IInv
    <2> QED  BY <2>1, <2>2
<1>a. /\ UNCHANGED <<isSending, senderVars, task, freed, wire>>
      /\ sending' = [sending EXCEPT ![t] = Append(sending[t], Head(sendQueue))]
      /\ sendQueue' = Tail(sendQueue)
      /\ task[t] = "draining"
    BY DEF DeQ
<1>h. PICK h \in Packets : h = Head(sendQueue)
    BY <1>t, <1>e
<1>s. /\ sending'[t] = Append(sending[t], h)
      /\ \A u \in Packets : u # t => sending'[u] = sending[u]
    BY <1>a, <1>h, <1>t
<1>1. TypeOK'
    <2>1. sendQueue' \in Seq(Packets)
        BY <1>a, <1>t, <1>e
    <2>2. Append(sending[t], h) \in Seq(Packets)
        BY <1>t
    <2>3. sending' \in [Packets -> Seq(Packets)]
        BY <2>2, <1>a, <1>h, <1>t
    <2>4. \A u \in Packets :
            task'[u] \notin {"draining", "calling", "pending"} => sending'[u] = <<>>
        BY <1>a, <1>s DEF TypeOK
    <2> QED  BY <2>1, <2>3, <2>4, <1>a DEF TypeOK, senderVars
<1>2. OneSender' /\ WireInOrder' /\ PostingOwn'
    BY <1>a DEF OneSender, WireInOrder, PostingOwn, senderVars
<1>q. /\ Len(sendQueue) \in Nat /\ Len(sendQueue) > 0
      /\ Len(sendQueue') = Len(sendQueue) - 1
      /\ h = sendQueue[1]
      /\ \A i \in 1..Len(sendQueue) - 1 : sendQueue'[i] = sendQueue[i + 1]
    BY <1>a, <1>t, <1>e, <1>h
<1>p. PICK l \in Nat : l = Len(sending[t])
    BY <1>t
<1>r. /\ Len(sending'[t]) = l + 1
      /\ sending'[t][l + 1] = h
      /\ \A i \in 1..l : sending'[t][i] = sending[t][i]
    BY <1>s, <1>p, <1>t
<1>3. Ordered'
    <2>0. \A i \in 1..Len(sendQueue') : i + 1 \in 1..Len(sendQueue) /\ 1 < i + 1
        BY <1>q
    <2>i. \A i \in 1..l + 1 : i \in 1..l \/ i = l + 1
        OBVIOUS
    <2>x. 1 \in 1..Len(sendQueue)
        BY <1>q
    <2>1. Increasing(sendQueue')
        BY <2>0, <1>q DEF Ordered, Increasing
    <2>2. \A i \in 1..Len(sendQueue') : sendQueue'[i] <= enqueued /\ h < sendQueue'[i]
        BY <2>0, <2>x, <1>q DEF Ordered, Increasing
    <2>3. Before(wire, sendQueue') /\ \A i \in 1..Len(wire) : wire[i] < h
        BY <2>0, <2>x, <1>q DEF Ordered, Before
    <2>4. \A u \in Packets : Before(sending[u], sendQueue')
        BY <2>0, <1>q DEF Ordered, Before
    <2>5. \A i \in 1..l : sending[t][i] < h /\ sending[t][i] <= enqueued
        BY <2>x, <1>q, <1>p DEF Ordered, Before
    <2>6. h <= enqueued
        BY <2>x, <1>q DEF Ordered
    <2>7. Increasing(sending'[t])
        <3>1. \A i, j \in 1..l : i < j => sending[t][i] < sending[t][j]
            BY <1>p DEF Ordered, Increasing
        <3> QED  BY <3>1, <2>i, <2>5, <1>r DEF Increasing
    <2>8. Before(sending'[t], sendQueue')
        <3>1. \A i \in 1..l, j \in 1..Len(sendQueue') : sending[t][i] < sendQueue'[j]
            BY <2>4, <1>p DEF Before
        <3> QED  BY <3>1, <2>i, <2>2, <1>r DEF Before
    <2>9. \A i \in 1..Len(sending'[t]) : sending'[t][i] <= enqueued
        BY <2>i, <2>5, <2>6, <1>r
    <2>10. Before(wire, sending'[t])
        <3>1. \A i \in 1..Len(wire), j \in 1..l : wire[i] < sending[t][j]
            BY <1>a, <1>p DEF Ordered, Before
        <3> QED  BY <3>1, <2>i, <2>3, <1>r DEF Before
    <2>11. ASSUME NEW u \in Packets
           PROVE  /\ Increasing(sending'[u])
                  /\ Before(sending'[u], sendQueue')
                  /\ \A i \in 1..Len(sending'[u]) : sending'[u][i] <= enqueued
                  /\ task[u] \in {"draining", "calling"} => Before(wire, sending'[u])
        <3>1. CASE u = t
            BY <3>1, <2>7, <2>8, <2>9, <2>10
        <3>2. CASE u # t
            BY <3>2, <2>4, <1>s DEF Ordered
        <3> QED  BY <3>1, <3>2
    <2>12. \A i \in 1..Len(wire) : wire[i] <= enqueued
        BY DEF Ordered
    <2> QED  BY <2>1, <2>2, <2>3, <2>11, <2>12, <1>a DEF Ordered, senderVars
<1>4. PacketsOwned'
    <2>1. Elements(sendQueue) = Elements(sendQueue') \union {h}
        BY <1>a, <1>t, <1>e, <1>h, ElementsTail
    <2>2. Elements(sending'[t]) = Elements(sending[t]) \union {h}
        BY <1>s, <1>t, ElementsAppend
    <2>3. h \notin Elements(sendQueue')
        <3>1. ASSUME NEW i \in 1..Len(sendQueue')
              PROVE  sendQueue'[i] # h
            <4>1. i + 1 \in 1..Len(sendQueue) /\ 1 \in 1..Len(sendQueue) /\ 1 < i + 1
                BY <1>q
            <4>2. h < sendQueue'[i]
                BY <4>1, <1>q DEF Ordered, Increasing
            <4>3. h \in Nat
                BY DEF Packets
            <4> QED  BY <4>2, <4>3
        <3> QED  BY <3>1 DEF Elements
    <2>4. \A u \in Packets : u # t => Elements(sending'[u]) = Elements(sending[u])
        BY <1>s
    <2>5. /\ Elements(sendQueue) \intersect freed = {}
          /\ \A u \in Packets : Elements(sending[u])
                               \intersect (Elements(sendQueue) \union freed) = {}
          /\ \A u, v \in Packets : u # v =>
                Elements(sending[u]) \intersect Elements(sending[v]) = {}
        BY DEF PacketsOwned
    <2>6. 1..enqueued = Elements(sendQueue) \union freed
                          \union UNION {Elements(sending[u]) : u \in Packets}
        BY DEF PacketsOwned
    <2>7. ASSUME NEW x
          PROVE  x \in Elements(sendQueue) \union freed
                      \union UNION {Elements(sending[u]) : u \in Packets}
                 <=> x \in Elements(sendQueue') \union freed
                      \union UNION {Elements(sending'[u]) : u \in Packets}
        <3>1. x \in UNION {Elements(sending[u]) : u \in Packets}
                => x \in UNION {Elements(sending'[u]) : u \in Packets}
            BY <2>2, <2>4
        <3>2. h \in UNION {Elements(sending'[u]) : u \in Packets}
            BY <2>2
        <3>3. x \in UNION {Elements(sending'[u]) : u \in Packets}
                => x \in UNION {Elements(sending[u]) : u \in Packets} \/ x = h
            BY <2>2, <2>4
        <3> QED  BY <3>1, <3>2, <3>3, <2>1
    <2>8. 1..enqueued = Elements(sendQueue') \union freed
                          \union UNION {Elements(sending'[u]) : u \in Packets}
        BY <2>6, <2>7
    <2>9. Elements(sendQueue') \intersect freed = {}
        BY <2>1, <2>5
    <2>10. ASSUME NEW u \in Packets
           PROVE  Elements(sending'[u]) \intersect (Elements(sendQueue') \union freed) = {}
        <3>1. CASE u = t
            BY <3>1, <2>1, <2>2, <2>3, <2>5
        <3>2. CASE u # t
            BY <3>2, <2>1, <2>4, <2>5
        <3> QED  BY <3>1, <3>2
    <2>11. ASSUME NEW u \in Packets, NEW v \in Packets, u # v
           PROVE  Elements(sending'[u]) \intersect Elements(sending'[v]) = {}
        <3>1. CASE u = t
            BY <3>1, <2>1, <2>2, <2>4, <2>5, <2>11
        <3>2. CASE v = t
            BY <3>2, <2>1, <2>2, <2>4, <2>5, <2>11
        <3>3. CASE u # t /\ v # t
            BY <3>3, <2>4, <2>5, <2>11
        <3> QED  BY <3>1, <3>2, <3>3
    <2> QED  BY <2>8, <2>9, <2>10, <2>11, <1>a DEF PacketsOwned, senderVars
<1>5. CountKnown'
    BY <1>a DEF CountKnown, senderVars
<1> QED  BY <1>1, <1>2, <1>3, <1>4, <1>5

\* A WSASend that is accepted preserves the invariant: the packets follow the
\* ones sent before.
LEMMA PendingInv ==
    ASSUME IInv, NEW t \in Packets, WSASendPending(t)
    PROVE  IInv'
<1> USE SendAssumption DEF IInv
<1>t. /\ wire \in Seq(Packets) /\ sending \in [Packets -> Seq(Packets)]
      /\ sending[t] \in Seq(Packets) /\ task \in [Packets -> TaskStates]
    BY DEF TypeOK
<1>a. /\ UNCHANGED <<sendQueue, isSending, senderVars, sending, freed>>
      /\ wire' = wire \o sending[t]
      /\ task[t] = "calling" /\ task'[t] = "pending"
      /\ task' = [task EXCEPT ![t] = "pending"]
      /\ \A u \in Packets : u # t => task'[u] = task[u]
    BY <1>t DEF WSASendPending
<1>1. TypeOK'
    <2>1. wire' \in Seq(Packets)
        BY <1>a, <1>t
    <2>2. task' \in [Packets -> TaskStates]
        BY <1>a, <1>t DEF TaskStates
    <2> QED  BY <2>1, <2>2, <1>a DEF TypeOK, senderVars
<1>2. OneSender'
    BY <1>a DEF OneSender, Holding
<1>3. PostingOwn'
    <2>1. posting' = posting /\ enqueued' = enqueued /\ posting \in [Senders -> 0..MaxSends]
        BY <1>a DEF senderVars, TypeOK
    <2>2. ASSUME NEW s \in Senders, posting[s] # 0
          PROVE  posting[s] <= enqueued /\ task'[posting[s]] = "none"
        <3>1. posting[s] \in Packets
            BY <2>1, <2>2 DEF Packets
        <3>2. posting[s] <= enqueued /\ task[posting[s]] = "none"
            BY <2>2 DEF PostingOwn
        <3> QED  BY <3>1, <3>2, <1>a
    <2>3. \A u \in Packets : task'[u] # "none" => u <= enqueued
        BY <1>a DEF PostingOwn
    <2>4. \A r, s \in Senders : posting[r] = posting[s] /\ posting[r] # 0 => r = s
        BY DEF PostingOwn
    <2> QED  BY <2>1, <2>2, <2>3, <2>4 DEF PostingOwn
<1>m. PICK m \in Nat, n \in Nat : m = Len(wire) /\ n = Len(sending[t])
    BY <1>t
<1>w. /\ Len(wire') = m + n
      /\ \A i \in 1..m : wire'[i] = wire[i]
      /\ \A i \in m + 1..m + n : i - m \in 1..n /\ wire'[i] = sending[t][i - m]
    BY <1>a, <1>t, <1>m
<1>i. \A i \in 1..m + n : i \in 1..m \/ i \in m + 1..m + n
    BY <1>m
<1>4. WireInOrder'
    <2>1. \A i, j \in 1..m : i < j => wire[i] < wire[j]
        BY <1>m DEF WireInOrder, Increasing
    <2>2. \A i, j \in 1..n : i < j => sending[t][i] < sending[t][j]
        BY <1>m DEF Ordered, Increasing
    <2>3. \A i \in 1..m, j \in 1..n : wire[i] < sending[t][j]
        BY <1>a, <1>m DEF Ordered, Before
    <2>4. ASSUME NEW i \in 1..m + n, NEW j \in 1..m + n, i < j
          PROVE  wire'[i] < wire'[j]
        <3>1. CASE i \in 1..m /\ j \in 1..m
            BY <3>1, <2>1, <2>4, <1>w
        <3>2. CASE i \in 1..m /\ j \in m + 1..m + n
            BY <3>2, <2>3, <1>w
        <3>3. CASE i \in m + 1..m + n /\ j \in m + 1..m + n
            <4>1. i - m < j - m
                BY <2>4, <3>3, <1>m
            <4> QED  BY <4>1, <3>3, <2>2, <1>w
        <3>4. ~(i \in m + 1..m + n /\ j \in 1..m)
            BY <2>4, <1>m
        <3> QED  BY <3>1, <3>2, <3>3, <3>4, <1>i
    <2> QED  BY <2>4, <1>w DEF WireInOrder, Increasing
<1>5. Ordered'
    <2>1. Before(wire', sendQueue)
        <3>1. \A i \in 1..m, j \in 1..Len(sendQueue) : wire[i] < sendQueue[j]
            BY <1>m DEF Ordered, Before
        <3>2. \A i \in 1..n, j \in 1..Len(sendQueue) : sending[t][i] < sendQueue[j]
            BY <1>m DEF Ordered, Before
        <3> QED  BY <3>1, <3>2, <1>w, <1>i DEF Before
    <2>2. \A i \in 1..Len(wire') : wire'[i] <= enqueued
        <3>1. \A i \in 1..m : wire[i] <= enqueued
            BY <1>m DEF Ordered
        <3>2. \A i \in 1..n : sending[t][i] <= enqueued
            BY <1>m DEF Ordered
        <3> QED  BY <3>1, <3>2, <1>w, <1>i
    <2>3. \A u \in Packets : task'[u] \notin {"draining", "calling"}
        <3>1. \A u \in Packets : u # t => task[u] \notin Holding
            BY <1>a DEF OneSender, Holding
        <3> QED  BY <3>1, <1>a DEF Holding
    <2> QED  BY <2>1, <2>2, <2>3, <1>a DEF Ordered, senderVars
<1>6. PacketsOwned'
    BY <1>a DEF PacketsOwned, senderVars
<1>7. CountKnown'
    BY <1>a DEF CountKnown, senderVars
<1> QED  BY <1>1, <1>2, <1>3, <1>4, <1>5, <1>6, <1>7

\* Deleting the packets of a task, after a failed WSASend or on completion,
\* preserves the invariant.
LEMMA FreeInv ==
    ASSUME IInv, NEW t \in Packets, WSASendFailed(t) \/ CompleteFree(t)
    PROVE  IInv'
<1> USE SendAssumption DEF IInv
<1>t. /\ sending \in [Packets -> Seq(Packets)] /\ sending[t] \in Seq(Packets)
      /\ task \in [Packets -> TaskStates]
    BY DEF TypeOK
<1>a. /\ UNCHANGED <<sendQueue, senderVars, wire>>
      /\ freed' = freed \union Elements(sending[t])
      /\ sending' = [sending EXCEPT ![t] = <<>>]
    BY DEF WSASendFailed, CompleteFree
<1>b. /\ task[t] \in {"calling", "pending"} /\ task'[t] \in {"deleted", "freeing"}
      /\ task' \in [Packets -> TaskStates]
      /\ \A u \in Packets : u # t => task'[u] = task[u]
    BY <1>t DEF WSASendFailed, CompleteFree, TaskStates
<1>s. /\ sending'[t] = <<>>
      /\ \A u \in Packets : u # t => sending'[u] = sending[u]
    BY <1>a, <1>t
<1>e. Elements(<<>>) = {}
    BY DEF Elements
<1>1. TypeOK'
    <2>1. <<>> \in Seq(Packets)
        OBVIOUS
    <2>2. sending' \in [Packets -> Seq(Packets)]
        BY <2>1, <1>a, <1>t
    <2>3. freed' \subseteq Packets
        BY <1>a, <1>t DEF TypeOK, Elements
    <2>4. isSending' \in BOOLEAN
        BY DEF WSASendFailed, CompleteFree, TypeOK
    <2> QED  BY <2>2, <2>3, <2>4, <1>a, <1>b, <1>s DEF TypeOK, senderVars
<1>2. OneSender'
    <2>1. CASE WSASendFailed(t)
        BY <2>1 DEF WSASendFailed, OneSender, Holding, TypeOK
    <2>2. CASE CompleteFree(t)
        BY <2>2 DEF CompleteFree, OneSender, Holding, TypeOK
    <2> QED  BY <2>1, <2>2
<1>3. PostingOwn'
    <2>1. posting' = posting /\ enqueued' = enqueued /\ posting \in [Senders -> 0..MaxSends]
        BY <1>a DEF senderVars, TypeOK
    <2>2. ASSUME NEW s \in Senders, posting[s] # 0
          PROVE  posting[s] <= enqueued /\ task'[posting[s]] = "none"
        <3>1. posting[s] \in Packets
            BY <2>1, <2>2 DEF Packets
        <3>2. posting[s] <= enqueued /\ task[posting[s]] = "none"
            BY <2>2 DEF PostingOwn
        <3> QED  BY <3>1, <3>2, <1>b
    <2>3. \A u \in Packets : task'[u] # "none" => u <= enqueued
        BY <1>b DEF PostingOwn
    <2>4. \A r, s \in Senders : posting[r] = posting[s] /\ posting[r] # 0 => r = s
        BY DEF PostingOwn
    <2> QED  BY <2>1, <2>2, <2>3, <2>4 DEF PostingOwn
<1>4. Ordered' /\ WireInOrder'
    <2>1. ASSUME NEW u \in Packets
          PROVE  /\ Increasing(sending'[u])
                 /\ Before(sending'[u], sendQueue)
                 /\ \A i \in 1..Len(sending'[u]) : sending'[u][i] <= enqueued
                 /\ task'[u] \in {"draining", "calling"} => Before(wire, sending'[u])
        <3>1. CASE u = t
            BY <3>1, <1>s DEF Increasing, Before
        <3>2. CASE u # t
            BY <3>2, <1>s, <1>b DEF Ordered
        <3> QED  BY <3>1, <3>2
    <2> QED  BY <2>1, <1>a DEF Ordered, WireInOrder, senderVars
<1>5. PacketsOwned'
    <2>1. /\ Elements(sendQueue) \intersect freed = {}
          /\ \A u \in Packets : Elements(sending[u])
                               \intersect (Elements(sendQueue) \union freed) = {}
          /\ \A u, v \in Packets : u # v =>
                Elements(sending[u]) \intersect Elements(sending[v]) = {}
        BY DEF PacketsOwned
    <2>2. 1..enqueued = Elements(sendQueue) \union freed
                          \union UNION {Elements(sending[u]) : u \in Packets}
        BY DEF PacketsOwned
    <2>3. Elements(sending'[t]) = {}
        BY <1>s, <1>e
    <2>4. \A u \in Packets : u # t => Elements(sending'[u]) = Elements(sending[u])
        BY <1>s
    <2>5. UNION {Elements(sending[u]) : u \in Packets}
            = Elements(sending[t]) \union UNION {Elements(sending'[u]) : u \in Packets}
        BY <2>3, <2>4
    <2>6. 1..enqueued = Elements(sendQueue) \union freed'
                          \union UNION {Elements(sending'[u]) : u \in Packets}
        BY <2>2, <2>5, <1>a
    <2>7. Elements(sendQueue) \intersect freed' = {}
        BY <2>1, <1>a
    <2>8. ASSUME NEW u \in Packets
          PROVE  Elements(sending'[u]) \intersect (Elements(sendQueue) \union freed') = {}
        <3>1. CASE u = t
            BY <3>1, <2>3
        <3>2. CASE u # t
            BY <3>2, <2>1, <2>4, <1>a
        <3> QED  BY <3>1, <3>2
    <2>9. ASSUME NEW u \in Packets, NEW v \in Packets, u # v
          PROVE  Elements(sending'[u]) \intersect Elements(sending'[v]) = {}
        BY <2>1, <2>3, <2>4, <2>9
    <2> QED  BY <2>6, <2>7, <2>8, <2>9, <1>a DEF PacketsOwned, senderVars
<1>6. CountKnown'
    BY <1>a DEF CountKnown, senderVars
<1> QED  BY <1>1, <1>2, <1>3, <1>4, <1>5, <1>6

\* Every step preserves the invariant.
LEMMA NextInv == IInv /\ [Next]_vars => IInv'
<1> SUFFICES ASSUME IInv, [Next]_vars PROVE IInv'
    OBVIOUS
<1>1. ASSUME NEW s \in Senders, EnQ(s) \/ EnQReturn(s) \/ Post(s)
      PROVE  IInv'
    BY <1>1, EnQInv, EnQReturnInv, PostInv
<1>2. ASSUME NEW t \in Packets, TaskStep(t)
      PROVE  IInv'
    BY <1>2, FlagInv, DeQInv, PendingInv, FreeInv DEF TaskStep
<1>3. CASE UNCHANGED vars
    BY <1>3 DEF vars, senderVars, IInv, TypeOK, OneSender, PostingOwn, CountKnown,
                Ordered, WireInOrder, PacketsOwned
<1>4. CASE Quiet
    BY <1>3, <1>4 DEF Quiet
<1> QED  BY <1>1, <1>2, <1>3, <1>4 DEF Next

\* IInv is an invariant of the send path.
THEOREM Invariance == Spec => []IInv
<1>1. Init => IInv
    BY InitInv
<1>2. IInv /\ [Next]_vars => IInv'
    BY NextInv
<1> QED  BY <1>1, <1>2, PTL DEF Spec

\* The variables keep their types, and a discarded task has no packets left.
THEOREM TypeCorrect == Spec => []TypeOK
<1>1. IInv => TypeOK
    BY DEF IInv
<1> QED  BY <1>1, Invariance, PTL

\* m_isSending is a lock, for any number of tasks on any number of workers.
THEOREM SendLock == Spec => []OneSender
<1>1. IInv => OneSender
    BY DEF IInv
<1> QED  BY <1>1, Invariance, PTL

\* The packets reach the stream in the order of EnQ and none of them twice.
THEOREM StreamOrder == Spec => []WireInOrder
<1>1. IInv => WireInOrder
    BY DEF IInv
<1> QED  BY <1>1, Invariance, PTL

\* No packet is leaked, shared or deleted twice.
THEOREM Ownership == Spec => []PacketsOwned
<1>1. IInv => PacketsOwned
    BY DEF IInv
<1> QED  BY <1>1, Invariance, PTL
=============================================================================
