-------------------------- MODULE LockFreeQProofs ---------------------------
(***************************************************************************)
(* Proofs about LockFreeQ, for any number of threads, nodes and calls.     *)
(*                                                                         *)
(* IInv is the inductive invariant.  The IDs at the ends of nodes are what *)
(* makes EnQ safe: an ID that is not yet the rear's is in no copy of the   *)
(* rear, so an exchange of m_next can only succeed on the last node, and   *)
(* only while the rear is there; and once the rear has moved, no copy      *)
(* equals it.  Counts is what makes DeQ safe: there is an item for every   *)
(* reservation besides the items that are not counted yet, so the node     *)
(* that the rear points to is never taken.                                 *)
(***************************************************************************)
EXTENDS LockFreeQ, FiniteSetTheorems, TLAPS

NodeOrNull == Nodes \cup {Null}
Link == NodeOrNull \cup Nat
Item == [node : Nodes, data : Nat]

\* EnQ owns its node; with Filled the node has its ID.
Filled == {"enqPtr", "enqId", "enqLink", "enqHelp", "enqHelpNext", "enqHelpCas"}
Private == {"enqFill"} \cup Filled

\* EnQ linked its node and has not moved the rear.
Moving == {"enqLinked", "enqRear"}

\* EnQ linked its node and has not counted it.
Uncounted == {"enqLinked", "enqRear", "enqCount"}

\* EnQ has a copy of the rear in tempRear, DeQ one of the front in tempFront.
RearCopied == {"enqLink", "enqHelp", "enqHelpNext", "enqHelpCas"} \cup Moving
FrontCopied == {"deqNext", "deqData", "deqCas"}

States == {"idle", "crashed", "deqFail", "deqFree"}
             \cup Private \cup Uncounted \cup Reserved

\* The variables have the types their declarations give them.
TypeOK ==
    /\ front \in [ptr : Nodes, id : Nat] /\ rear \in [ptr : Nodes, id : Nat]
    /\ rearID \in Nat /\ count \in Int
    /\ next \in [Nodes -> Link] /\ data \in [Nodes -> Nat] /\ out \subseteq Nodes
    /\ pc \in [Threads -> States]
    /\ temp \in [Threads -> [ptr : NodeOrNull, id : Nat]]
    /\ change \in [Threads -> [ptr : NodeOrNull, id : Link]]
    /\ newNode \in [Threads -> NodeOrNull] /\ value \in [Threads -> Nat]
    /\ items \in Seq(Item) /\ taken \in [Threads -> Nat]
    /\ overlap \in BOOLEAN /\ calls \in Nat

\* The nodes of the queue: the front node, the ones behind it, and the last.
At(i) == IF i = 0 THEN front.ptr ELSE items[i].node
End == At(Len(items))

\* The node that t alone may change or free.
Holds(t) == pc[t] \in Private \cup {"deqFree"}
Mine(t) == IF pc[t] \in Private THEN newNode[t] ELSE temp[t].ptr

\* The nodes of the queue are linked in order, out, and end with an ID.
Linked ==
    /\ \A i \in 0..Len(items) : At(i) \in out
    /\ \A i \in 1..Len(items) : next[At(i - 1)] = At(i)
    /\ next[End] \in Nat
    /\ \A i \in 1..Len(items) : data[items[i].node] = items[i].data

\* No node is in two places.
Apart ==
    /\ \A i, j \in 0..Len(items) : At(i) = At(j) => i = j
    /\ \A t \in Threads : Holds(t) => Mine(t) \in out
    /\ \A t \in Threads : \A i \in 0..Len(items) : Holds(t) => Mine(t) # At(i)
    /\ \A t, u \in Threads : Holds(t) /\ Holds(u) /\ Mine(t) = Mine(u) => t = u

\* Only the last node and those that EnQ prepares end with an ID, no two with
\* the same; the rear has no ID of another node.
IDs ==
    /\ \A n \in Nodes : next[n] \in Nat =>
          /\ next[n] <= rearID
          /\ n = End \/ \E t \in Threads : pc[t] \in Filled \cup {"crashed"} /\ newNode[t] = n
    /\ \A n, m \in Nodes : next[n] \in Nat /\ next[n] = next[m] => n = m
    /\ rear.id <= rearID
    /\ \A n \in Nodes : next[n] \in Nat /\ n # rear.ptr => next[n] # rear.id

\* The rear is the last node, or the one before, and the EnQ that linked the
\* last node has yet to move the rear there.
RearKnown ==
    \/ rear.ptr = End /\ rear.id = next[End]
    \/ /\ Len(items) > 0 /\ rear.ptr = At(Len(items) - 1)
       /\ \E t \in Threads : pc[t] \in Moving /\ temp[t] = rear /\ newNode[t] = End

\* The node of an EnQ has its ID and its data before it is linked.
Ready(t) ==
    pc[t] \in Filled => next[newNode[t]] \in Nat /\ data[newNode[t]] = value[t]

\* What the copy of the rear in t is good for: if the rear is still the same,
\* the successor that t linked or read is the last node.
RearCopy(t) ==
    /\ pc[t] \in RearCopied =>
          /\ temp[t].ptr \in Nodes /\ temp[t].id <= rearID
          /\ \A n \in Nodes : next[n] \in Nat /\ n # rear.ptr => next[n] # temp[t].id
    /\ pc[t] = "enqId" => temp[t].ptr \in Nodes
    /\ pc[t] = "enqHelpNext" => change[t].ptr \in Nodes
    /\ pc[t] \in Moving => newNode[t] \in Nodes
    /\ temp[t] = rear =>
          /\ pc[t] \in Moving \cup {"enqHelpNext", "enqHelpCas"} => rear.ptr # End
          /\ pc[t] \in Moving => newNode[t] = End
          /\ pc[t] \in {"enqHelpNext", "enqHelpCas", "enqRear"} => change[t].ptr = End
          /\ pc[t] \in {"enqHelpCas", "enqRear"} => change[t].id = next[End]

\* What the copy of the front in t is good for: if the front is still the same,
\* the successor and the data that t read are those of the first item.
FrontCopy(t) ==
    /\ pc[t] \in {"deqId"} \cup FrontCopied => temp[t].ptr \in Nodes
    /\ pc[t] \in FrontCopied => temp[t].id <= front.id
    /\ pc[t] \in {"deqData", "deqCas"} =>
          change[t].ptr \in Nodes /\ change[t].id = temp[t].id + 1
    /\ temp[t] = front =>
          /\ pc[t] \in FrontCopied => Len(items) > 0
          /\ pc[t] \in {"deqData", "deqCas"} => change[t].ptr = At(1)
          /\ pc[t] = "deqCas" => value[t] = data[change[t].ptr]
    /\ pc[t] = "deqFree" => value[t] = taken[t]

\* The number of items explains m_count, and there is an item for every
\* reservation and one for every EnQ that has not counted.
Counts ==
    ~Crashed =>
       /\ count = Len(items) - In(Uncounted) - In(Reserved) - In({"deqFail"})
       /\ count + In({"deqFail"}) >= 0

\* Calls of DeQ that do not overlap have good copies of the front.
Lone ==
    ~overlap =>
       /\ \A t, u \in Threads : pc[t] \in InDeQ /\ pc[u] \in InDeQ => t = u
       /\ \A t \in Threads : /\ pc[t] = "deqId" => temp[t].ptr = front.ptr
                             /\ pc[t] \in FrontCopied => temp[t] = front

\* The inductive invariant.
IInv ==
    /\ TypeOK /\ Linked /\ Apart /\ IDs /\ RearKnown
    /\ (\A t \in Threads : Ready(t) /\ RearCopy(t) /\ FrontCopy(t)) /\ Counts /\ Lone

-----------------------------------------------------------------------------
USE QueueAssumption

(***************************************************************************)
(* Sequences, types and numbers of threads                                 *)
(***************************************************************************)

\* Adding an element to a sequence, and taking the first one off.
LEMMA AppendFacts ==
    ASSUME NEW S, NEW q \in Seq(S), NEW x \in S
    PROVE  /\ Append(q, x) \in Seq(S) /\ Len(Append(q, x)) = Len(q) + 1
           /\ \A i \in 1..Len(q) : Append(q, x)[i] = q[i]
           /\ Append(q, x)[Len(q) + 1] = x
OBVIOUS

LEMMA TailFacts ==
    ASSUME NEW S, NEW q \in Seq(S), Len(q) > 0
    PROVE  /\ Tail(q) \in Seq(S) /\ Len(Tail(q)) = Len(q) - 1
           /\ \A i \in 1..(Len(q) - 1) : Tail(q)[i] = q[i + 1]
           /\ Head(q) = q[1]
OBVIOUS

\* What TypeOK says of the things an action reads.
LEMMA QueueFacts ==
    ASSUME TypeOK
    PROVE  /\ Len(items) \in Nat
           /\ \A i \in 1..Len(items) : items[i].node \in Nodes /\ items[i].data \in Nat
           /\ \A i \in 0..Len(items) : At(i) \in Nodes
           /\ \A i \in 1..Len(items) : At(i) = items[i].node
           /\ At(0) = front.ptr /\ End \in Nodes
           /\ front.ptr \in Nodes /\ front.id \in Nat /\ rear.ptr \in Nodes /\ rear.id \in Nat
           /\ \A n \in Nodes : next[n] \in Link /\ data[n] \in Nat
<1>1. Len(items) \in Nat /\ \A i \in 1..Len(items) : items[i] \in Item
    BY DEF TypeOK
<1>2. \A i \in 1..Len(items) : items[i].node \in Nodes /\ items[i].data \in Nat
    BY <1>1 DEF Item
<1>3. front.ptr \in Nodes /\ front.id \in Nat /\ rear.ptr \in Nodes /\ rear.id \in Nat
    BY DEF TypeOK
<1>4. At(0) = front.ptr /\ \A i \in 1..Len(items) : At(i) = items[i].node
    BY <1>1 DEF At
<1>5. \A i \in 0..Len(items) : i = 0 \/ i \in 1..Len(items)
    BY <1>1
<1>6. \A i \in 0..Len(items) : At(i) \in Nodes
    BY <1>2, <1>3, <1>4, <1>5
<1>7. End \in Nodes
    BY <1>1, <1>6 DEF End
<1>8. \A n \in Nodes : next[n] \in Link /\ data[n] \in Nat
    BY DEF TypeOK
<1> QED  BY <1>1, <1>2, <1>3, <1>4, <1>6, <1>7, <1>8

LEMMA ThreadFacts ==
    ASSUME TypeOK, NEW t \in Threads
    PROVE  /\ temp[t] \in [ptr : NodeOrNull, id : Nat] /\ temp[t].ptr \in NodeOrNull
           /\ temp[t].id \in Nat
           /\ change[t] \in [ptr : NodeOrNull, id : Link] /\ change[t].ptr \in NodeOrNull
           /\ change[t].id \in Link
           /\ newNode[t] \in NodeOrNull /\ value[t] \in Nat /\ taken[t] \in Nat
           /\ pc[t] \in States
BY DEF TypeOK

\* A node, a null pointer and an ID are different.
LEMMA LinkKinds ==
    \A x \in Link : (x \in Nat <=> x \notin NodeOrNull)
BY DEF Link, NodeOrNull

\* The numbers of threads.
LEMMA InNat == ASSUME NEW S PROVE In(S) \in Nat
<1>1. {t \in Threads : pc[t] \in S} \subseteq Threads
    OBVIOUS
<1> QED  BY <1>1, FS_Subset, FS_CardinalityType DEF In

LEMMA InSome == ASSUME NEW S, NEW t \in Threads, pc[t] \in S PROVE In(S) > 0
<1> DEFINE T == {u \in Threads : pc[u] \in S}
<1>1. IsFiniteSet(T) /\ t \in T
    BY FS_Subset
<1> HIDE DEF T
<1>2. Cardinality(T) # 0 /\ Cardinality(T) \in Nat
    BY <1>1, FS_EmptySet, FS_CardinalityType
<1>3. Cardinality(T) > 0
    BY <1>2
<1> QED  BY <1>3 DEF In, T

\* A thread that enters a state of S is one more there ...
LEMMA MoveIn ==
    ASSUME pc \in [Threads -> States], NEW t \in Threads, NEW S, NEW s \in S,
           pc' = [pc EXCEPT ![t] = s], pc[t] \notin S
    PROVE  In(S)' = In(S) + 1
<1> DEFINE T == {u \in Threads : pc[u] \in S}
<1>1. IsFiniteSet(T) /\ t \notin T
    BY FS_Subset
<1>2. T' = T \cup {t}
    OBVIOUS
<1>3. Cardinality(T \cup {t}) = Cardinality(T) + 1
    <2> HIDE DEF T
    <2> QED  BY <1>1, FS_AddElement
<1> QED  BY <1>2, <1>3 DEF In

\* ... one that leaves S is one less ...
LEMMA MoveOut ==
    ASSUME pc \in [Threads -> States], NEW t \in Threads, NEW S, NEW s, s \notin S,
           pc' = [pc EXCEPT ![t] = s], pc[t] \in S
    PROVE  In(S)' = In(S) - 1
<1> DEFINE T == {u \in Threads : pc[u] \in S}
<1>1. IsFiniteSet(T) /\ t \in T
    BY FS_Subset
<1>2. T' = T \ {t}
    OBVIOUS
<1>3. Cardinality(T \ {t}) = Cardinality(T) - 1
    <2> HIDE DEF T
    <2> QED  BY <1>1, FS_RemoveElement
<1> QED  BY <1>2, <1>3 DEF In

\* ... and any other leaves the number alone.
LEMMA MoveWithin ==
    ASSUME pc \in [Threads -> States], NEW t \in Threads, NEW S, NEW s,
           pc' = [pc EXCEPT ![t] = s], s \in S <=> pc[t] \in S
    PROVE  In(S)' = In(S)
<1>1. {u \in Threads : pc[u] \in S}' = {u \in Threads : pc[u] \in S}
    OBVIOUS
<1> QED  BY <1>1 DEF In

\* A thread that moves between states that count alike, or crashes.
LEMMA SameCounts ==
    ASSUME IInv, ~Crashed, UNCHANGED <<count, items>>, NEW t \in Threads, NEW s \in States,
           pc' = [pc EXCEPT ![t] = s],
           s # "crashed" => /\ s \in Uncounted <=> pc[t] \in Uncounted
                            /\ s \in Reserved <=> pc[t] \in Reserved
                            /\ s = "deqFail" <=> pc[t] = "deqFail"
    PROVE  Counts'
<1>1. pc \in [Threads -> States]
    BY DEF IInv, TypeOK
<1>2. CASE s = "crashed"
    BY <1>1, <1>2 DEF Counts, Crashed
<1>3. CASE s # "crashed"
    <2>1. In(Uncounted)' = In(Uncounted) /\ In(Reserved)' = In(Reserved)
        BY <1>1, <1>3, MoveWithin
    <2>2. In({"deqFail"})' = In({"deqFail"})
        <3>1. s \in {"deqFail"} <=> pc[t] \in {"deqFail"}
            BY <1>3
        <3> QED  BY <1>1, <3>1, MoveWithin
    <2> QED  BY <2>1, <2>2 DEF IInv, Counts
<1> QED  BY <1>2, <1>3

\* There is an item for a DeQ with a reservation, and another one while an EnQ
\* has not counted.
LEMMA Enough ==
    ASSUME IInv, ~Crashed, NEW t \in Threads, pc[t] \in Reserved
    PROVE  /\ Len(items) \in Nat /\ Len(items) > 0
           /\ \A u \in Threads : pc[u] \in Uncounted => Len(items) > 1
<1>1. /\ In(Uncounted) \in Nat /\ In(Reserved) \in Nat /\ In({"deqFail"}) \in Nat
      /\ In(Reserved) > 0
    BY InNat, InSome
<1>2. \A u \in Threads : pc[u] \in Uncounted => In(Uncounted) > 0
    BY InSome
<1>3. Len(items) \in Nat /\ count \in Int
    BY QueueFacts DEF IInv, TypeOK
<1>4. /\ count = Len(items) - In(Uncounted) - In(Reserved) - In({"deqFail"})
      /\ count + In({"deqFail"}) >= 0
    BY DEF IInv, Counts
<1>5. Len(items) >= In(Uncounted) + In(Reserved)
    BY <1>1, <1>3, <1>4
<1> QED  BY <1>1, <1>2, <1>3, <1>5

-----------------------------------------------------------------------------
(***************************************************************************)
(* Steps that leave the queue itself alone                                 *)
(***************************************************************************)

\* The copies of a thread for which nothing changes.
LEMMA CopiesKept ==
    ASSUME NEW u \in Threads, Ready(u), RearCopy(u), FrontCopy(u),
           UNCHANGED <<front, rear, rearID, next, data, items>>,
           pc'[u] = pc[u], temp'[u] = temp[u], change'[u] = change[u],
           newNode'[u] = newNode[u], value'[u] = value[u], taken'[u] = taken[u]
    PROVE  Ready(u)' /\ RearCopy(u)' /\ FrontCopy(u)'
<1>1. End' = End /\ At(1)' = At(1)
    BY DEF End, At
<1>2. RearCopy(u)'
    BY <1>1 DEF RearCopy
<1>3. FrontCopy(u)'
    BY <1>1 DEF FrontCopy
<1>4. Ready(u)'
    BY DEF Ready
<1> QED  BY <1>2, <1>3, <1>4

\* A step of t that only changes its locals, m_count and overlap.
LEMMA LocalInv ==
    ASSUME IInv, ~Crashed, NEW t \in Threads, NEW s \in States,
           UNCHANGED <<front, rear, rearID, next, data, out, items>>,
           pc' = [pc EXCEPT ![t] = s],
           \A u \in Threads : u # t =>
              /\ temp'[u] = temp[u] /\ change'[u] = change[u] /\ newNode'[u] = newNode[u]
              /\ value'[u] = value[u] /\ taken'[u] = taken[u],
           TypeOK', Counts', Lone', RearCopy(t)', FrontCopy(t)',
           pc[t] \in Filled => s \in Filled \cup {"crashed"} /\ newNode'[t] = newNode[t],
           s \in Private => pc[t] \in Private /\ newNode'[t] = newNode[t],
           s \in Filled => pc[t] \in Filled /\ value'[t] = value[t],
           s # "deqFree",
           pc[t] \in Moving /\ temp[t] = rear =>
              s \in Moving /\ temp'[t] = temp[t] /\ newNode'[t] = newNode[t]
    PROVE  IInv'
<1>1. /\ pc \in [Threads -> States] /\ pc'[t] = s
      /\ \A u \in Threads : u # t => pc'[u] = pc[u]
    BY DEF IInv, TypeOK
<1>2. End' = End /\ \A i : At(i)' = At(i)
    BY DEF End, At
<1>3. Linked'
    BY <1>2 DEF IInv, Linked
<1>4. Apart'
    <2>1. \A u \in Threads : Holds(u)' => Holds(u) /\ Mine(u)' = Mine(u)
        BY <1>1 DEF Holds, Mine
    <2>2. \A i, j \in 0..Len(items) : At(i)' = At(j)' => i = j
        BY <1>2 DEF IInv, Apart
    <2>3. \A u \in Threads : Holds(u)' => Mine(u)' \in out
        BY <2>1 DEF IInv, Apart
    <2>4. \A u \in Threads : \A i \in 0..Len(items) : Holds(u)' => Mine(u)' # At(i)'
        BY <1>2, <2>1 DEF IInv, Apart
    <2>5. \A u, v \in Threads : Holds(u)' /\ Holds(v)' /\ Mine(u)' = Mine(v)' => u = v
        BY <2>1 DEF IInv, Apart
    <2> QED  BY <2>2, <2>3, <2>4, <2>5 DEF Apart
<1>5. IDs'
    <2>1. ASSUME NEW n \in Nodes, next[n] \in Nat
          PROVE  n = End' \/ \E u \in Threads : pc'[u] \in Filled \cup {"crashed"}
                                                /\ newNode'[u] = n
        <3>1. CASE n = End
            BY <1>2, <3>1
        <3>2. CASE \E u \in Threads : pc[u] \in Filled /\ newNode[u] = n
            BY <1>1, <3>2
        <3>3. n = End \/ \E u \in Threads : pc[u] \in Filled /\ newNode[u] = n
            BY <2>1 DEF IInv, IDs, Crashed
        <3> QED  BY <3>1, <3>2, <3>3
    <2> QED  BY <2>1 DEF IInv, IDs
<1>6. RearKnown'
    <2>1. CASE rear.ptr = End /\ rear.id = next[End]
        BY <1>2, <2>1 DEF RearKnown
    <2>2. CASE /\ Len(items) > 0 /\ rear.ptr = At(Len(items) - 1)
               /\ \E u \in Threads : pc[u] \in Moving /\ temp[u] = rear /\ newNode[u] = End
        <3>1. PICK u \in Threads : pc[u] \in Moving /\ temp[u] = rear /\ newNode[u] = End
            BY <2>2
        <3>2. pc'[u] \in Moving /\ temp'[u] = rear /\ newNode'[u] = End
            BY <1>1, <3>1
        <3>3. At(Len(items) - 1)' = At(Len(items) - 1)
            BY DEF At
        <3> QED  BY <1>2, <2>2, <3>2, <3>3 DEF RearKnown
    <2> QED  BY <2>1, <2>2 DEF IInv, RearKnown
<1>7. ASSUME NEW u \in Threads PROVE Ready(u)' /\ RearCopy(u)' /\ FrontCopy(u)'
    <2>1. CASE u = t
        <3>1. Ready(t)'
            BY <1>1 DEF IInv, Ready, Private
        <3> QED  BY <2>1, <3>1
    <2>2. CASE u # t
        BY <1>1, <2>2, CopiesKept DEF IInv
    <2> QED  BY <2>1, <2>2
<1> QED  BY <1>3, <1>4, <1>5, <1>6, <1>7 DEF IInv

\* Lone after a step of t that is not a call of DeQ.
LEMMA LoneOther ==
    ASSUME IInv, NEW t \in Threads, NEW s, pc' = [pc EXCEPT ![t] = s],
           pc[t] \notin InDeQ \/ s \notin InDeQ, s \notin InDeQ,
           UNCHANGED <<front, overlap>>,
           \A u \in Threads : u # t => temp'[u] = temp[u]
    PROVE  Lone'
<1>1. /\ pc \in [Threads -> States] /\ pc'[t] = s
      /\ \A u \in Threads : u # t => pc'[u] = pc[u]
    BY DEF IInv, TypeOK
<1>2. s # "deqId" /\ s \notin FrontCopied
    BY DEF InDeQ, Reserved, FrontCopied
<1> QED  BY <1>1, <1>2 DEF IInv, Lone

\* Lone after a step within DeQ.
LEMMA LoneWithin ==
    ASSUME IInv, NEW t \in Threads, NEW s, pc' = [pc EXCEPT ![t] = s], pc[t] \in InDeQ,
           UNCHANGED <<front, overlap>>,
           \A u \in Threads : u # t => temp'[u] = temp[u],
           s = "deqId" => temp'[t].ptr = front.ptr,
           s \in FrontCopied /\ ~overlap => temp'[t] = front
    PROVE  Lone'
<1>1. /\ pc \in [Threads -> States] /\ pc'[t] = s
      /\ \A u \in Threads : u # t => pc'[u] = pc[u]
    BY DEF IInv, TypeOK
<1>2. CASE ~overlap
    <2>1. \A u \in Threads : u # t => pc[u] \notin InDeQ
        BY <1>2 DEF IInv, Lone
    <2>2. \A u \in Threads : u # t => pc'[u] \notin InDeQ /\ pc'[u] # "deqId"
                                      /\ pc'[u] \notin FrontCopied
        BY <1>1, <2>1 DEF InDeQ, Reserved, FrontCopied
    <2>3. \A u, v \in Threads : pc'[u] \in InDeQ /\ pc'[v] \in InDeQ => u = v
        BY <2>2
    <2> QED  BY <1>1, <1>2, <2>2, <2>3 DEF Lone
<1>3. CASE overlap
    BY <1>3 DEF Lone
<1>4. overlap \in BOOLEAN
    BY DEF IInv, TypeOK
<1> QED  BY <1>2, <1>3

\* EnQ reading the pointer of the rear.
LEMMA EnQReadPtrInv ==
    ASSUME IInv, ~Crashed, NEW t \in Threads, EnQReadPtr(t) PROVE IInv'
<1>1. /\ pc[t] = "enqPtr" /\ pc' = [pc EXCEPT ![t] = "enqId"]
      /\ temp' = [temp EXCEPT ![t].ptr = rear.ptr]
      /\ UNCHANGED <<front, rear, rearID, count, next, data, out, change, newNode, value,
                     items, taken, overlap, calls>>
    BY DEF EnQReadPtr, Goto, queueVars, histories
<1>2. TypeOK /\ rear.ptr \in Nodes
    BY QueueFacts DEF IInv
<1>3. temp' \in [Threads -> [ptr : NodeOrNull, id : Nat]] /\ temp'[t].ptr = rear.ptr
      /\ \A u \in Threads : u # t => temp'[u] = temp[u]
    BY <1>1, <1>2 DEF TypeOK, NodeOrNull
<1>4. TypeOK'
    BY <1>1, <1>2, <1>3 DEF TypeOK, States, Private, Filled
<1>5. Counts'
    BY <1>1, SameCounts DEF States, Private, Filled, Uncounted, Reserved
<1>6. Lone'
    BY <1>1, <1>3, LoneOther DEF InDeQ, Reserved
<1>7. pc'[t] = "enqId"
    BY <1>1, <1>2 DEF TypeOK
<1>8. RearCopy(t)' /\ FrontCopy(t)'
    BY <1>1, <1>2, <1>3, <1>7 DEF RearCopy, FrontCopy, RearCopied, Moving, FrontCopied
<1> QED  BY <1>1, <1>3, <1>4, <1>5, <1>6, <1>8, LocalInv
         DEF States, Private, Filled, Moving

\* EnQ reading the ID of the rear.
LEMMA EnQReadIDInv ==
    ASSUME IInv, ~Crashed, NEW t \in Threads, EnQReadID(t) PROVE IInv'
<1>1. /\ pc[t] = "enqId" /\ pc' = [pc EXCEPT ![t] = "enqLink"]
      /\ temp' = [temp EXCEPT ![t].id = rear.id]
      /\ UNCHANGED <<front, rear, rearID, count, next, data, out, change, newNode, value,
                     items, taken, overlap, calls>>
    BY DEF EnQReadID, Goto, queueVars, histories
<1>2. TypeOK /\ rear.id \in Nat
    BY QueueFacts DEF IInv
<1>3. /\ temp' \in [Threads -> [ptr : NodeOrNull, id : Nat]]
      /\ temp'[t].ptr = temp[t].ptr /\ temp'[t].id = rear.id
      /\ \A u \in Threads : u # t => temp'[u] = temp[u]
    BY <1>1, <1>2 DEF TypeOK
<1>4. TypeOK'
    BY <1>1, <1>2, <1>3 DEF TypeOK, States, Private, Filled
<1>5. Counts'
    BY <1>1, SameCounts DEF States, Private, Filled, Uncounted, Reserved
<1>6. Lone'
    BY <1>1, <1>3, LoneOther DEF InDeQ, Reserved
<1>7. pc'[t] = "enqLink"
    BY <1>1, <1>2 DEF TypeOK
<1>8. temp[t].ptr \in Nodes
    BY <1>1 DEF IInv, RearCopy
<1>9. /\ rear.id <= rearID
      /\ \A n \in Nodes : next[n] \in Nat /\ n # rear.ptr => next[n] # rear.id
    BY DEF IInv, IDs
<1>10. RearCopy(t)'
    BY <1>1, <1>3, <1>7, <1>8, <1>9 DEF RearCopy, Moving
<1>11. FrontCopy(t)'
    BY <1>7 DEF FrontCopy, FrontCopied
<1> QED  BY <1>1, <1>3, <1>4, <1>5, <1>6, <1>10, <1>11, LocalInv
         DEF States, Private, Filled, Moving

\* EnQ's first exchange fails.
LEMMA EnQLinkFailsInv ==
    ASSUME IInv, ~Crashed, NEW t \in Threads, EnQLinkFails(t) PROVE IInv'
<1>1. /\ pc[t] = "enqLink" /\ pc' = [pc EXCEPT ![t] = "enqHelp"]
      /\ UNCHANGED <<front, rear, rearID, count, next, data, out, temp, change, newNode,
                     value, items, taken, overlap, calls>>
    BY DEF EnQLinkFails, Goto, queueVars, histories, locals
<1>2. TypeOK /\ TypeOK'
    BY <1>1 DEF IInv, TypeOK, States, Private, Filled
<1>5. Counts'
    BY <1>1, SameCounts DEF States, Private, Filled, Uncounted, Reserved
<1>6. Lone'
    BY <1>1, LoneOther DEF InDeQ, Reserved
<1>7. pc'[t] = "enqHelp"
    BY <1>1, <1>2 DEF TypeOK
<1>10. RearCopy(t)'
    BY <1>1, <1>7 DEF IInv, RearCopy, Moving, RearCopied
<1>11. FrontCopy(t)'
    BY <1>7 DEF FrontCopy, FrontCopied
<1> QED  BY <1>1, <1>2, <1>5, <1>6, <1>10, <1>11, LocalInv
         DEF States, Private, Filled, Moving

\* The rear is behind: its successor is the last node.
LEMMA RearBehind ==
    ASSUME IInv, rear.ptr # End \/ next[rear.ptr] \notin Nat
    PROVE  /\ Len(items) \in Nat /\ Len(items) > 0 /\ rear.ptr = At(Len(items) - 1)
           /\ next[rear.ptr] = End /\ rear.ptr # End
           /\ \E t \in Threads : pc[t] \in Moving /\ temp[t] = rear /\ newNode[t] = End
<1>1. Len(items) \in Nat /\ End = At(Len(items))
    BY QueueFacts DEF IInv, End
<1>2. next[End] \in Nat
    BY DEF IInv, Linked
<1>3. /\ Len(items) > 0 /\ rear.ptr = At(Len(items) - 1)
      /\ \E t \in Threads : pc[t] \in Moving /\ temp[t] = rear /\ newNode[t] = End
    BY <1>2 DEF IInv, RearKnown
<1>4. Len(items) \in 1..Len(items)
    BY <1>1, <1>3
<1>5. next[rear.ptr] = End
    BY <1>1, <1>3, <1>4 DEF IInv, Linked
<1>6. rear.ptr # End
    BY <1>2
<1> QED  BY <1>1, <1>3, <1>5, <1>6

\* EnQ reading the successor of the rear.
LEMMA EnQHelpInv ==
    ASSUME IInv, ~Crashed, NEW t \in Threads, EnQHelp(t) PROVE IInv'
<1>0. PICK x : x = next[temp[t].ptr]
    OBVIOUS
<1>1. /\ pc[t] = "enqHelp"
      /\ UNCHANGED <<front, rear, rearID, count, next, data, out, temp, newNode,
                     value, items, taken, overlap, calls>>
    BY DEF EnQHelp, Goto, queueVars, histories, locals
<1>2. TypeOK /\ temp[t].ptr \in Nodes
    BY <1>1 DEF IInv, RearCopy, RearCopied
<1>3. x \in Link
    BY <1>0, <1>2, QueueFacts
<1>4. CASE x \in Nat
    <2>1. pc' = [pc EXCEPT ![t] = "enqPtr"] /\ UNCHANGED change
        BY <1>0, <1>4 DEF EnQHelp, Kernel, Goto
    <2>2. TypeOK'
        BY <1>1, <1>2, <2>1 DEF TypeOK, States, Private, Filled
    <2>3. Counts'
        BY <1>1, <2>1, SameCounts DEF States, Private, Filled, Uncounted, Reserved
    <2>4. Lone'
        BY <1>1, <2>1, LoneOther DEF InDeQ, Reserved
    <2>5. pc'[t] = "enqPtr"
        BY <1>2, <2>1 DEF TypeOK
    <2>6. RearCopy(t)' /\ FrontCopy(t)'
        BY <2>5 DEF RearCopy, FrontCopy, RearCopied, Moving, FrontCopied
    <2> QED  BY <1>1, <2>1, <2>2, <2>3, <2>4, <2>6, LocalInv
             DEF States, Private, Filled, Moving
<1>5. CASE x \notin Nat
    <2>0. PICK s : s = IF x = Null THEN "crashed" ELSE "enqHelpNext"
        OBVIOUS
    <2>1. pc' = [pc EXCEPT ![t] = s] /\ change' = [change EXCEPT ![t].ptr = x]
        BY <1>0, <1>5, <2>0 DEF EnQHelp, Kernel, Goto
    <2>2. x \in NodeOrNull /\ (s # "crashed" => x \in Nodes) /\ s \in {"crashed", "enqHelpNext"}
        BY <1>3, <1>5, <2>0 DEF Link, NodeOrNull
    <2>3. /\ change' \in [Threads -> [ptr : NodeOrNull, id : Link]]
          /\ change'[t].ptr = x /\ \A u \in Threads : u # t => change'[u] = change[u]
        BY <1>2, <2>1, <2>2 DEF TypeOK
    <2>4. TypeOK'
        BY <1>1, <1>2, <2>1, <2>2, <2>3 DEF TypeOK, States, Private, Filled
    <2>5. Counts'
        BY <1>1, <2>1, <2>2, SameCounts DEF States, Private, Filled, Uncounted, Reserved
    <2>6. Lone'
        BY <1>1, <2>1, <2>2, LoneOther DEF InDeQ, Reserved
    <2>7. pc'[t] = s
        BY <1>2, <2>1 DEF TypeOK
    <2>8. temp[t] = rear => rear.ptr # End /\ x = End
        BY <1>0, <1>5, RearBehind
    <2>9. End' = End
        BY <1>1 DEF End, At
    <2>10. RearCopy(t)'
        <3>1. CASE s = "crashed"
            BY <2>7, <3>1 DEF RearCopy, RearCopied, Moving
        <3>2. CASE s = "enqHelpNext"
            BY <1>1, <2>2, <2>3, <2>7, <2>8, <2>9, <3>2 DEF IInv, RearCopy, RearCopied, Moving
        <3> QED  BY <2>2, <3>1, <3>2
    <2>11. FrontCopy(t)'
        BY <2>2, <2>7 DEF FrontCopy, FrontCopied
    <2> QED  BY <1>1, <2>1, <2>2, <2>3, <2>4, <2>5, <2>6, <2>10, <2>11, LocalInv
             DEF States, Private, Filled, Moving
<1> QED  BY <1>4, <1>5

\* EnQ reading the ID of the successor.
LEMMA EnQHelpNextInv ==
    ASSUME IInv, ~Crashed, NEW t \in Threads, EnQHelpNext(t) PROVE IInv'
<1>1. /\ pc[t] = "enqHelpNext" /\ pc' = [pc EXCEPT ![t] = "enqHelpCas"]
      /\ change' = [change EXCEPT ![t].id = next[change[t].ptr]]
      /\ UNCHANGED <<front, rear, rearID, count, next, data, out, temp, newNode,
                     value, items, taken, overlap, calls>>
    BY DEF EnQHelpNext, Goto, queueVars, histories, locals
<1>2. TypeOK /\ change[t].ptr \in Nodes /\ next[change[t].ptr] \in Link
    BY <1>1, QueueFacts DEF IInv, RearCopy
<1>3. /\ change' \in [Threads -> [ptr : NodeOrNull, id : Link]]
      /\ change'[t].ptr = change[t].ptr /\ change'[t].id = next[change[t].ptr]
      /\ \A u \in Threads : u # t => change'[u] = change[u]
    BY <1>1, <1>2 DEF TypeOK
<1>4. TypeOK'
    BY <1>1, <1>2, <1>3 DEF TypeOK, States, Private, Filled
<1>5. Counts'
    BY <1>1, SameCounts DEF States, Private, Filled, Uncounted, Reserved
<1>6. Lone'
    BY <1>1, LoneOther DEF InDeQ, Reserved
<1>7. pc'[t] = "enqHelpCas" /\ End' = End
    BY <1>1, <1>2 DEF TypeOK, End, At
<1>8. RearCopy(t)'
    BY <1>1, <1>3, <1>7 DEF IInv, RearCopy, RearCopied, Moving
<1>9. FrontCopy(t)'
    BY <1>7 DEF FrontCopy, FrontCopied
<1> QED  BY <1>1, <1>3, <1>4, <1>5, <1>6, <1>8, <1>9, LocalInv
         DEF States, Private, Filled, Moving

\* EnQ reading the ID of the node it linked.
LEMMA EnQReadNextInv ==
    ASSUME IInv, ~Crashed, NEW t \in Threads, EnQReadNext(t) PROVE IInv'
<1>1. /\ pc[t] = "enqLinked" /\ pc' = [pc EXCEPT ![t] = "enqRear"]
      /\ change' = [change EXCEPT ![t] = [ptr |-> newNode[t], id |-> next[newNode[t]]]]
      /\ UNCHANGED <<front, rear, rearID, count, next, data, out, temp, newNode,
                     value, items, taken, overlap, calls>>
    BY DEF EnQReadNext, Goto, queueVars, histories, locals
<1>2. TypeOK /\ newNode[t] \in Nodes /\ next[newNode[t]] \in Link
    BY <1>1, QueueFacts DEF IInv, RearCopy, Moving
<1>3. /\ change' \in [Threads -> [ptr : NodeOrNull, id : Link]]
      /\ change'[t].ptr = newNode[t] /\ change'[t].id = next[newNode[t]]
      /\ \A u \in Threads : u # t => change'[u] = change[u]
    BY <1>1, <1>2 DEF TypeOK, NodeOrNull
<1>4. TypeOK'
    BY <1>1, <1>2, <1>3 DEF TypeOK, States, Uncounted
<1>5. Counts'
    BY <1>1, SameCounts DEF States, Uncounted, Reserved
<1>6. Lone'
    BY <1>1, LoneOther DEF InDeQ, Reserved
<1>7. pc'[t] = "enqRear" /\ End' = End
    BY <1>1, <1>2 DEF TypeOK, End, At
<1>8. RearCopy(t)'
    BY <1>1, <1>3, <1>7 DEF IInv, RearCopy, RearCopied, Moving
<1>9. FrontCopy(t)'
    BY <1>7 DEF FrontCopy, FrontCopied
<1> QED  BY <1>1, <1>3, <1>4, <1>5, <1>6, <1>8, <1>9, LocalInv
         DEF States, Private, Filled, Moving, Uncounted

\* DeQ reading the pointer of the front.
LEMMA DeQReadPtrInv ==
    ASSUME IInv, ~Crashed, NEW t \in Threads, DeQReadPtr(t) PROVE IInv'
<1>1. /\ pc[t] = "deqPtr" /\ pc' = [pc EXCEPT ![t] = "deqId"]
      /\ temp' = [temp EXCEPT ![t].ptr = front.ptr]
      /\ UNCHANGED <<front, rear, rearID, count, next, data, out, change, newNode, value,
                     items, taken, overlap, calls>>
    BY DEF DeQReadPtr, Goto, queueVars, histories
<1>2. TypeOK /\ front.ptr \in Nodes
    BY QueueFacts DEF IInv
<1>3. temp' \in [Threads -> [ptr : NodeOrNull, id : Nat]] /\ temp'[t].ptr = front.ptr
      /\ \A u \in Threads : u # t => temp'[u] = temp[u]
    BY <1>1, <1>2 DEF TypeOK, NodeOrNull
<1>4. TypeOK'
    BY <1>1, <1>2, <1>3 DEF TypeOK, States, Reserved
<1>5. Counts'
    BY <1>1, SameCounts DEF States, Uncounted, Reserved
<1>6. Lone'
    BY <1>1, <1>3, LoneWithin DEF InDeQ, Reserved, FrontCopied
<1>7. pc'[t] = "deqId"
    BY <1>1, <1>2 DEF TypeOK
<1>8. RearCopy(t)' /\ FrontCopy(t)'
    BY <1>1, <1>2, <1>3, <1>7 DEF RearCopy, FrontCopy, RearCopied, Moving, FrontCopied
<1> QED  BY <1>1, <1>3, <1>4, <1>5, <1>6, <1>8, LocalInv
         DEF States, Private, Filled, Moving, Reserved

\* DeQ reading the ID of the front.
LEMMA DeQReadIDInv ==
    ASSUME IInv, ~Crashed, NEW t \in Threads, DeQReadID(t) PROVE IInv'
<1>1. /\ pc[t] = "deqId" /\ pc' = [pc EXCEPT ![t] = "deqNext"]
      /\ temp' = [temp EXCEPT ![t].id = front.id]
      /\ UNCHANGED <<front, rear, rearID, count, next, data, out, change, newNode, value,
                     items, taken, overlap, calls>>
    BY DEF DeQReadID, Goto, queueVars, histories
<1>2. TypeOK /\ front.id \in Nat /\ temp[t].ptr \in Nodes
    BY <1>1, QueueFacts DEF IInv, FrontCopy
<1>3. /\ temp' \in [Threads -> [ptr : NodeOrNull, id : Nat]]
      /\ temp'[t].ptr = temp[t].ptr /\ temp'[t].id = front.id
      /\ \A u \in Threads : u # t => temp'[u] = temp[u]
    BY <1>1, <1>2 DEF TypeOK
<1>4. TypeOK'
    BY <1>1, <1>2, <1>3 DEF TypeOK, States, Reserved
<1>5. Counts'
    BY <1>1, SameCounts DEF States, Uncounted, Reserved
<1>6. ~overlap => temp'[t] = front
    <2>1. ~overlap => temp'[t].ptr = front.ptr
        BY <1>1, <1>3 DEF IInv, Lone
    <2>2. temp'[t] \in [ptr : NodeOrNull, id : Nat] /\ front \in [ptr : Nodes, id : Nat]
        BY <1>2, <1>3 DEF TypeOK
    <2> QED  BY <1>3, <2>1, <2>2
<1>7. Lone'
    BY <1>1, <1>3, <1>6, LoneWithin DEF InDeQ, Reserved
<1>8. pc'[t] = "deqNext"
    BY <1>1, <1>2 DEF TypeOK
<1>9. Len(items) > 0
    BY <1>1, Enough DEF Reserved
<1>10. RearCopy(t)' /\ FrontCopy(t)'
    BY <1>1, <1>2, <1>3, <1>8, <1>9 DEF RearCopy, FrontCopy, RearCopied, Moving, FrontCopied
<1> QED  BY <1>1, <1>3, <1>4, <1>5, <1>7, <1>10, LocalInv
         DEF States, Private, Filled, Moving, Reserved

\* The successor of the front is the first item.
LEMMA FrontLink ==
    ASSUME IInv, Len(items) > 0
    PROVE  next[front.ptr] = At(1) /\ At(1) \in Nodes /\ At(1) = items[1].node
<1>1. /\ 1 \in 1..Len(items) /\ At(0) = front.ptr
      /\ \A i \in 1..Len(items) : At(i) = items[i].node /\ items[i].node \in Nodes
    BY QueueFacts DEF IInv
<1>2. next[At(1 - 1)] = At(1)
    BY <1>1 DEF IInv, Linked
<1> QED  BY <1>1, <1>2

\* DeQ reading the successor of the front.
LEMMA DeQReadNextInv ==
    ASSUME IInv, ~Crashed, NEW t \in Threads, DeQReadNext(t) PROVE IInv'
<1>0. PICK x, s : x = next[temp[t].ptr] /\ s = IF x = Null THEN "crashed" ELSE "deqData"
    OBVIOUS
<1>1. /\ pc[t] = "deqNext" /\ x \notin Nat /\ pc' = [pc EXCEPT ![t] = s]
      /\ change' = [change EXCEPT ![t] = [ptr |-> x, id |-> temp[t].id + 1]]
      /\ UNCHANGED <<front, rear, rearID, count, next, data, out, temp, newNode, value,
                     items, taken, overlap, calls>>
    BY <1>0 DEF DeQReadNext, Kernel, Goto, queueVars, histories
<1>2. TypeOK /\ temp[t].ptr \in Nodes /\ temp[t].id \in Nat
    BY <1>1, ThreadFacts DEF IInv, FrontCopy, FrontCopied
<1>3. x \in NodeOrNull /\ (s # "crashed" => x \in Nodes) /\ s \in {"crashed", "deqData"}
    <2>1. x \in Link
        BY <1>0, <1>2, QueueFacts
    <2> QED  BY <1>0, <1>1, <2>1 DEF Link, NodeOrNull
<1>4. /\ change' \in [Threads -> [ptr : NodeOrNull, id : Link]]
      /\ change'[t].ptr = x /\ change'[t].id = temp[t].id + 1
      /\ \A u \in Threads : u # t => change'[u] = change[u]
    <2>1. temp[t].id + 1 \in Link
        BY <1>2 DEF Link
    <2> QED  BY <1>1, <1>2, <1>3, <2>1 DEF TypeOK
<1>5. TypeOK'
    BY <1>1, <1>2, <1>3, <1>4 DEF TypeOK, States, Reserved
<1>6. Counts'
    BY <1>1, <1>3, SameCounts DEF States, Uncounted, Reserved
<1>7. Lone'
    <2>1. ~overlap => temp[t] = front
        BY <1>1 DEF IInv, Lone, FrontCopied
    <2> QED  BY <1>1, <1>3, <2>1, LoneWithin DEF InDeQ, Reserved
<1>8. pc'[t] = s
    BY <1>1, <1>2 DEF TypeOK
<1>9. temp[t] = front => Len(items) > 0 /\ x = At(1)
    <2>1. temp[t] = front => Len(items) > 0
        BY <1>1 DEF IInv, FrontCopy, FrontCopied
    <2> QED  BY <1>0, <2>1, FrontLink
<1>10. At(1)' = At(1)
    BY <1>1 DEF At
<1>11. FrontCopy(t)'
    <2>1. temp[t].id <= front.id
        BY <1>1 DEF IInv, FrontCopy, FrontCopied
    <2>2. CASE s = "crashed"
        BY <1>8, <2>2 DEF FrontCopy, FrontCopied
    <2>3. CASE s = "deqData"
        BY <1>1, <1>2, <1>3, <1>4, <1>8, <1>9, <1>10, <2>1, <2>3 DEF FrontCopy, FrontCopied
    <2> QED  BY <1>3, <2>2, <2>3
<1>12. RearCopy(t)'
    BY <1>3, <1>8 DEF RearCopy, RearCopied, Moving
<1> QED  BY <1>1, <1>3, <1>4, <1>5, <1>6, <1>7, <1>11, <1>12, LocalInv
         DEF States, Private, Filled, Moving, Reserved

\* DeQ reading the data of the successor.
LEMMA DeQDataInv ==
    ASSUME IInv, ~Crashed, NEW t \in Threads, DeQData(t) PROVE IInv'
<1>1. /\ pc[t] = "deqData" /\ pc' = [pc EXCEPT ![t] = "deqCas"]
      /\ value' = [value EXCEPT ![t] = data[change[t].ptr]]
      /\ UNCHANGED <<front, rear, rearID, count, next, data, out, temp, change, newNode,
                     items, taken, overlap, calls>>
    BY DEF DeQData, DataOf, Goto, queueVars, histories
<1>2. TypeOK /\ change[t].ptr \in Nodes /\ data[change[t].ptr] \in Nat
    BY <1>1, QueueFacts DEF IInv, FrontCopy
<1>3. /\ value' \in [Threads -> Nat] /\ value'[t] = data[change[t].ptr]
      /\ \A u \in Threads : u # t => value'[u] = value[u]
    BY <1>1, <1>2 DEF TypeOK
<1>4. TypeOK'
    BY <1>1, <1>2, <1>3 DEF TypeOK, States, Reserved
<1>5. Counts'
    BY <1>1, SameCounts DEF States, Uncounted, Reserved
<1>6. Lone'
    <2>1. ~overlap => temp[t] = front
        BY <1>1 DEF IInv, Lone, FrontCopied
    <2> QED  BY <1>1, <2>1, LoneWithin DEF InDeQ, Reserved
<1>7. pc'[t] = "deqCas" /\ At(1)' = At(1)
    BY <1>1, <1>2 DEF TypeOK, At
<1>8. RearCopy(t)'
    BY <1>7 DEF RearCopy, RearCopied, Moving
<1>9. FrontCopy(t)'
    BY <1>1, <1>3, <1>7 DEF IInv, FrontCopy, FrontCopied
<1> QED  BY <1>1, <1>3, <1>4, <1>5, <1>6, <1>8, <1>9, LocalInv
         DEF States, Private, Filled, Moving, Reserved

\* DeQ's exchange fails.
LEMMA DeQRetryInv ==
    ASSUME IInv, ~Crashed, NEW t \in Threads, DeQRetry(t) PROVE IInv'
<1>1. /\ pc[t] = "deqCas" /\ pc' = [pc EXCEPT ![t] = "deqNext"]
      /\ temp' = [temp EXCEPT ![t] = front]
      /\ UNCHANGED <<front, rear, rearID, count, next, data, out, change, newNode, value,
                     items, taken, overlap, calls>>
    BY DEF DeQRetry, Goto, queueVars, histories
<1>2. TypeOK /\ front.ptr \in Nodes /\ front.id \in Nat
    BY QueueFacts DEF IInv
<1>3. /\ temp' \in [Threads -> [ptr : NodeOrNull, id : Nat]] /\ temp'[t] = front
      /\ \A u \in Threads : u # t => temp'[u] = temp[u]
    BY <1>1, <1>2 DEF TypeOK, NodeOrNull
<1>4. TypeOK'
    BY <1>1, <1>2, <1>3 DEF TypeOK, States, Reserved
<1>5. Counts'
    BY <1>1, SameCounts DEF States, Uncounted, Reserved
<1>6. Lone'
    BY <1>1, <1>3, LoneWithin DEF InDeQ, Reserved
<1>7. pc'[t] = "deqNext"
    BY <1>1, <1>2 DEF TypeOK
<1>8. Len(items) > 0
    BY <1>1, Enough DEF Reserved
<1>9. RearCopy(t)' /\ FrontCopy(t)'
    BY <1>1, <1>2, <1>3, <1>7, <1>8 DEF RearCopy, FrontCopy, RearCopied, Moving, FrontCopied
<1> QED  BY <1>1, <1>3, <1>4, <1>5, <1>6, <1>9, LocalInv
         DEF States, Private, Filled, Moving, Reserved

-----------------------------------------------------------------------------
(***************************************************************************)
(* Steps on m_count                                                        *)
(***************************************************************************)

\* A call of t returns.
LEMMA ReturnFacts ==
    ASSUME TypeOK, NEW t \in Threads, Return(t)
    PROVE  /\ pc' = [pc EXCEPT ![t] = "idle"] /\ pc' \in [Threads -> States]
           /\ pc'[t] = "idle"
           /\ temp' \in [Threads -> [ptr : NodeOrNull, id : Nat]]
           /\ change' \in [Threads -> [ptr : NodeOrNull, id : Link]]
           /\ newNode' \in [Threads -> NodeOrNull]
           /\ value' \in [Threads -> Nat] /\ taken' \in [Threads -> Nat]
           /\ \A u \in Threads : u # t =>
                 /\ temp'[u] = temp[u] /\ change'[u] = change[u] /\ newNode'[u] = newNode[u]
                 /\ value'[u] = value[u] /\ taken'[u] = taken[u] /\ pc'[u] = pc[u]
           /\ RearCopy(t)' /\ FrontCopy(t)'
<1>1. NoCheck \in [ptr : NodeOrNull, id : Nat] /\ NoCheck \in [ptr : NodeOrNull, id : Link]
    BY DEF NoCheck, NodeOrNull, Link
<1>2. /\ pc' = [pc EXCEPT ![t] = "idle"] /\ pc' \in [Threads -> States] /\ pc'[t] = "idle"
    BY DEF Return, Goto, TypeOK, States
<1>3. /\ temp' \in [Threads -> [ptr : NodeOrNull, id : Nat]]
      /\ change' \in [Threads -> [ptr : NodeOrNull, id : Link]]
    BY <1>1 DEF Return, TypeOK
<1>4. /\ newNode' \in [Threads -> NodeOrNull]
      /\ value' \in [Threads -> Nat] /\ taken' \in [Threads -> Nat]
    BY DEF Return, TypeOK, NodeOrNull
<1>5. \A u \in Threads : u # t =>
         /\ temp'[u] = temp[u] /\ change'[u] = change[u] /\ newNode'[u] = newNode[u]
         /\ value'[u] = value[u] /\ taken'[u] = taken[u] /\ pc'[u] = pc[u]
    BY DEF Return, Goto, TypeOK
<1>6. RearCopy(t)' /\ FrontCopy(t)'
    BY <1>2 DEF RearCopy, FrontCopy, RearCopied, FrontCopied, Moving
<1> QED  BY <1>2, <1>3, <1>4, <1>5, <1>6

\* EnQ counts its item and returns.
LEMMA EnQCountInv ==
    ASSUME IInv, ~Crashed, NEW t \in Threads, EnQCount(t) PROVE IInv'
<1>1. /\ pc[t] = "enqCount" /\ count' = count + 1 /\ Return(t)
      /\ UNCHANGED <<front, rear, rearID, next, data, out, items, overlap, calls>>
    BY DEF EnQCount
<1>2. TypeOK
    BY DEF IInv
<1>3. TypeOK'
    <2>1. /\ pc' \in [Threads -> States]
          /\ temp' \in [Threads -> [ptr : NodeOrNull, id : Nat]]
          /\ change' \in [Threads -> [ptr : NodeOrNull, id : Link]]
          /\ newNode' \in [Threads -> NodeOrNull]
          /\ value' \in [Threads -> Nat] /\ taken' \in [Threads -> Nat]
        BY <1>1, <1>2, ReturnFacts
    <2>2. count' \in Int
        BY <1>1, <1>2 DEF TypeOK
    <2> QED  BY <1>1, <1>2, <2>1, <2>2 DEF TypeOK
<1>4. pc \in [Threads -> States] /\ pc' = [pc EXCEPT ![t] = "idle"]
    BY <1>1, <1>2, ReturnFacts DEF TypeOK
<1>5. Counts'
    <2>1. In(Uncounted)' = In(Uncounted) - 1
        BY <1>1, <1>4, MoveOut DEF Uncounted
    <2>2. In(Reserved)' = In(Reserved) /\ In({"deqFail"})' = In({"deqFail"})
        BY <1>1, <1>4, MoveWithin DEF Reserved
    <2>3. /\ In(Uncounted) \in Nat /\ In(Reserved) \in Nat /\ In({"deqFail"}) \in Nat
          /\ Len(items) \in Nat /\ count \in Int
        BY <1>2, InNat, QueueFacts DEF TypeOK
    <2>4. /\ count = Len(items) - In(Uncounted) - In(Reserved) - In({"deqFail"})
          /\ count + In({"deqFail"}) >= 0
        BY DEF IInv, Counts
    <2>5. count' = count + 1 /\ items' = items
        BY <1>1
    <2>6. count' = Len(items') - In(Uncounted)' - In(Reserved)' - In({"deqFail"})'
        BY <2>1, <2>2, <2>3, <2>4, <2>5
    <2>7. count' + In({"deqFail"})' >= 0
        BY <2>1, <2>2, <2>3, <2>4, <2>5
    <2> QED  BY <2>6, <2>7 DEF Counts
<1>6. /\ \A u \in Threads : u # t =>
            /\ temp'[u] = temp[u] /\ change'[u] = change[u] /\ newNode'[u] = newNode[u]
            /\ value'[u] = value[u] /\ taken'[u] = taken[u]
      /\ RearCopy(t)' /\ FrontCopy(t)'
    BY <1>1, <1>2, ReturnFacts
<1>7. Lone'
    BY <1>1, <1>4, <1>6, LoneOther DEF InDeQ, Reserved
<1> QED  BY <1>1, <1>3, <1>4, <1>5, <1>6, <1>7, LocalInv
         DEF States, Private, Filled, Moving

\* DeQ gives its decrement back and returns false.
LEMMA DeQFailInv ==
    ASSUME IInv, ~Crashed, NEW t \in Threads, DeQFail(t) PROVE IInv'
<1>1. /\ pc[t] = "deqFail" /\ count' = count + 1 /\ Return(t)
      /\ UNCHANGED <<front, rear, rearID, next, data, out, items, overlap, calls>>
    BY DEF DeQFail, Restored
<1>2. TypeOK
    BY DEF IInv
<1>3. TypeOK'
    <2>1. /\ pc' \in [Threads -> States]
          /\ temp' \in [Threads -> [ptr : NodeOrNull, id : Nat]]
          /\ change' \in [Threads -> [ptr : NodeOrNull, id : Link]]
          /\ newNode' \in [Threads -> NodeOrNull]
          /\ value' \in [Threads -> Nat] /\ taken' \in [Threads -> Nat]
        BY <1>1, <1>2, ReturnFacts
    <2>2. count' \in Int
        BY <1>1, <1>2 DEF TypeOK
    <2> QED  BY <1>1, <1>2, <2>1, <2>2 DEF TypeOK
<1>4. pc \in [Threads -> States] /\ pc' = [pc EXCEPT ![t] = "idle"]
    BY <1>1, <1>2, ReturnFacts DEF TypeOK
<1>5. Counts'
    <2>1. In({"deqFail"})' = In({"deqFail"}) - 1
        <3>1. pc[t] \in {"deqFail"} /\ "idle" \notin {"deqFail"}
            BY <1>1
        <3> QED  BY <1>4, <3>1, MoveOut
    <2>2. In(Reserved)' = In(Reserved) /\ In(Uncounted)' = In(Uncounted)
        BY <1>1, <1>4, MoveWithin DEF Reserved, Uncounted
    <2>3. /\ In(Uncounted) \in Nat /\ In(Reserved) \in Nat /\ In({"deqFail"}) \in Nat
          /\ Len(items) \in Nat /\ count \in Int
        BY <1>2, InNat, QueueFacts DEF TypeOK
    <2>4. /\ count = Len(items) - In(Uncounted) - In(Reserved) - In({"deqFail"})
          /\ count + In({"deqFail"}) >= 0
        BY DEF IInv, Counts
    <2>5. count' = count + 1 /\ items' = items
        BY <1>1
    <2>6. count' = Len(items') - In(Uncounted)' - In(Reserved)' - In({"deqFail"})'
        BY <2>1, <2>2, <2>3, <2>4, <2>5
    <2>7. count' + In({"deqFail"})' >= 0
        BY <2>1, <2>2, <2>3, <2>4, <2>5
    <2> QED  BY <2>6, <2>7 DEF Counts
<1>6. /\ \A u \in Threads : u # t =>
            /\ temp'[u] = temp[u] /\ change'[u] = change[u] /\ newNode'[u] = newNode[u]
            /\ value'[u] = value[u] /\ taken'[u] = taken[u]
      /\ RearCopy(t)' /\ FrontCopy(t)'
    BY <1>1, <1>2, ReturnFacts
<1>7. Lone'
    BY <1>1, <1>4, <1>6, LoneOther DEF InDeQ, Reserved
<1> QED  BY <1>1, <1>3, <1>4, <1>5, <1>6, <1>7, LocalInv
         DEF States, Private, Filled, Moving

\* DeQ begins and reserves an item, or finds that there is none.
LEMMA DeQInv ==
    ASSUME IInv, ~Crashed, NEW t \in Threads, DeQ(t) PROVE IInv'
<1>0. PICK s : s = IF NoneLeft(count) THEN "deqFail" ELSE "deqPtr"
    OBVIOUS
<1>1. /\ pc[t] = "idle" /\ count' = count - 1 /\ pc' = [pc EXCEPT ![t] = s]
      /\ calls' = calls + 1
      /\ UNCHANGED <<front, rear, rearID, next, data, out, temp, change, newNode, value,
                     items, taken>>
    BY <1>0 DEF DeQ, Begin, Goto, locals
<1>2. overlap' = (overlap \/ \E u \in Threads : pc[u] \in InDeQ)
    BY DEF DeQ
<1>3. TypeOK /\ s \in {"deqFail", "deqPtr"} /\ count \in Int
    BY <1>0 DEF IInv, TypeOK
<1>4. TypeOK'
    <2>1. overlap' \in BOOLEAN
        BY <1>2
    <2>2. count' \in Int /\ calls' \in Nat
        BY <1>1, <1>3 DEF TypeOK
    <2>3. pc' \in [Threads -> States]
        BY <1>1, <1>3 DEF TypeOK, States, Reserved
    <2> QED  BY <1>1, <1>3, <2>1, <2>2, <2>3 DEF TypeOK
<1>5. pc \in [Threads -> States] /\ pc'[t] = s /\ \A u \in Threads : u # t => pc'[u] = pc[u]
    BY <1>1, <1>3 DEF TypeOK
<1>6. Counts'
    <2>1. In(Uncounted)' = In(Uncounted)
        BY <1>1, <1>3, <1>5, MoveWithin DEF Uncounted
    <2>2. /\ In(Uncounted) \in Nat /\ In(Reserved) \in Nat /\ In({"deqFail"}) \in Nat
          /\ Len(items) \in Nat
        BY <1>3, InNat, QueueFacts
    <2>3. /\ count = Len(items) - In(Uncounted) - In(Reserved) - In({"deqFail"})
          /\ count + In({"deqFail"}) >= 0
        BY DEF IInv, Counts
    <2>4. CASE s = "deqFail"
        <3>1. In(Reserved)' = In(Reserved) /\ In({"deqFail"})' = In({"deqFail"}) + 1
            BY <1>1, <1>5, <2>4, MoveWithin, MoveIn DEF Reserved
        <3>2. /\ count' = Len(items) - In(Uncounted)' - In(Reserved)' - In({"deqFail"})'
              /\ count' + In({"deqFail"})' >= 0
            BY <1>1, <1>3, <2>1, <2>2, <2>3, <3>1
        <3> QED  BY <1>1, <3>2 DEF Counts
    <2>5. CASE s = "deqPtr"
        <3>1. In(Reserved)' = In(Reserved) + 1 /\ In({"deqFail"})' = In({"deqFail"})
            BY <1>1, <1>5, <2>5, MoveWithin, MoveIn DEF Reserved
        <3>2. ~(count - 1 < 0)
            BY <1>0, <2>5 DEF NoneLeft
        <3>3. count' = count - 1 /\ items' = items /\ count \in Int
            BY <1>1, <1>3
        <3>4. count' = Len(items') - In(Uncounted)' - In(Reserved)' - In({"deqFail"})'
            BY <2>1, <2>2, <2>3, <3>1, <3>3
        <3>5. count' + In({"deqFail"})' >= 0
            BY <2>2, <3>1, <3>2, <3>3
        <3> QED  BY <3>4, <3>5 DEF Counts
    <2> QED  BY <1>3, <2>4, <2>5
<1>7. Lone'
    <2>1. CASE ~overlap'
        <3>1. \A u \in Threads : pc[u] \notin InDeQ
            BY <1>2, <2>1
        <3>2. \A u \in Threads : u # t => pc'[u] \notin InDeQ
            BY <1>5, <3>1
        <3>3. \A u \in Threads : pc'[u] # "deqId" /\ pc'[u] \notin FrontCopied
            BY <1>3, <1>5, <3>1 DEF InDeQ, Reserved, FrontCopied
        <3> QED  BY <3>2, <3>3 DEF Lone
    <2>2. CASE overlap'
        BY <2>2 DEF Lone
    <2> QED  BY <2>1, <2>2
<1>8. RearCopy(t)' /\ FrontCopy(t)'
    BY <1>3, <1>5 DEF RearCopy, FrontCopy, RearCopied, FrontCopied, Moving
<1> QED  BY <1>1, <1>3, <1>4, <1>6, <1>7, <1>8, LocalInv
         DEF States, Private, Filled, Moving, Reserved

-----------------------------------------------------------------------------
(***************************************************************************)
(* Steps that move the rear                                                *)
(***************************************************************************)

\* The rear is moved from the node before the last to the last.
LEMMA MoveRearInv ==
    ASSUME IInv, ~Crashed, NEW t \in Threads, NEW s \in States,
           rear.ptr # End, rear' = [ptr |-> End, id |-> next[End]],
           pc' = [pc EXCEPT ![t] = s],
           \/ pc[t] = "enqHelpCas" /\ s = "enqPtr"
           \/ pc[t] = "enqRear" /\ s = "enqCount",
           UNCHANGED <<front, rearID, count, next, data, out, temp, change, newNode, value,
                       items, taken, overlap, calls>>
    PROVE  IInv'
<1>1. /\ TypeOK /\ pc' \in [Threads -> States] /\ pc'[t] = s
      /\ \A u \in Threads : u # t => pc'[u] = pc[u]
    BY DEF IInv, TypeOK
<1>2. End \in Nodes /\ next[End] \in Nat /\ End' = End /\ \A i : At(i)' = At(i)
    BY <1>1, QueueFacts DEF IInv, Linked, End, At
<1>3. rear'.ptr = End /\ rear'.id = next[End]
    OBVIOUS
<1>4. TypeOK'
    BY <1>1, <1>2 DEF TypeOK
<1>5. Linked'
    BY <1>2 DEF IInv, Linked
<1>6. Apart'
    <2>1. \A u \in Threads : Holds(u)' => Holds(u) /\ Mine(u)' = Mine(u)
        BY <1>1 DEF Holds, Mine, Private, Filled
    <2>2. \A i, j \in 0..Len(items) : At(i)' = At(j)' => i = j
        BY <1>2 DEF IInv, Apart
    <2>3. \A u \in Threads : Holds(u)' => Mine(u)' \in out
        BY <2>1 DEF IInv, Apart
    <2>4. \A u \in Threads : \A i \in 0..Len(items) : Holds(u)' => Mine(u)' # At(i)'
        BY <1>2, <2>1 DEF IInv, Apart
    <2>5. \A u, v \in Threads : Holds(u)' /\ Holds(v)' /\ Mine(u)' = Mine(v)' => u = v
        BY <2>1 DEF IInv, Apart
    <2> QED  BY <2>2, <2>3, <2>4, <2>5 DEF Apart
<1>7. next[rear.ptr] \notin Nat
    <2>1. next[rear.ptr] = End
        BY RearBehind
    <2> QED  BY <1>2, <2>1
<1>8. IDs'
    <2>1. ASSUME NEW n \in Nodes, next[n] \in Nat
          PROVE  n = End' \/ \E u \in Threads : pc'[u] \in Filled \cup {"crashed"}
                                                /\ newNode'[u] = n
        <3>1. n = End \/ \E u \in Threads : pc[u] \in Filled /\ newNode[u] = n
            BY <2>1 DEF IInv, IDs, Crashed
        <3>2. \A u \in Threads : pc[u] \in Filled => pc'[u] \in Filled
            BY <1>1 DEF Filled
        <3> QED  BY <1>2, <3>1, <3>2
    <2>2. rear'.id <= rearID
        BY <1>2, <1>3 DEF IInv, IDs
    <2>3. \A n \in Nodes : next[n] \in Nat /\ n # rear'.ptr => next[n] # rear'.id
        BY <1>2, <1>3 DEF IInv, IDs
    <2> QED  BY <2>1, <2>2, <2>3 DEF IInv, IDs
<1>9. RearKnown'
    BY <1>2, <1>3 DEF RearKnown
<1>10. ASSUME NEW u \in Threads PROVE RearCopy(u)'
    <2>1. CASE u = t
        BY <1>1, <2>1 DEF RearCopy, RearCopied, Moving
    <2>2. CASE u # t
        <3>1. pc[u] \in RearCopied => \A n \in Nodes : next[n] \in Nat => next[n] # temp[u].id
                                                          \/ n = rear.ptr
            BY DEF IInv, RearCopy
        <3>2. pc[u] \in RearCopied => next[End] # temp[u].id
            BY <1>2, <3>1
        <3>3. pc[u] \in RearCopied => temp[u] # rear'
            BY <1>3, <3>2
        <3>4. pc'[u] = pc[u] /\ RearCopy(u)
            BY <1>1, <2>2 DEF IInv
        <3> QED  BY <1>3, <1>7, <3>1, <3>3, <3>4 DEF RearCopy, RearCopied, Moving
    <2> QED  BY <2>1, <2>2
<1>11. ASSUME NEW u \in Threads PROVE Ready(u)' /\ FrontCopy(u)'
    <2>1. CASE u = t
        <3>1. Ready(t)'
            BY <1>1 DEF IInv, Ready, Filled
        <3>2. FrontCopy(t)'
            BY <1>1 DEF FrontCopy, FrontCopied
        <3> QED  BY <2>1, <3>1, <3>2
    <2>2. CASE u # t
        BY <1>1, <1>2, <2>2 DEF IInv, Ready, FrontCopy
    <2> QED  BY <2>1, <2>2
<1>12. Counts'
    BY SameCounts DEF Uncounted, Reserved
<1>13. Lone'
    BY LoneOther DEF InDeQ, Reserved
<1> QED  BY <1>4, <1>5, <1>6, <1>8, <1>9, <1>10, <1>11, <1>12, <1>13 DEF IInv

\* A copy of the rear that is still the rear is exchanged for the last node.
LEMMA ExchangeFacts ==
    ASSUME IInv, NEW t \in Threads, pc[t] \in {"enqHelpCas", "enqRear"}, rear = temp[t]
    PROVE  rear.ptr # End /\ change[t] = [ptr |-> End, id |-> next[End]]
<1>1. rear.ptr # End /\ change[t].ptr = End /\ change[t].id = next[End]
    BY DEF IInv, RearCopy, Moving
<1>2. change[t] \in [ptr : NodeOrNull, id : Link]
    BY ThreadFacts DEF IInv
<1>3. change[t] = [ptr |-> change[t].ptr, id |-> change[t].id]
    BY <1>2
<1> QED  BY <1>1, <1>3

\* EnQ moves the rear for another EnQ.
LEMMA EnQHelpExchangeInv ==
    ASSUME IInv, ~Crashed, NEW t \in Threads, EnQHelpExchange(t) PROVE IInv'
<1>1. /\ pc[t] = "enqHelpCas" /\ pc' = [pc EXCEPT ![t] = "enqPtr"]
      /\ rear' = IF rear = temp[t] THEN change[t] ELSE rear
      /\ UNCHANGED <<front, rearID, count, next, data, out, temp, change, newNode, value,
                     items, taken, overlap, calls>>
    BY DEF EnQHelpExchange, Exchanged, Same, Goto, locals, histories
<1>2. CASE rear = temp[t]
    <2>1. rear.ptr # End /\ rear' = [ptr |-> End, id |-> next[End]]
        BY <1>1, <1>2, ExchangeFacts
    <2> QED  BY <1>1, <2>1, MoveRearInv DEF States, Private, Filled
<1>3. CASE rear # temp[t]
    <2>1. rear' = rear /\ TypeOK
        BY <1>1, <1>3 DEF IInv
    <2>2. TypeOK' /\ pc'[t] = "enqPtr"
        BY <1>1, <2>1 DEF TypeOK, States, Private, Filled
    <2>3. Counts'
        BY <1>1, SameCounts DEF States, Private, Filled, Uncounted, Reserved
    <2>4. Lone'
        BY <1>1, LoneOther DEF InDeQ, Reserved
    <2>5. RearCopy(t)' /\ FrontCopy(t)'
        BY <2>2 DEF RearCopy, FrontCopy, RearCopied, FrontCopied, Moving
    <2> QED  BY <1>1, <2>1, <2>2, <2>3, <2>4, <2>5, LocalInv
             DEF States, Private, Filled, Moving
<1> QED  BY <1>2, <1>3

\* EnQ moves the rear to its own node.
LEMMA EnQRearInv ==
    ASSUME IInv, ~Crashed, NEW t \in Threads, EnQRear(t) PROVE IInv'
<1>1. /\ pc[t] = "enqRear" /\ pc' = [pc EXCEPT ![t] = "enqCount"]
      /\ rear' = IF rear = temp[t] THEN change[t] ELSE rear
      /\ UNCHANGED <<front, rearID, count, next, data, out, temp, change, newNode, value,
                     items, taken, overlap, calls>>
    BY DEF EnQRear, RearAfter, Exchanged, Same, Goto, locals, histories
<1>2. CASE rear = temp[t]
    <2>1. rear.ptr # End /\ rear' = [ptr |-> End, id |-> next[End]]
        BY <1>1, <1>2, ExchangeFacts
    <2> QED  BY <1>1, <2>1, MoveRearInv DEF States, Uncounted
<1>3. CASE rear # temp[t]
    <2>1. rear' = rear /\ TypeOK
        BY <1>1, <1>3 DEF IInv
    <2>2. TypeOK' /\ pc'[t] = "enqCount"
        BY <1>1, <2>1 DEF TypeOK, States, Uncounted
    <2>3. Counts'
        BY <1>1, SameCounts DEF States, Uncounted, Reserved
    <2>4. Lone'
        BY <1>1, LoneOther DEF InDeQ, Reserved
    <2>5. RearCopy(t)' /\ FrontCopy(t)'
        BY <2>2 DEF RearCopy, FrontCopy, RearCopied, FrontCopied, Moving
    <2> QED  BY <1>1, <1>3, <2>1, <2>2, <2>3, <2>4, <2>5, LocalInv
             DEF States, Private, Filled, Uncounted
<1> QED  BY <1>2, <1>3

-----------------------------------------------------------------------------
(***************************************************************************)
(* Steps that change nodes                                                 *)
(***************************************************************************)

\* Writing to a node that is neither in the queue nor in other hands, up to
\* what depends on the new contents.
LEMMA WriteNode ==
    ASSUME IInv, NEW m \in Nodes, \A i \in 0..Len(items) : m # At(i),
           \A n \in Nodes : n # m => next'[n] = next[n] /\ data'[n] = data[n],
           out \subseteq out', UNCHANGED <<front, items>>
    PROVE  /\ Linked' /\ End' = End /\ next'[End] = next[End] /\ \A i : At(i)' = At(i)
           /\ End # m /\ End \in Nodes /\ End \in out
           /\ Len(items) > 0 => At(1) \in Nodes /\ At(1) # m
<1>1. TypeOK /\ Len(items) \in Nat
    BY QueueFacts DEF IInv
<1>2. End' = End /\ \A i : At(i)' = At(i)
    BY DEF End, At
<1>3. \A n \in Nodes : n # m => next'[n] = next[n] /\ data'[n] = data[n]
    OBVIOUS
<1>4. End \in Nodes /\ End # m /\ End \in out
    <2>1. Len(items) \in 0..Len(items)
        BY <1>1
    <2> QED  BY <1>1, <2>1, QueueFacts DEF End, IInv, Linked
<1>5. \A i \in 0..Len(items) : At(i) \in Nodes /\ At(i) # m
    BY <1>1, QueueFacts
<1>6. \A i \in 1..Len(items) : /\ i \in 0..Len(items) /\ i - 1 \in 0..Len(items)
                               /\ At(i) = items[i].node
    BY <1>1, QueueFacts
<1>7. Linked'
    <2>1. \A i \in 0..Len(items) : At(i)' \in out'
        BY <1>2 DEF IInv, Linked
    <2>2. ASSUME NEW i \in 1..Len(items) PROVE next'[At(i - 1)'] = At(i)'
        <3>1. At(i - 1) \in Nodes /\ At(i - 1) # m
            BY <1>5, <1>6
        <3>2. next[At(i - 1)] = At(i)
            BY DEF IInv, Linked
        <3> QED  BY <1>2, <1>3, <3>1, <3>2
    <2>3. next'[End'] \in Nat
        BY <1>2, <1>3, <1>4 DEF IInv, Linked
    <2>4. ASSUME NEW i \in 1..Len(items) PROVE data'[items[i].node] = items[i].data
        <3>1. items[i].node \in Nodes /\ items[i].node # m
            BY <1>5, <1>6
        <3> QED  BY <1>3, <3>1 DEF IInv, Linked
    <2>5. \A i \in 1..Len(items) : next'[At(i - 1)'] = At(i)'
        BY <2>2
    <2> QED  BY <2>1, <2>3, <2>4, <2>5 DEF Linked
<1>8. Len(items) > 0 => At(1) \in Nodes /\ At(1) # m
    BY <1>1, <1>5
<1> QED  BY <1>2, <1>3, <1>4, <1>7, <1>8

\* FrontCopy of a thread after a write to a node m outside the queue.
LEMMA FrontCopyKept ==
    ASSUME IInv, NEW u \in Threads, NEW m \in Nodes,
           \A n \in Nodes : n # m => data'[n] = data[n],
           Len(items) > 0 => At(1) \in Nodes /\ At(1) # m,
           pc'[u] = pc[u], value'[u] = value[u],
           UNCHANGED <<front, items, temp, change, taken>>
    PROVE  FrontCopy(u)'
<1>1. At(1)' = At(1) /\ FrontCopy(u)
    BY DEF At, IInv
<1>2. pc[u] = "deqCas" /\ temp[u] = front => data'[change[u].ptr] = data[change[u].ptr]
    BY <1>1 DEF FrontCopy, FrontCopied
<1> QED  BY <1>1, <1>2 DEF FrontCopy

\* EnQ allocates a node.
LEMMA EnQInv ==
    ASSUME IInv, ~Crashed, NEW t \in Threads, EnQ(t) PROVE IInv'
<1>1. PICK m \in Nodes \ out : /\ out' = out \cup {m} /\ newNode' = [newNode EXCEPT ![t] = m]
                               /\ next' = [next EXCEPT ![m] = Null]
                               /\ data' = [data EXCEPT ![m] = 0]
    BY DEF EnQ
<1>2. /\ pc[t] = "idle" /\ pc' = [pc EXCEPT ![t] = "enqFill"] /\ calls' = calls + 1
      /\ value' = [value EXCEPT ![t] = calls + 1]
      /\ UNCHANGED <<front, rear, rearID, count, temp, change, items, taken, overlap>>
    BY DEF EnQ, Begin, Goto
<1>3. /\ TypeOK /\ pc \in [Threads -> States] /\ pc'[t] = "enqFill"
      /\ \A u \in Threads : u # t => pc'[u] = pc[u] /\ newNode'[u] = newNode[u]
                                     /\ value'[u] = value[u]
      /\ newNode'[t] = m
    BY <1>1, <1>2 DEF IInv, TypeOK
<1>4. \A i \in 0..Len(items) : m # At(i)
    BY DEF IInv, Linked
<1>5. Null \in Link /\ Null \notin Nat /\ 0 \in Nat
    BY DEF Link, NodeOrNull
<1>6. /\ Linked' /\ End' = End /\ next'[End] = next[End] /\ \A i : At(i)' = At(i)
      /\ next'[m] = Null
      /\ \A n \in Nodes : n # m => next'[n] = next[n] /\ data'[n] = data[n]
      /\ End # m /\ End \in Nodes
      /\ Len(items) > 0 => At(1) \in Nodes /\ At(1) # m
    <2>1. /\ next'[m] = Null
          /\ \A n \in Nodes : n # m => next'[n] = next[n] /\ data'[n] = data[n]
        BY <1>1, <1>3 DEF TypeOK
    <2>2. out \subseteq out' /\ UNCHANGED <<front, items>>
        BY <1>1, <1>2
    <2> QED  BY <1>4, <2>1, <2>2, WriteNode
<1>7. TypeOK'
    <2>1. next' \in [Nodes -> Link] /\ data' \in [Nodes -> Nat] /\ out' \subseteq Nodes
        BY <1>1, <1>3, <1>5 DEF TypeOK
    <2>2. newNode' \in [Threads -> NodeOrNull]
        BY <1>1, <1>3 DEF TypeOK, NodeOrNull
    <2>3. value' \in [Threads -> Nat] /\ calls' \in Nat
        BY <1>2, <1>3 DEF TypeOK
    <2>4. pc' \in [Threads -> States]
        BY <1>2, <1>3 DEF States, Private
    <2> QED  BY <1>2, <1>3, <2>1, <2>2, <2>3, <2>4 DEF TypeOK
<1>8. Apart'
    <2>1. Mine(t)' = m
        BY <1>3 DEF Mine, Private
    <2>2. \A u \in Threads : u # t => Holds(u)' = Holds(u) /\ Mine(u)' = Mine(u)
        BY <1>2, <1>3 DEF Holds, Mine
    <2>3. \A u \in Threads : Holds(u) => Mine(u) \in out /\ Mine(u) # m
        BY DEF IInv, Apart
    <2>4. \A i, j \in 0..Len(items) : At(i)' = At(j)' => i = j
        BY <1>6 DEF IInv, Apart
    <2>5. \A u \in Threads : Holds(u)' => Mine(u)' \in out'
        BY <1>1, <2>1, <2>2, <2>3
    <2>6. \A u \in Threads : \A i \in 0..Len(items) : Holds(u)' => Mine(u)' # At(i)'
        BY <1>4, <1>6, <2>1, <2>2 DEF IInv, Apart
    <2>7. \A u, v \in Threads : Holds(u)' /\ Holds(v)' /\ Mine(u)' = Mine(v)' => u = v
        BY <2>1, <2>2, <2>3 DEF IInv, Apart
    <2> QED  BY <1>2, <2>4, <2>5, <2>6, <2>7 DEF Apart
<1>9. \A n \in Nodes : next'[n] \in Nat => n # m /\ next[n] \in Nat /\ next'[n] = next[n]
    BY <1>5, <1>6
<1>10. IDs'
    <2>1. ASSUME NEW n \in Nodes, next'[n] \in Nat
          PROVE  n = End' \/ \E u \in Threads : pc'[u] \in Filled \cup {"crashed"}
                                                /\ newNode'[u] = n
        <3>1. n = End \/ \E u \in Threads : pc[u] \in Filled /\ newNode[u] = n
            BY <1>9, <2>1 DEF IInv, IDs, Crashed
        <3>2. \A u \in Threads : pc[u] \in Filled => u # t
            BY <1>2 DEF Filled
        <3> QED  BY <1>3, <1>6, <3>1, <3>2
    <2>2. \A n \in Nodes : next'[n] \in Nat => next'[n] <= rearID'
        BY <1>2, <1>9 DEF IInv, IDs
    <2>3. \A n, k \in Nodes : next'[n] \in Nat /\ next'[n] = next'[k] => n = k
        BY <1>9 DEF IInv, IDs
    <2>4. \A n \in Nodes : next'[n] \in Nat /\ n # rear'.ptr => next'[n] # rear'.id
        BY <1>2, <1>9 DEF IInv, IDs
    <2>5. rear'.id <= rearID'
        BY <1>2 DEF IInv, IDs
    <2> QED  BY <2>1, <2>2, <2>3, <2>4, <2>5 DEF IDs
<1>11. RearKnown'
    <2>1. CASE rear.ptr = End /\ rear.id = next[End]
        BY <1>2, <1>6, <2>1 DEF RearKnown
    <2>2. CASE /\ Len(items) > 0 /\ rear.ptr = At(Len(items) - 1)
               /\ \E u \in Threads : pc[u] \in Moving /\ temp[u] = rear /\ newNode[u] = End
        <3>1. PICK u \in Threads : pc[u] \in Moving /\ temp[u] = rear /\ newNode[u] = End
            BY <2>2
        <3>2. u # t
            BY <1>2, <3>1 DEF Moving
        <3>3. pc'[u] \in Moving /\ temp'[u] = rear' /\ newNode'[u] = End'
            BY <1>2, <1>3, <1>6, <3>1, <3>2
        <3>4. At(Len(items) - 1)' = At(Len(items) - 1)
            BY <1>2 DEF At
        <3> QED  BY <1>2, <2>2, <3>3, <3>4 DEF RearKnown
    <2> QED  BY <2>1, <2>2 DEF IInv, RearKnown
<1>12. ASSUME NEW u \in Threads PROVE Ready(u)' /\ RearCopy(u)' /\ FrontCopy(u)'
    <2>1. CASE u = t
        BY <1>3, <2>1 DEF Ready, RearCopy, FrontCopy, Filled, RearCopied, Moving, FrontCopied
    <2>2. CASE u # t
        <3>1. /\ pc'[u] = pc[u] /\ newNode'[u] = newNode[u] /\ value'[u] = value[u]
              /\ Ready(u) /\ RearCopy(u)
            BY <1>3, <2>2 DEF IInv
        <3>2. Ready(u)'
            <4>1. pc[u] \in Filled => newNode[u] \in out
                BY DEF IInv, Apart, Holds, Mine, Private
            <4>2. pc[u] \in Filled => newNode[u] \in Nodes /\ newNode[u] # m
                BY <1>3, <4>1 DEF TypeOK
            <4> QED  BY <1>6, <3>1, <4>2 DEF Ready
        <3>3. RearCopy(u)'
            BY <1>2, <1>6, <1>9, <3>1 DEF RearCopy
        <3>4. FrontCopy(u)'
            BY <1>2, <1>6, <3>1, FrontCopyKept
        <3> QED  BY <3>2, <3>3, <3>4
    <2> QED  BY <2>1, <2>2
<1>13. Counts'
    BY <1>2, SameCounts DEF States, Private, Filled, Uncounted, Reserved
<1>14. Lone'
    BY <1>2, LoneOther DEF InDeQ, Reserved
<1> QED  BY <1>6, <1>7, <1>8, <1>10, <1>11, <1>12, <1>13, <1>14 DEF IInv

\* EnQ fills its node: the ID is a new one.
LEMMA EnQFillInv ==
    ASSUME IInv, ~Crashed, NEW t \in Threads, EnQFill(t) PROVE IInv'
<1>0. PICK m, x, d : m = newNode[t] /\ x = rearID + 1 /\ d = value[t]
    OBVIOUS
<1>1. /\ pc[t] = "enqFill" /\ pc' = [pc EXCEPT ![t] = "enqPtr"] /\ rearID' = x
      /\ next' = [next EXCEPT ![m] = x] /\ data' = [data EXCEPT ![m] = d]
      /\ UNCHANGED <<front, rear, count, out, temp, change, newNode, value, items, taken,
                     overlap, calls>>
    BY <1>0 DEF EnQFill, Goto, locals, histories
<1>3. /\ TypeOK /\ pc \in [Threads -> States] /\ pc'[t] = "enqPtr" /\ rearID \in Nat
      /\ value[t] \in Nat /\ \A u \in Threads : u # t => pc'[u] = pc[u]
    BY <1>1 DEF IInv, TypeOK
<1>4. m \in Nodes /\ \A i \in 0..Len(items) : m # At(i)
    <2>1. Holds(t) /\ Mine(t) = m
        BY <1>0, <1>1 DEF Holds, Mine, Private
    <2> QED  BY <1>3, <2>1 DEF IInv, Apart, TypeOK
<1>5. x \in Nat /\ x \in Link /\ x > rearID /\ d \in Nat /\ d = value[t] /\ out \subseteq out'
    BY <1>0, <1>1, <1>3 DEF Link
<1>6. /\ Linked' /\ End' = End /\ next'[End] = next[End] /\ \A i : At(i)' = At(i)
      /\ next'[m] = x /\ data'[m] = d
      /\ \A n \in Nodes : n # m => next'[n] = next[n] /\ data'[n] = data[n]
      /\ End # m /\ End \in Nodes
      /\ Len(items) > 0 => At(1) \in Nodes /\ At(1) # m
    <2>1. /\ next'[m] = x /\ data'[m] = d
          /\ \A n \in Nodes : n # m => next'[n] = next[n] /\ data'[n] = data[n]
        BY <1>1, <1>3, <1>4 DEF TypeOK
    <2>2. out \subseteq out' /\ UNCHANGED <<front, items>>
        BY <1>1, <1>5
    <2> QED  BY <1>4, <2>1, <2>2, WriteNode
<1>7. TypeOK'
    <2>1. next' \in [Nodes -> Link] /\ data' \in [Nodes -> Nat]
        BY <1>1, <1>3, <1>5 DEF TypeOK
    <2>2. pc' \in [Threads -> States]
        BY <1>1, <1>3 DEF States, Private, Filled
    <2> QED  BY <1>1, <1>3, <1>5, <2>1, <2>2 DEF TypeOK
<1>8. Apart'
    <2>1. \A u \in Threads : Holds(u)' = Holds(u) /\ Mine(u)' = Mine(u)
        BY <1>1, <1>3 DEF Holds, Mine, Private, Filled
    <2>2. \A i, j \in 0..Len(items) : At(i)' = At(j)' => i = j
        BY <1>6 DEF IInv, Apart
    <2>3. \A u \in Threads : Holds(u)' => Mine(u)' \in out'
        BY <1>1, <2>1 DEF IInv, Apart
    <2>4. \A u \in Threads : \A i \in 0..Len(items) : Holds(u)' => Mine(u)' # At(i)'
        BY <1>6, <2>1 DEF IInv, Apart
    <2>5. \A u, v \in Threads : Holds(u)' /\ Holds(v)' /\ Mine(u)' = Mine(v)' => u = v
        BY <2>1 DEF IInv, Apart
    <2> QED  BY <1>1, <2>2, <2>3, <2>4, <2>5 DEF Apart
<1>9. \A n \in Nodes : n # m /\ next'[n] \in Nat => next[n] \in Nat /\ next'[n] = next[n]
                                                     /\ next'[n] <= rearID /\ next'[n] # x
    <2>1. \A n \in Nodes : next[n] \in Nat => next[n] <= rearID /\ next[n] # x
        <3>1. \A n \in Nodes : next[n] \in Nat => next[n] <= rearID
            BY DEF IInv, IDs
        <3> QED  BY <1>3, <1>5, <3>1
    <2> QED  BY <1>6, <2>1
<1>10. rear.id \in Nat /\ rear.id <= rearID /\ rear.id # x
    <2>1. rear.id \in Nat /\ rear.id <= rearID
        BY <1>3, QueueFacts DEF IInv, IDs
    <2> QED  BY <1>3, <1>5, <2>1
<1>11. IDs'
    <2>1. ASSUME NEW n \in Nodes, next'[n] \in Nat
          PROVE  n = End' \/ \E u \in Threads : pc'[u] \in Filled \cup {"crashed"}
                                                /\ newNode'[u] = n
        <3>1. CASE n = m
            BY <1>0, <1>1, <1>3, <3>1 DEF Filled
        <3>2. CASE n # m
            <4>1. n = End \/ \E u \in Threads : pc[u] \in Filled /\ newNode[u] = n
                BY <1>9, <2>1, <3>2 DEF IInv, IDs, Crashed
            <4>2. \A u \in Threads : pc[u] \in Filled => pc'[u] \in Filled
                BY <1>1, <1>3 DEF Filled
            <4> QED  BY <1>1, <1>6, <4>1, <4>2
        <3> QED  BY <3>1, <3>2
    <2>2. \A n \in Nodes : next'[n] \in Nat => next'[n] <= rearID'
        <3>1. \A n \in Nodes : n # m /\ next'[n] \in Nat => next'[n] <= x
            BY <1>3, <1>5, <1>9
        <3> QED  BY <1>1, <1>5, <1>6, <3>1
    <2>3. \A n, k \in Nodes : next'[n] \in Nat /\ next'[n] = next'[k] => n = k
        <3> SUFFICES ASSUME NEW n \in Nodes, NEW k \in Nodes, next'[n] \in Nat, next'[n] = next'[k]
                     PROVE  n = k
            OBVIOUS
        <3>1. CASE n # m /\ k # m
            BY <1>9, <3>1 DEF IInv, IDs
        <3>2. CASE n = m /\ k # m
            BY <1>6, <1>9, <3>2
        <3>3. CASE n # m /\ k = m
            BY <1>6, <1>9, <3>3
        <3> QED  BY <3>1, <3>2, <3>3
    <2>4. \A n \in Nodes : next'[n] \in Nat /\ n # rear'.ptr => next'[n] # rear'.id
        BY <1>1, <1>6, <1>9, <1>10 DEF IInv, IDs
    <2>5. rear'.id <= rearID'
        BY <1>1, <1>3, <1>5, <1>10
    <2> QED  BY <2>1, <2>2, <2>3, <2>4, <2>5 DEF IDs
<1>12. RearKnown'
    <2>1. CASE rear.ptr = End /\ rear.id = next[End]
        BY <1>1, <1>6, <2>1 DEF RearKnown
    <2>2. CASE /\ Len(items) > 0 /\ rear.ptr = At(Len(items) - 1)
               /\ \E u \in Threads : pc[u] \in Moving /\ temp[u] = rear /\ newNode[u] = End
        <3>1. PICK u \in Threads : pc[u] \in Moving /\ temp[u] = rear /\ newNode[u] = End
            BY <2>2
        <3>2. u # t
            BY <1>1, <3>1 DEF Moving
        <3>3. pc'[u] \in Moving /\ temp'[u] = rear' /\ newNode'[u] = End'
            BY <1>1, <1>3, <1>6, <3>1, <3>2
        <3>4. At(Len(items) - 1)' = At(Len(items) - 1)
            BY <1>1 DEF At
        <3> QED  BY <1>1, <2>2, <3>3, <3>4 DEF RearKnown
    <2> QED  BY <2>1, <2>2 DEF IInv, RearKnown
<1>13. ASSUME NEW u \in Threads PROVE Ready(u)' /\ RearCopy(u)' /\ FrontCopy(u)'
    <2>1. CASE u = t
        <3>1. Ready(t)'
            BY <1>0, <1>1, <1>5, <1>6 DEF Ready
        <3>2. RearCopy(t)' /\ FrontCopy(t)'
            BY <1>3 DEF RearCopy, FrontCopy, RearCopied, Moving, FrontCopied
        <3> QED  BY <2>1, <3>1, <3>2
    <2>2. CASE u # t
        <3>1. pc'[u] = pc[u] /\ Ready(u) /\ RearCopy(u)
            BY <1>3, <2>2 DEF IInv
        <3>2. Ready(u)'
            <4>1. pc[u] \in Filled => newNode[u] \in out /\ newNode[u] # m
                BY <1>0, <1>1, <2>2 DEF IInv, Apart, Holds, Mine, Private
            <4>2. pc[u] \in Filled => newNode[u] \in Nodes /\ newNode[u] # m
                BY <1>3, <4>1 DEF TypeOK
            <4> QED  BY <1>1, <1>6, <3>1, <4>2 DEF Ready
        <3>3. temp[u].id \in Nat /\ (pc[u] \in RearCopied => temp[u].id <= rearID)
            BY <1>3, <3>1, ThreadFacts DEF RearCopy
        <3>4. pc[u] \in RearCopied => temp[u].id <= x /\ temp[u].id # x
            BY <1>3, <1>5, <3>3
        <3>5. RearCopy(u)'
            BY <1>1, <1>6, <1>9, <3>1, <3>4 DEF RearCopy
        <3>6. FrontCopy(u)'
            BY <1>1, <1>4, <1>6, <3>1, FrontCopyKept
        <3> QED  BY <3>2, <3>5, <3>6
    <2> QED  BY <2>1, <2>2
<1>14. Counts'
    BY <1>1, SameCounts DEF States, Private, Filled, Uncounted, Reserved
<1>15. Lone'
    BY <1>1, LoneOther DEF InDeQ, Reserved
<1> QED  BY <1>6, <1>7, <1>8, <1>11, <1>12, <1>13, <1>14, <1>15 DEF IInv

\* EnQ's first exchange succeeds only on the last node, while the rear is there.
LEMMA LinkAtEnd ==
    ASSUME IInv, NEW t \in Threads, pc[t] = "enqLink", next[temp[t].ptr] = temp[t].id
    PROVE  temp[t] = rear /\ rear.ptr = End
<1>1. TypeOK
    BY DEF IInv
<1>2. temp[t] \in [ptr : NodeOrNull, id : Nat] /\ rear \in [ptr : Nodes, id : Nat]
    BY <1>1, ThreadFacts DEF TypeOK
<1>3. /\ temp[t].ptr \in Nodes
      /\ \A n \in Nodes : next[n] \in Nat /\ n # rear.ptr => next[n] # temp[t].id
    BY DEF IInv, RearCopy, RearCopied
<1>4. temp[t].ptr = rear.ptr /\ next[rear.ptr] \in Nat
    BY <1>2, <1>3
<1>5. rear.ptr = End
    <2>1. rear.ptr # End => next[rear.ptr] = End
        BY RearBehind
    <2> QED  BY <1>1, <1>4, <2>1, QueueFacts
<1>6. rear.id = next[End]
    <2>1. CASE rear.id # next[End]
        <3>1. Len(items) \in Nat /\ Len(items) > 0 /\ rear.ptr = At(Len(items) - 1)
            BY <1>1, <2>1, QueueFacts DEF IInv, RearKnown
        <3>2. Len(items) - 1 \in 0..Len(items) /\ Len(items) \in 0..Len(items)
            BY <3>1
        <3>3. Len(items) - 1 = Len(items)
            BY <1>5, <3>1, <3>2 DEF IInv, Apart, End
        <3> QED  BY <3>1, <3>3
    <2> QED  BY <2>1
<1>7. temp[t].id = rear.id
    BY <1>4, <1>5, <1>6
<1> QED  BY <1>2, <1>4, <1>5, <1>7

\* EnQ links its node behind the last one.
LEMMA EnQLinkInv ==
    ASSUME IInv, ~Crashed, NEW t \in Threads, EnQLink(t) PROVE IInv'
<1>0. PICK m, e, v, k : m = newNode[t] /\ e = End /\ v = value[t] /\ k = Len(items)
    OBVIOUS
<1>1. /\ pc[t] = "enqLink" /\ pc' = [pc EXCEPT ![t] = "enqLinked"]
      /\ next[temp[t].ptr] = temp[t].id
      /\ next' = [next EXCEPT ![temp[t].ptr] = m]
      /\ items' = Append(items, [node |-> m, data |-> v])
      /\ UNCHANGED <<front, rear, rearID, count, data, out, temp, change, newNode, value,
                     taken, overlap, calls>>
    BY <1>0 DEF EnQLink, Goto, locals
<1>2. /\ TypeOK /\ pc \in [Threads -> States] /\ pc'[t] = "enqLinked"
      /\ \A u \in Threads : u # t => pc'[u] = pc[u]
    BY <1>1 DEF IInv, TypeOK
<1>3. temp[t] = rear /\ rear.ptr = e /\ next[e] = rear.id
    BY <1>0, <1>1, LinkAtEnd
<1>4. /\ k \in Nat /\ e = At(k) /\ e \in Nodes /\ rear.id \in Nat
      /\ \A i \in 0..k : At(i) \in Nodes
      /\ \A i \in 1..k : At(i) = items[i].node
    BY <1>0, <1>2, QueueFacts DEF End
<1>5. m \in Nodes /\ m \in out /\ \A i \in 0..k : m # At(i)
    <2>1. Holds(t) /\ Mine(t) = m
        BY <1>0, <1>1 DEF Holds, Mine, Private, Filled
    <2> QED  BY <1>0, <1>2, <2>1 DEF IInv, Apart, TypeOK
<1>6. next[m] \in Nat /\ data[m] = v /\ v \in Nat
    <2>1. next[m] \in Nat /\ data[m] = v
        BY <1>0, <1>1 DEF IInv, Ready, Filled
    <2> QED  BY <1>2, <1>5, <2>1 DEF TypeOK
<1>7. /\ next'[e] = m /\ m # e /\ \A n \in Nodes : n # e => next'[n] = next[n]
      /\ next' \in [Nodes -> Link]
    <2>1. m # e
        BY <1>4, <1>5
    <2> QED  BY <1>1, <1>2, <1>3, <1>4, <1>5, <2>1 DEF TypeOK, Link, NodeOrNull
<1>8. /\ items' \in Seq(Item) /\ Len(items') = k + 1
      /\ \A i \in 1..k : items'[i] = items[i]
      /\ items'[k + 1] = [node |-> m, data |-> v]
    <2>1. items \in Seq(Item) /\ [node |-> m, data |-> v] \in Item
        BY <1>2, <1>5, <1>6 DEF TypeOK, Item
    <2> QED  BY <1>0, <1>1, <2>1, AppendFacts
<1>9. /\ \A i \in 0..k : At(i)' = At(i)
      /\ At(k + 1)' = m /\ End' = m /\ At(k)' = e
    <2>1. \A i \in 0..k : At(i)' = At(i)
        BY <1>1, <1>4, <1>8 DEF At
    <2>2. At(k + 1)' = m
        BY <1>4, <1>8 DEF At
    <2>3. End' = m
        BY <1>8, <2>2 DEF End
    <2> QED  BY <1>4, <2>1, <2>2, <2>3
<1>10. \A i \in 0..k : At(i) = e => i = k
    BY <1>0, <1>4 DEF IInv, Apart
<1>11. TypeOK'
    <2>1. pc' \in [Threads -> States]
        BY <1>1, <1>2 DEF States, Uncounted
    <2> QED  BY <1>1, <1>2, <1>7, <1>8, <2>1 DEF TypeOK
<1>12. \A i \in 0..(k + 1) : i \in 0..k \/ i = k + 1
    BY <1>4
<1>13. Linked'
    <2>1. \A i \in 0..(k + 1) : At(i)' \in out'
        <3>1. \A i \in 0..k : At(i) \in out
            BY <1>0 DEF IInv, Linked
        <3> QED  BY <1>1, <1>5, <1>9, <1>12, <3>1
    <2>2. ASSUME NEW i \in 1..(k + 1) PROVE next'[At(i - 1)'] = At(i)'
        <3>1. CASE i = k + 1
            BY <1>4, <1>7, <1>9, <3>1
        <3>2. CASE i # k + 1
            <4>1. i \in 1..k /\ i \in 0..k /\ i - 1 \in 0..k /\ i - 1 # k
                BY <1>4, <3>2
            <4>2. At(i - 1)' = At(i - 1) /\ At(i - 1) \in Nodes /\ At(i - 1) # e
                BY <1>4, <1>9, <1>10, <4>1
            <4>3. next[At(i - 1)] = At(i)
                BY <1>0, <4>1 DEF IInv, Linked
            <4> QED  BY <1>7, <1>9, <4>1, <4>2, <4>3
        <3> QED  BY <3>1, <3>2
    <2>3. \A i \in 1..(k + 1) : next'[At(i - 1)'] = At(i)'
        BY <2>2
    <2>4. next'[End'] \in Nat
        BY <1>5, <1>6, <1>7, <1>9
    <2>5. ASSUME NEW i \in 1..(k + 1) PROVE data'[items'[i].node] = items'[i].data
        <3>1. CASE i = k + 1
            BY <1>1, <1>6, <1>8, <3>1
        <3>2. CASE i # k + 1
            <4>1. i \in 1..k
                BY <1>4, <3>2
            <4> QED  BY <1>0, <1>1, <1>8, <4>1 DEF IInv, Linked
        <3> QED  BY <3>1, <3>2
    <2>6. \A i \in 1..(k + 1) : data'[items'[i].node] = items'[i].data
        BY <2>5
    <2> QED  BY <1>8, <2>1, <2>3, <2>4, <2>6 DEF Linked
<1>14. \A u \in Threads : Holds(u)' => u # t /\ Holds(u) /\ Mine(u)' = Mine(u)
    BY <1>1, <1>2 DEF Holds, Mine, Private, Filled
<1>15. \A u \in Threads : Holds(u) /\ u # t => Mine(u) # m /\ \A i \in 0..k : Mine(u) # At(i)
    <2>1. Holds(t) /\ Mine(t) = m
        BY <1>0, <1>1 DEF Holds, Mine, Private, Filled
    <2> QED  BY <1>0, <2>1 DEF IInv, Apart
<1>16. Apart'
    <2>1. ASSUME NEW i \in 0..(k + 1), NEW j \in 0..(k + 1), At(i)' = At(j)' PROVE i = j
        <3>1. CASE i \in 0..k /\ j \in 0..k
            BY <1>0, <1>9, <2>1, <3>1 DEF IInv, Apart
        <3>2. CASE i \in 0..k /\ j = k + 1
            BY <1>5, <1>9, <2>1, <3>2
        <3>3. CASE i = k + 1 /\ j \in 0..k
            BY <1>5, <1>9, <2>1, <3>3
        <3> QED  BY <1>12, <3>1, <3>2, <3>3
    <2>2. \A i, j \in 0..(k + 1) : At(i)' = At(j)' => i = j
        BY <2>1
    <2>3. \A u \in Threads : Holds(u)' => Mine(u)' \in out'
        BY <1>1, <1>14 DEF IInv, Apart
    <2>4. \A u \in Threads : \A i \in 0..(k + 1) : Holds(u)' => Mine(u)' # At(i)'
        BY <1>9, <1>12, <1>14, <1>15
    <2>5. \A u, w \in Threads : Holds(u)' /\ Holds(w)' /\ Mine(u)' = Mine(w)' => u = w
        BY <1>14 DEF IInv, Apart
    <2> QED  BY <1>8, <2>2, <2>3, <2>4, <2>5 DEF Apart
<1>17. \A n \in Nodes : next'[n] \in Nat => n # e /\ next[n] \in Nat /\ next'[n] = next[n]
    BY <1>5, <1>7
<1>18. IDs'
    <2>1. ASSUME NEW n \in Nodes, next'[n] \in Nat
          PROVE  n = End' \/ \E u \in Threads : pc'[u] \in Filled \cup {"crashed"}
                                                /\ newNode'[u] = n
        <3>1. PICK u \in Threads : pc[u] \in Filled /\ newNode[u] = n
            BY <1>0, <1>17, <2>1 DEF IInv, IDs, Crashed
        <3>2. CASE u = t
            BY <1>0, <1>9, <3>1, <3>2
        <3>3. CASE u # t
            BY <1>1, <1>2, <3>1, <3>3
        <3> QED  BY <3>2, <3>3
    <2>2. \A n \in Nodes : next'[n] \in Nat => next'[n] <= rearID'
        BY <1>1, <1>17 DEF IInv, IDs
    <2>3. \A n, j \in Nodes : next'[n] \in Nat /\ next'[n] = next'[j] => n = j
        BY <1>17 DEF IInv, IDs
    <2>4. \A n \in Nodes : next'[n] \in Nat /\ n # rear'.ptr => next'[n] # rear'.id
        BY <1>1, <1>17 DEF IInv, IDs
    <2>5. rear'.id <= rearID'
        BY <1>1 DEF IInv, IDs
    <2> QED  BY <2>1, <2>2, <2>3, <2>4, <2>5 DEF IDs
<1>19. RearKnown'
    <2>1. pc'[t] \in Moving /\ temp'[t] = rear' /\ newNode'[t] = End'
        BY <1>0, <1>1, <1>2, <1>3, <1>9 DEF Moving
    <2>2. Len(items') > 0 /\ Len(items') - 1 = k
        BY <1>4, <1>8
    <2>3. rear'.ptr = At(Len(items) - 1)'
        BY <1>1, <1>3, <1>9, <2>2
    <2> QED  BY <2>1, <2>2, <2>3 DEF RearKnown
<1>20. ASSUME NEW u \in Threads PROVE RearCopy(u)'
    <2>1. CASE u = t
        <3>1. /\ temp[t].ptr \in Nodes /\ temp[t].id <= rearID
              /\ \A n \in Nodes : next[n] \in Nat /\ n # rear.ptr => next[n] # temp[t].id
            BY <1>1 DEF IInv, RearCopy, RearCopied
        <3>2. \A n \in Nodes : next'[n] \in Nat /\ n # rear.ptr => next'[n] # temp[t].id
            BY <1>17, <3>1
        <3>3. rear.ptr # End' /\ newNode'[t] = End' /\ newNode'[t] \in Nodes
            BY <1>0, <1>1, <1>3, <1>5, <1>7, <1>9
        <3> QED  BY <1>1, <1>2, <2>1, <3>1, <3>2, <3>3 DEF RearCopy, Moving
    <2>2. CASE u # t
        <3>1. pc'[u] = pc[u] /\ RearCopy(u)
            BY <1>2, <2>2 DEF IInv
        <3>2. temp[u] = rear => pc[u] \notin Moving \cup {"enqHelpNext", "enqHelpCas"}
            BY <1>0, <1>3, <3>1 DEF RearCopy
        <3> QED  BY <1>1, <1>17, <3>1, <3>2 DEF RearCopy, Moving
    <2> QED  BY <2>1, <2>2
<1>21. ASSUME NEW u \in Threads PROVE Ready(u)' /\ FrontCopy(u)'
    <2>1. CASE u = t
        BY <1>2, <2>1 DEF Ready, FrontCopy, Filled, FrontCopied
    <2>2. CASE u # t
        <3>1. pc'[u] = pc[u] /\ Ready(u) /\ FrontCopy(u)
            BY <1>2, <2>2 DEF IInv
        <3>2. Ready(u)'
            <4>1. pc[u] \in Filled => Holds(u) /\ Mine(u) = newNode[u]
                BY DEF Holds, Mine, Private
            <4>2. pc[u] \in Filled => newNode[u] # e /\ newNode[u] \in out
                BY <1>4, <1>15, <2>2, <4>1 DEF IInv, Apart
            <4>3. pc[u] \in Filled => newNode[u] \in Nodes
                BY <1>2, <4>2 DEF TypeOK
            <4> QED  BY <1>1, <1>7, <3>1, <4>2, <4>3 DEF Ready
        <3>3. FrontCopy(u)'
            <4>1. temp[u] = front /\ pc[u] \in FrontCopied => Len(items') > 0 /\ At(1)' = At(1)
                <5>1. temp[u] = front /\ pc[u] \in FrontCopied => k > 0
                    BY <1>0, <3>1 DEF FrontCopy
                <5>2. k > 0 => 1 \in 0..k
                    BY <1>4
                <5> QED  BY <1>4, <1>8, <1>9, <5>1, <5>2
            <4> QED  BY <1>1, <3>1, <4>1 DEF FrontCopy, FrontCopied
        <3> QED  BY <3>2, <3>3
    <2> QED  BY <2>1, <2>2
<1>22. Counts'
    <2>1. In(Uncounted)' = In(Uncounted) + 1
        BY <1>1, <1>2, MoveIn DEF Uncounted
    <2>2. In(Reserved)' = In(Reserved) /\ In({"deqFail"})' = In({"deqFail"})
        BY <1>1, <1>2, MoveWithin DEF Reserved
    <2>3. In(Uncounted) \in Nat /\ In(Reserved) \in Nat /\ In({"deqFail"}) \in Nat /\ count \in Int
        BY <1>2, InNat DEF TypeOK
    <2>4. /\ count = k - In(Uncounted) - In(Reserved) - In({"deqFail"})
          /\ count + In({"deqFail"}) >= 0
        BY <1>0 DEF IInv, Counts
    <2>5. /\ count' = Len(items') - In(Uncounted)' - In(Reserved)' - In({"deqFail"})'
          /\ count' + In({"deqFail"})' >= 0
        BY <1>1, <1>4, <1>8, <2>1, <2>2, <2>3, <2>4
    <2> QED  BY <2>5 DEF Counts
<1>23. Lone'
    BY <1>1, LoneOther DEF InDeQ, Reserved
<1> QED  BY <1>11, <1>13, <1>16, <1>18, <1>19, <1>20, <1>21, <1>22, <1>23 DEF IInv

\* DeQ's exchange moves the front to the first item, which is not the last node
\* while the rear is behind.
LEMMA DeQExchangeInv ==
    ASSUME IInv, ~Crashed, NEW t \in Threads, DeQExchange(t) PROVE IInv'
<1>0. PICK k, f, e : k = Len(items) /\ f = front.ptr /\ e = End
    OBVIOUS
<1>1. /\ pc[t] = "deqCas" /\ pc' = [pc EXCEPT ![t] = "deqFree"] /\ front = temp[t]
      /\ front' = change[t] /\ taken' = [taken EXCEPT ![t] = Head(items).data]
      /\ items' = Tail(items)
      /\ UNCHANGED <<rear, rearID, count, next, data, out, temp, change, newNode, value,
                     overlap, calls>>
    BY DEF DeQExchange, Same, Goto, locals
<1>2. /\ TypeOK /\ pc \in [Threads -> States] /\ pc'[t] = "deqFree"
      /\ \A u \in Threads : u # t => pc'[u] = pc[u]
    BY <1>1 DEF IInv, TypeOK
<1>3. /\ k \in Nat /\ k > 0 /\ At(0) = f /\ e = At(k) /\ e \in Nodes
      /\ \A i \in 0..k : At(i) \in Nodes
      /\ \A i \in 1..k : At(i) = items[i].node
      /\ front.id \in Nat
    BY <1>0, <1>1, <1>2, QueueFacts, Enough DEF End, Reserved
<1>4. /\ change[t].ptr = At(1) /\ change[t].id = front.id + 1 /\ value[t] = data[At(1)]
    BY <1>1 DEF IInv, FrontCopy
<1>5. /\ items' \in Seq(Item) /\ Len(items') = k - 1
      /\ \A i \in 1..(k - 1) : items'[i] = items[i + 1]
      /\ Head(items) = items[1]
    BY <1>0, <1>1, <1>2, <1>3, TailFacts DEF TypeOK
<1>6. /\ front'.ptr = At(1) /\ front'.id = front.id + 1 /\ front' \in [ptr : Nodes, id : Nat]
    <2>1. change[t] \in [ptr : NodeOrNull, id : Link] /\ At(1) \in Nodes
        BY <1>2, <1>3, ThreadFacts
    <2>2. change[t] = [ptr |-> At(1), id |-> front.id + 1]
        BY <1>4, <2>1
    <2> QED  BY <1>1, <1>3, <1>4, <2>1, <2>2
<1>7. /\ \A i \in 0..(k - 1) : At(i)' = At(i + 1)
      /\ End' = e
    <2>1. ASSUME NEW i \in 0..(k - 1) PROVE At(i)' = At(i + 1)
        <3>1. CASE i = 0
            BY <1>6, <3>1 DEF At
        <3>2. CASE i # 0
            <4>1. i \in 1..(k - 1) /\ i + 1 \in 1..k /\ i + 1 # 0
                BY <1>3, <3>2
            <4> QED  BY <1>5, <3>2, <4>1 DEF At
        <3> QED  BY <3>1, <3>2
    <2>2. k - 1 \in 0..(k - 1) /\ (k - 1) + 1 = k
        BY <1>3
    <2>3. End' = At(k - 1)'
        BY <1>5 DEF End
    <2>4. At(k - 1)' = At((k - 1) + 1)
        BY <2>1, <2>2
    <2> QED  BY <1>3, <2>1, <2>2, <2>3, <2>4
<1>8. TypeOK'
    <2>1. taken' \in [Threads -> Nat]
        <3>1. Head(items).data \in Nat
            BY <1>0, <1>2, <1>3, <1>5, QueueFacts
        <3> QED  BY <1>1, <1>2, <3>1 DEF TypeOK
    <2>2. pc' \in [Threads -> States]
        BY <1>1, <1>2 DEF States
    <2> QED  BY <1>1, <1>2, <1>5, <1>6, <2>1, <2>2 DEF TypeOK
<1>9. Linked'
    <2>1. \A i \in 0..(k - 1) : At(i)' \in out'
        <3>1. \A i \in 0..k : At(i) \in out
            BY <1>0 DEF IInv, Linked
        <3>2. \A i \in 0..(k - 1) : i + 1 \in 0..k
            BY <1>3
        <3> QED  BY <1>1, <1>7, <3>1, <3>2
    <2>2. ASSUME NEW i \in 1..(k - 1) PROVE next'[At(i - 1)'] = At(i)'
        <3>1. i \in 0..(k - 1) /\ i - 1 \in 0..(k - 1) /\ i + 1 \in 1..k
              /\ (i - 1) + 1 = i /\ (i + 1) - 1 = i
            BY <1>3
        <3>2. next[At((i + 1) - 1)] = At(i + 1)
            BY <1>0, <3>1 DEF IInv, Linked
        <3>3. At(i - 1)' = At((i - 1) + 1) /\ At(i)' = At(i + 1)
            BY <1>7, <3>1
        <3> QED  BY <1>1, <3>1, <3>2, <3>3
    <2>3. next'[End'] \in Nat
        BY <1>0, <1>1, <1>7 DEF IInv, Linked
    <2>4. ASSUME NEW i \in 1..(k - 1) PROVE data'[items'[i].node] = items'[i].data
        <3>1. i + 1 \in 1..k
            BY <1>3
        <3> QED  BY <1>0, <1>1, <1>5, <3>1 DEF IInv, Linked
    <2>5. \A i \in 1..(k - 1) : next'[At(i - 1)'] = At(i)'
        BY <2>2
    <2>6. \A i \in 1..(k - 1) : data'[items'[i].node] = items'[i].data
        BY <2>4
    <2> QED  BY <1>5, <2>1, <2>3, <2>5, <2>6 DEF Linked
<1>10. Holds(t)' /\ Mine(t)' = f /\ ~Holds(t)
    BY <1>0, <1>1, <1>2 DEF Holds, Mine, Private, Filled
<1>11. \A u \in Threads : u # t => Holds(u)' = Holds(u) /\ Mine(u)' = Mine(u)
    BY <1>1, <1>2 DEF Holds, Mine
<1>12. \A i \in 0..(k - 1) : i + 1 \in 0..k /\ i + 1 # 0 /\ At(i + 1) # f
    <2>1. \A i \in 0..(k - 1) : i + 1 \in 0..k /\ i + 1 # 0
        BY <1>3
    <2>2. 0 \in 0..k
        BY <1>3
    <2> QED  BY <1>0, <1>3, <2>1, <2>2 DEF IInv, Apart
<1>13. \A u \in Threads : Holds(u) => Mine(u) \in out /\ \A i \in 0..k : Mine(u) # At(i)
    BY <1>0 DEF IInv, Apart
<1>14. Apart'
    <2>1. ASSUME NEW i \in 0..(k - 1), NEW j \in 0..(k - 1), At(i)' = At(j)' PROVE i = j
        <3>1. At(i + 1) = At(j + 1)
            BY <1>7, <2>1
        <3>2. i + 1 = j + 1
            BY <1>0, <1>12, <3>1 DEF IInv, Apart
        <3> QED  BY <3>2
    <2>2. \A i, j \in 0..(k - 1) : At(i)' = At(j)' => i = j
        BY <2>1
    <2>3. 0 \in 0..k /\ f \in out
        BY <1>0, <1>3 DEF IInv, Linked
    <2>4. \A u \in Threads : Holds(u)' => Mine(u)' \in out'
        BY <1>1, <1>10, <1>11, <1>13, <2>3
    <2>5. \A u \in Threads : \A i \in 0..(k - 1) : Holds(u)' => Mine(u)' # At(i)'
        BY <1>7, <1>10, <1>11, <1>12, <1>13
    <2>6. \A u \in Threads : u # t /\ Holds(u)' => Mine(u)' # f
        BY <1>3, <1>11, <1>13, <2>3
    <2>7. \A u, w \in Threads : Holds(u)' /\ Holds(w)' /\ Mine(u)' = Mine(w)' => u = w
        BY <1>10, <1>11, <2>6 DEF IInv, Apart
    <2> QED  BY <1>5, <2>2, <2>4, <2>5, <2>7 DEF Apart
<1>15. IDs'
    <2>1. ASSUME NEW n \in Nodes, next[n] \in Nat
          PROVE  n = End' \/ \E u \in Threads : pc'[u] \in Filled \cup {"crashed"}
                                                /\ newNode'[u] = n
        <3>1. n = e \/ \E u \in Threads : pc[u] \in Filled /\ newNode[u] = n
            BY <1>0, <2>1 DEF IInv, IDs, Crashed
        <3>2. \A u \in Threads : pc[u] \in Filled => pc'[u] \in Filled
            BY <1>1, <1>2 DEF Filled
        <3> QED  BY <1>1, <1>7, <3>1, <3>2
    <2> QED  BY <1>1, <2>1 DEF IInv, IDs
<1>16. \A u \in Threads : pc[u] \in Moving => pc'[u] = pc[u] /\ k > 1
    <2>1. \A u \in Threads : pc[u] \in Uncounted => k > 1
        BY <1>0, <1>1, Enough DEF Reserved
    <2> QED  BY <1>1, <1>2, <2>1 DEF Moving, Uncounted
<1>17. RearKnown'
    <2>1. CASE rear.ptr = End /\ rear.id = next[End]
        BY <1>0, <1>1, <1>7, <2>1 DEF RearKnown
    <2>2. CASE /\ Len(items) > 0 /\ rear.ptr = At(Len(items) - 1)
               /\ \E u \in Threads : pc[u] \in Moving /\ temp[u] = rear /\ newNode[u] = End
        <3>1. PICK u \in Threads : pc[u] \in Moving /\ temp[u] = rear /\ newNode[u] = End
            BY <2>2
        <3>2. k > 1 /\ pc'[u] \in Moving /\ temp'[u] = rear' /\ newNode'[u] = End'
            BY <1>0, <1>1, <1>7, <1>16, <3>1
        <3>3. k - 2 \in 0..(k - 1) /\ (k - 2) + 1 = k - 1 /\ (k - 1) - 1 = k - 2 /\ k - 1 > 0
            BY <1>3, <3>2
        <3>4. At(k - 2)' = At(k - 1)
            BY <1>7, <3>3
        <3>5. Len(items') > 0 /\ rear'.ptr = At(Len(items) - 1)'
            BY <1>0, <1>1, <1>5, <2>2, <3>3, <3>4
        <3> QED  BY <3>2, <3>5 DEF RearKnown
    <2> QED  BY <2>1, <2>2 DEF IInv, RearKnown
<1>18. ASSUME NEW u \in Threads PROVE Ready(u)' /\ RearCopy(u)'
    <2>1. CASE u = t
        BY <1>2, <2>1 DEF Ready, RearCopy, Filled, RearCopied, Moving
    <2>2. CASE u # t
        <3>1. pc'[u] = pc[u] /\ Ready(u) /\ RearCopy(u)
            BY <1>2, <2>2 DEF IInv
        <3> QED  BY <1>0, <1>1, <1>7, <3>1 DEF Ready, RearCopy
    <2> QED  BY <2>1, <2>2
<1>19. ASSUME NEW u \in Threads PROVE FrontCopy(u)'
    <2>1. CASE u = t
        <3>1. taken'[t] = items[1].data /\ data[At(1)] = items[1].data
            <4>1. 1 \in 1..k /\ At(1) = items[1].node
                BY <1>3
            <4>2. data[items[1].node] = items[1].data
                BY <1>0, <4>1 DEF IInv, Linked
            <4> QED  BY <1>1, <1>2, <1>5, <4>1, <4>2 DEF TypeOK
        <3> QED  BY <1>1, <1>2, <1>4, <2>1, <3>1 DEF FrontCopy, FrontCopied
    <2>2. CASE u # t
        <3>1. pc'[u] = pc[u] /\ FrontCopy(u) /\ taken'[u] = taken[u] /\ temp[u].id \in Nat
            BY <1>1, <1>2, <2>2, ThreadFacts DEF IInv, TypeOK
        <3>2. pc[u] \in FrontCopied => temp[u].id <= front'.id /\ temp[u] # front'
            <4>1. pc[u] \in FrontCopied => temp[u].id <= front.id
                BY <3>1 DEF FrontCopy
            <4> QED  BY <1>3, <1>6, <3>1, <4>1
        <3> QED  BY <1>1, <3>1, <3>2 DEF FrontCopy, FrontCopied
    <2> QED  BY <2>1, <2>2
<1>20. Counts'
    <2>1. In(Reserved)' = In(Reserved) - 1
        BY <1>1, <1>2, MoveOut DEF Reserved
    <2>2. In(Uncounted)' = In(Uncounted) /\ In({"deqFail"})' = In({"deqFail"})
        BY <1>1, <1>2, MoveWithin DEF Uncounted
    <2>3. In(Uncounted) \in Nat /\ In(Reserved) \in Nat /\ In({"deqFail"}) \in Nat /\ count \in Int
        BY <1>2, InNat DEF TypeOK
    <2>4. /\ count = k - In(Uncounted) - In(Reserved) - In({"deqFail"})
          /\ count + In({"deqFail"}) >= 0
        BY <1>0 DEF IInv, Counts
    <2>5. /\ count' = Len(items') - In(Uncounted)' - In(Reserved)' - In({"deqFail"})'
          /\ count' + In({"deqFail"})' >= 0
        BY <1>1, <1>3, <1>5, <2>1, <2>2, <2>3, <2>4
    <2> QED  BY <2>5 DEF Counts
<1>21. Lone'
    <2>1. CASE ~overlap
        <3>1. pc[t] \in InDeQ
            BY <1>1 DEF InDeQ, Reserved
        <3>2. \A u \in Threads : u # t => pc[u] \notin InDeQ
            BY <2>1, <3>1 DEF IInv, Lone
        <3>3. \A u \in Threads : /\ u # t => pc'[u] \notin InDeQ
                                 /\ pc'[u] # "deqId" /\ pc'[u] \notin FrontCopied
            BY <1>2, <3>2 DEF InDeQ, Reserved, FrontCopied
        <3> QED  BY <1>1, <3>3 DEF Lone
    <2>2. CASE overlap
        BY <1>1, <2>2 DEF Lone
    <2> QED  BY <2>1, <2>2
<1> QED  BY <1>8, <1>9, <1>14, <1>15, <1>17, <1>18, <1>19, <1>20, <1>21 DEF IInv

\* DeQ frees the old front node and returns.
LEMMA DeQFreeInv ==
    ASSUME IInv, ~Crashed, NEW t \in Threads, DeQFree(t) PROVE IInv'
<1>0. PICK f : f = temp[t].ptr
    OBVIOUS
<1>1. /\ pc[t] = "deqFree" /\ out' = out \ {f} /\ Return(t)
      /\ UNCHANGED <<front, rear, rearID, count, next, data, items, overlap, calls>>
    BY <1>0 DEF DeQFree
<1>2. TypeOK
    BY DEF IInv
<1>3. /\ pc' = [pc EXCEPT ![t] = "idle"] /\ pc'[t] = "idle"
      /\ \A u \in Threads : u # t =>
            /\ temp'[u] = temp[u] /\ change'[u] = change[u] /\ newNode'[u] = newNode[u]
            /\ value'[u] = value[u] /\ taken'[u] = taken[u] /\ pc'[u] = pc[u]
      /\ RearCopy(t)' /\ FrontCopy(t)'
    BY <1>1, <1>2, ReturnFacts
<1>4. TypeOK'
    <2>1. /\ pc' \in [Threads -> States]
          /\ temp' \in [Threads -> [ptr : NodeOrNull, id : Nat]]
          /\ change' \in [Threads -> [ptr : NodeOrNull, id : Link]]
          /\ newNode' \in [Threads -> NodeOrNull]
          /\ value' \in [Threads -> Nat] /\ taken' \in [Threads -> Nat]
        BY <1>1, <1>2, ReturnFacts
    <2> QED  BY <1>1, <1>2, <2>1 DEF TypeOK
<1>5. End' = End /\ \A i : At(i)' = At(i)
    BY <1>1 DEF End, At
<1>6. Holds(t) /\ Mine(t) = f /\ ~Holds(t)'
    BY <1>0, <1>1, <1>3 DEF Holds, Mine, Private, Filled
<1>7. /\ \A i \in 0..Len(items) : At(i) # f
      /\ \A u \in Threads : u # t /\ Holds(u) => Mine(u) # f /\ Mine(u) \in out
    BY <1>6 DEF IInv, Apart
<1>8. Linked'
    <2>1. \A i \in 0..Len(items) : At(i)' \in out'
        BY <1>1, <1>5, <1>7 DEF IInv, Linked
    <2>2. \A i \in 1..Len(items) : next'[At(i - 1)'] = At(i)'
        BY <1>1, <1>5 DEF IInv, Linked
    <2>3. next'[End'] \in Nat /\ \A i \in 1..Len(items) : data'[items'[i].node] = items'[i].data
        BY <1>1, <1>5 DEF IInv, Linked
    <2> QED  BY <1>1, <2>1, <2>2, <2>3 DEF Linked
<1>9. Apart'
    <2>1. \A u \in Threads : Holds(u)' => u # t /\ Holds(u) /\ Mine(u)' = Mine(u)
        BY <1>3, <1>6 DEF Holds, Mine
    <2>2. \A i, j \in 0..Len(items) : At(i)' = At(j)' => i = j
        BY <1>5 DEF IInv, Apart
    <2>3. \A u \in Threads : Holds(u)' => Mine(u)' \in out'
        BY <1>1, <1>7, <2>1
    <2>4. \A u \in Threads : \A i \in 0..Len(items) : Holds(u)' => Mine(u)' # At(i)'
        BY <1>5, <2>1 DEF IInv, Apart
    <2>5. \A u, w \in Threads : Holds(u)' /\ Holds(w)' /\ Mine(u)' = Mine(w)' => u = w
        BY <2>1 DEF IInv, Apart
    <2> QED  BY <1>1, <2>2, <2>3, <2>4, <2>5 DEF Apart
<1>10. IDs'
    <2>1. ASSUME NEW n \in Nodes, next[n] \in Nat
          PROVE  n = End' \/ \E u \in Threads : pc'[u] \in Filled \cup {"crashed"}
                                                /\ newNode'[u] = n
        <3>1. n = End \/ \E u \in Threads : pc[u] \in Filled /\ newNode[u] = n
            BY <2>1 DEF IInv, IDs, Crashed
        <3>2. \A u \in Threads : pc[u] \in Filled => u # t
            BY <1>1 DEF Filled
        <3> QED  BY <1>3, <1>5, <3>1, <3>2
    <2> QED  BY <1>1, <2>1 DEF IInv, IDs
<1>11. RearKnown'
    <2>1. CASE rear.ptr = End /\ rear.id = next[End]
        BY <1>1, <1>5, <2>1 DEF RearKnown
    <2>2. CASE /\ Len(items) > 0 /\ rear.ptr = At(Len(items) - 1)
               /\ \E u \in Threads : pc[u] \in Moving /\ temp[u] = rear /\ newNode[u] = End
        <3>1. PICK u \in Threads : pc[u] \in Moving /\ temp[u] = rear /\ newNode[u] = End
            BY <2>2
        <3>2. u # t
            BY <1>1, <3>1 DEF Moving
        <3>3. pc'[u] \in Moving /\ temp'[u] = rear' /\ newNode'[u] = End'
            BY <1>1, <1>3, <1>5, <3>1, <3>2
        <3>4. At(Len(items) - 1)' = At(Len(items) - 1)
            BY <1>1 DEF At
        <3> QED  BY <1>1, <2>2, <3>3, <3>4 DEF RearKnown
    <2> QED  BY <2>1, <2>2 DEF IInv, RearKnown
<1>12. ASSUME NEW u \in Threads PROVE Ready(u)' /\ RearCopy(u)' /\ FrontCopy(u)'
    <2>1. CASE u = t
        <3>1. Ready(t)'
            BY <1>3 DEF Ready, Filled
        <3> QED  BY <1>3, <2>1, <3>1
    <2>2. CASE u # t
        BY <1>1, <1>3, <2>2, CopiesKept DEF IInv
    <2> QED  BY <2>1, <2>2
<1>13. Counts'
    BY <1>1, <1>3, SameCounts DEF States, Uncounted, Reserved
<1>14. Lone'
    BY <1>1, <1>3, LoneOther DEF InDeQ, Reserved
<1> QED  BY <1>4, <1>8, <1>9, <1>10, <1>11, <1>12, <1>13, <1>14 DEF IInv

-----------------------------------------------------------------------------
(***************************************************************************)
(* The invariant holds, and implies the properties                         *)
(***************************************************************************)

LEMMA InitInv == Init => IInv
<1> SUFFICES ASSUME Init PROVE IInv
    OBVIOUS
<1>1. PICK dummy \in Nodes :
         /\ front = [ptr |-> dummy, id |-> 0] /\ rear = [ptr |-> dummy, id |-> 0]
         /\ next = [n \in Nodes |-> IF n = dummy THEN 0 ELSE Null]
         /\ out = {dummy}
    BY DEF Init
<1>2. /\ rearID = 0 /\ count = 0 /\ data = [n \in Nodes |-> 0]
      /\ pc = [t \in Threads |-> "idle"] /\ items = <<>>
      /\ overlap = FALSE /\ calls = 0
    BY DEF Init
<1>3. TypeOK
    <2>1. NoCheck \in [ptr : NodeOrNull, id : Nat] /\ NoCheck \in [ptr : NodeOrNull, id : Link]
        BY DEF NoCheck, NodeOrNull, Link
    <2>2. /\ temp \in [Threads -> [ptr : NodeOrNull, id : Nat]]
          /\ change \in [Threads -> [ptr : NodeOrNull, id : Link]]
        BY <2>1 DEF Init
    <2>3. /\ newNode \in [Threads -> NodeOrNull] /\ value \in [Threads -> Nat]
          /\ taken \in [Threads -> Nat]
        BY DEF Init, NodeOrNull
    <2>4. next \in [Nodes -> Link] /\ data \in [Nodes -> Nat] /\ out \subseteq Nodes
        BY <1>1, <1>2 DEF Link, NodeOrNull
    <2>5. pc \in [Threads -> States]
        BY <1>2 DEF States
    <2>6. front \in [ptr : Nodes, id : Nat] /\ rear \in [ptr : Nodes, id : Nat]
        BY <1>1
    <2>7. items \in Seq(Item) /\ overlap \in BOOLEAN
        BY <1>2
    <2> QED  BY <1>2, <2>2, <2>3, <2>4, <2>5, <2>6, <2>7 DEF TypeOK
<1>4. Len(items) = 0 /\ End = dummy /\ At(0) = dummy
    BY <1>1, <1>2 DEF End, At
<1>5. /\ next[dummy] = 0 /\ \A n \in Nodes : next[n] \in Nat => n = dummy
    BY <1>1
<1>6. \A i \in 0..Len(items) : i = 0
    BY <1>4
<1>7. Linked
    <2>1. \A i \in 0..Len(items) : At(i) \in out
        BY <1>1, <1>4, <1>6
    <2>2. \A i \in 1..Len(items) : FALSE
        BY <1>4
    <2> QED  BY <1>4, <1>5, <2>1, <2>2 DEF Linked
<1>8. \A t \in Threads : pc[t] = "idle"
    BY <1>2
<1>9. Apart
    BY <1>6, <1>8 DEF Apart, Holds, Private, Filled
<1>10. IDs
    <2>1. rear.ptr = dummy /\ rear.id = 0
        BY <1>1
    <2> QED  BY <1>2, <1>4, <1>5, <2>1 DEF IDs
<1>11. RearKnown
    BY <1>1, <1>4, <1>5 DEF RearKnown
<1>12. \A t \in Threads : Ready(t) /\ RearCopy(t) /\ FrontCopy(t)
    BY <1>8 DEF Ready, RearCopy, FrontCopy, Filled, RearCopied, Moving, FrontCopied
<1>13. Counts
    <2>1. ASSUME NEW S, "idle" \notin S PROVE In(S) = 0
        <3>1. {t \in Threads : pc[t] \in S} = {}
            BY <1>8, <2>1
        <3> QED  BY <3>1, FS_EmptySet DEF In
    <2>2. In(Uncounted) = 0 /\ In(Reserved) = 0 /\ In({"deqFail"}) = 0
        BY <2>1 DEF Uncounted, Reserved
    <2> QED  BY <1>2, <1>4, <2>2 DEF Counts
<1>14. Lone
    BY <1>8 DEF Lone, InDeQ, Reserved, FrontCopied
<1> QED  BY <1>3, <1>7, <1>9, <1>10, <1>11, <1>12, <1>13, <1>14 DEF IInv

LEMMA NextInv == IInv /\ [Next]_vars => IInv'
<1> SUFFICES ASSUME IInv, [Next]_vars PROVE IInv'
    OBVIOUS
<1>1. CASE Next
    <2>1. PICK t \in Threads : Call(t) \/ Step(t)
        BY <1>1 DEF Next
    <2>2. ~Crashed
        BY <1>1 DEF Next
    <2>3. CASE Call(t)
        BY <2>2, <2>3, EnQInv, DeQInv DEF Call
    <2>4. CASE EnQFill(t) \/ EnQReadPtr(t) \/ EnQReadID(t) \/ EnQLink(t) \/ EnQLinkFails(t)
        BY <2>2, <2>4, EnQFillInv, EnQReadPtrInv, EnQReadIDInv, EnQLinkInv, EnQLinkFailsInv
    <2>5. CASE EnQHelp(t) \/ EnQHelpNext(t) \/ EnQHelpExchange(t)
        BY <2>2, <2>5, EnQHelpInv, EnQHelpNextInv, EnQHelpExchangeInv
    <2>6. CASE EnQReadNext(t) \/ EnQRear(t) \/ EnQCount(t)
        BY <2>2, <2>6, EnQReadNextInv, EnQRearInv, EnQCountInv
    <2>7. CASE DeQFail(t) \/ DeQReadPtr(t) \/ DeQReadID(t) \/ DeQReadNext(t)
        BY <2>2, <2>7, DeQFailInv, DeQReadPtrInv, DeQReadIDInv, DeQReadNextInv
    <2>8. CASE DeQData(t) \/ DeQExchange(t) \/ DeQRetry(t) \/ DeQFree(t)
        BY <2>2, <2>8, DeQDataInv, DeQExchangeInv, DeQRetryInv, DeQFreeInv
    <2> QED  BY <2>1, <2>3, <2>4, <2>5, <2>6, <2>7, <2>8 DEF Step
<1>2. CASE UNCHANGED vars
    <2>1. UNCHANGED <<front, rear, rearID, count, next, data, out, pc, temp, change, newNode,
                      value, items, taken, overlap, calls>>
        BY <1>2 DEF vars, queueVars, locals, histories
    <2>2. End' = End /\ (\A i : At(i)' = At(i)) /\ Crashed' = Crashed
          /\ \A S : In(S)' = In(S)
        BY <2>1 DEF End, At, Crashed, In
    <2>3. TypeOK' /\ Linked' /\ IDs'
        BY <2>1, <2>2 DEF IInv, TypeOK, Linked, IDs
    <2>4. Apart'
        <3>1. \A t \in Threads : Holds(t)' = Holds(t) /\ Mine(t)' = Mine(t)
            BY <2>1 DEF Holds, Mine
        <3> QED  BY <2>1, <2>2, <3>1 DEF IInv, Apart
    <2>5. RearKnown' /\ Counts' /\ Lone'
        BY <2>1, <2>2 DEF IInv, RearKnown, Counts, Lone
    <2>6. ASSUME NEW t \in Threads PROVE Ready(t)' /\ RearCopy(t)' /\ FrontCopy(t)'
        BY <2>1, CopiesKept DEF IInv
    <2> QED  BY <2>3, <2>4, <2>5, <2>6 DEF IInv
<1> QED  BY <1>1, <1>2

\* IInv is an invariant of every behaviour of the queue.
THEOREM Invariance == Spec => []IInv
BY InitInv, NextInv, PTL DEF Spec

\* The nodes of Chain are the nodes At.
LEMMA ChainFacts ==
    ASSUME TypeOK
    PROVE  /\ Len(items) \in Nat /\ Len(Chain) = Len(items) + 1
           /\ \A i \in 1..(Len(items) + 1) : Chain[i] = At(i - 1)
<1> DEFINE q == [i \in 1..Len(items) |-> items[i].node]
<1>1. Len(items) \in Nat /\ front.ptr \in Nodes
      /\ \A i \in 1..Len(items) : items[i].node \in Nodes
    BY QueueFacts
<1>2. q \in Seq(Nodes) /\ Len(q) = Len(items) /\ \A i \in 1..Len(items) : q[i] = items[i].node
    BY <1>1
<1> HIDE DEF q
<1>3. <<front.ptr>> \in Seq(Nodes) /\ Len(<<front.ptr>>) = 1 /\ <<front.ptr>>[1] = front.ptr
    BY <1>1
<1>4. Chain = <<front.ptr>> \o q
    BY DEF Chain, q
<1>5. Len(Chain) = Len(items) + 1
    BY <1>1, <1>2, <1>3, <1>4
<1>6. ASSUME NEW i \in 1..(Len(items) + 1) PROVE Chain[i] = At(i - 1)
    <2>1. CASE i = 1
        BY <1>1, <1>2, <1>3, <1>4, <2>1 DEF At
    <2>2. CASE i # 1
        <3>1. i - 1 \in 1..Len(items) /\ i - 1 # 0
            BY <1>1, <2>2
        <3>2. Chain[i] = q[i - 1]
            BY <1>1, <1>2, <1>3, <1>4, <2>2, <3>1
        <3> QED  BY <1>2, <3>1, <3>2 DEF At
    <2> QED  BY <2>1, <2>2
<1> QED  BY <1>1, <1>5, <1>6

LEMMA IInvQueueLinked == IInv => QueueLinked
<1> SUFFICES ASSUME IInv PROVE QueueLinked
    OBVIOUS
<1>1. /\ Len(items) \in Nat /\ Len(Chain) = Len(items) + 1
      /\ \A i \in 1..(Len(items) + 1) : Chain[i] = At(i - 1)
    BY ChainFacts DEF IInv
<1>2. ASSUME NEW i \in 1..Len(Chain)
      PROVE  /\ Chain[i] \in out
             /\ IF i < Len(Chain) THEN next[Chain[i]] = Chain[i + 1]
                                  ELSE next[Chain[i]] \in Kernel
    <2>1. i \in 1..(Len(items) + 1) /\ i - 1 \in 0..Len(items) /\ Chain[i] = At(i - 1)
        BY <1>1
    <2>2. Chain[i] \in out
        BY <2>1 DEF IInv, Linked
    <2>3. CASE i < Len(Chain)
        <3>1. i \in 1..Len(items) /\ i + 1 \in 1..(Len(items) + 1) /\ (i + 1) - 1 = i
            BY <1>1, <2>1, <2>3
        <3>2. Chain[i + 1] = At(i)
            BY <1>1, <3>1
        <3>3. next[At(i - 1)] = At(i)
            BY <3>1 DEF IInv, Linked
        <3> QED  BY <2>1, <2>2, <2>3, <3>2, <3>3
    <2>4. CASE ~(i < Len(Chain))
        <3>1. i - 1 = Len(items)
            BY <1>1, <2>1, <2>4
        <3>2. next[Chain[i]] \in Nat
            BY <2>1, <3>1 DEF IInv, Linked, End
        <3> QED  BY <2>2, <2>4, <3>2 DEF Kernel
    <2> QED  BY <2>3, <2>4
<1>3. \A i \in 1..Len(items) : data[items[i].node] = items[i].data
    BY DEF IInv, Linked
<1> QED  BY <1>2, <1>3 DEF QueueLinked

LEMMA IInvRearNear == IInv => RearNear
<1> SUFFICES ASSUME IInv PROVE RearNear
    OBVIOUS
<1>1. /\ Len(items) \in Nat /\ Len(Chain) = Len(items) + 1
      /\ \A i \in 1..(Len(items) + 1) : Chain[i] = At(i - 1)
    BY ChainFacts DEF IInv
<1>2. Chain[Len(Chain)] = End
    <2>1. Len(Chain) \in 1..(Len(items) + 1) /\ Len(Chain) - 1 = Len(items)
        BY <1>1
    <2> QED  BY <1>1, <2>1 DEF End
<1>3. CASE rear.ptr = End /\ rear.id = next[End]
    <2>1. rear = [ptr |-> rear.ptr, id |-> rear.id]
        BY DEF IInv, TypeOK
    <2> QED  BY <1>2, <1>3, <2>1 DEF RearNear
<1>4. CASE /\ Len(items) > 0 /\ rear.ptr = At(Len(items) - 1)
           /\ \E t \in Threads : pc[t] \in Moving /\ temp[t] = rear /\ newNode[t] = End
    <2>1. /\ Len(items) \in 1..(Len(items) + 1) /\ Len(Chain) - 1 = Len(items)
          /\ Len(Chain) > 1
        BY <1>1, <1>4
    <2>2. rear.ptr = Chain[Len(Chain) - 1]
        BY <1>1, <1>4, <2>1
    <2> QED  BY <1>4, <2>1, <2>2 DEF RearNear, Moving
<1> QED  BY <1>3, <1>4 DEF IInv, RearKnown

LEMMA IInvReservedThere == IInv => ReservedThere
<1> SUFFICES ASSUME IInv, NEW t \in Threads, pc[t] = "deqNext", temp[t] = front \/ ~overlap
             PROVE  next[temp[t].ptr] \in Nodes
    BY DEF ReservedThere
<1>1. temp[t] = front
    BY DEF IInv, Lone, FrontCopied
<1>2. Len(items) > 0
    BY <1>1 DEF IInv, FrontCopy, FrontCopied
<1> QED  BY <1>1, <1>2, FrontLink

\* The chain of nodes behind m_frontCheck is intact and holds exactly the items
\* that were enqueued and not dequeued, whatever EnQ and DeQ do in parallel.
THEOREM LinksHold == Spec => []QueueLinked
BY Invariance, IInvQueueLinked, PTL

\* m_rearCheck is never more than one node behind, and never a node that was
\* given back to m_memoryPool.
THEOREM RearStaysNear == Spec => []RearNear
BY Invariance, IInvRearNear, PTL

\* DeQ returns the data of the item that its exchange took off the queue.
THEOREM ReturnsFirst == Spec => []TakesFirst
<1>1. IInv => TakesFirst
    BY DEF IInv, FrontCopy, TakesFirst
<1> QED  BY <1>1, Invariance, PTL

\* A DeQ that m_count let in finds a node behind an up-to-date front, and its
\* copy of the front is up to date while calls of DeQ do not overlap.
THEOREM ReservationKept == Spec => []ReservedThere
BY Invariance, IInvReservedThere, PTL

\* m_count differs from the number of items by the calls that are under way.
THEOREM CountsRight == Spec => []CountExact
<1>1. IInv => CountExact
    BY DEF IInv, Counts, CountExact, Uncounted
<1> QED  BY <1>1, Invariance, PTL

=============================================================================
