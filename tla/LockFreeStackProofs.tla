------------------------ MODULE LockFreeStackProofs -------------------------
(***************************************************************************)
(* Proofs about LockFreeStack, for any number of threads, nodes and calls. *)
(*                                                                         *)
(* IInv is the inductive invariant.  Counts explains m_count: it is the    *)
(* length of the stack less the Pops that hold a reservation or are about  *)
(* to give one back and the Pushes that have not counted yet, so a Pop     *)
(* with a reservation finds a node.  CopiesKnown is what m_checkID is for: *)
(* an exchange that succeeds has seen the stack as it is.                  *)
(***************************************************************************)
EXTENDS LockFreeStack, FiniteSetTheorems, TLAPS

NodeOrNull == Nodes \cup {Null}
TopCheck == [ptr : NodeOrNull, id : Int]
Item == [node : Nodes, data : Nat]

\* Push owns the node it fills, until its exchange.
PushStates == {"pushPtr", "pushId", "pushLink", "pushCas"}

\* Pop got past its test of m_count and has not taken its node yet.
Reserving == {"popPtr", "popId", "popNext", "popCas"}

\* Pop took its node off the stack and has not freed it yet.
PopOwning == {"popData", "popFree"}

\* m_count and the stack differ by the threads in these states.
Uncounted == Reserving \cup {"popFail", "pushCount"}

States == {"idle"} \cup PushStates \cup PopOwning \cup Uncounted

Holds(t) == pc[t] \in PushStates \cup PopOwning

\* The node that t alone may touch.
Mine(t) == IF pc[t] \in PushStates THEN node[t] ELSE tempTop[t].ptr

\* The number of threads that are in a state of S.
At(S) == {t \in Threads : pc[t] \in S}

\* The variables have the types their declarations give them.
TypeOK ==
    /\ top \in TopCheck
    /\ count \in Int
    /\ next \in [Nodes -> NodeOrNull]
    /\ data \in [Nodes -> Nat]
    /\ out \subseteq Nodes
    /\ pc \in [Threads -> States]
    /\ tempTop \in [Threads -> TopCheck]
    /\ seen \in [Threads -> NodeOrNull]
    /\ node \in [Threads -> NodeOrNull]
    /\ result \in [Threads -> Nat]
    /\ items \in Seq(Item)
    /\ taken \in [Threads -> Nat]
    /\ calls \in Nat

\* No node is in two places: on the stack twice, in the hands of two threads,
\* or on the stack and in the hands of a thread.
NodesApart ==
    /\ \A i, j \in 1..Len(items) : items[i].node = items[j].node => i = j
    /\ \A t \in Threads : Holds(t) => Mine(t) \in out
    /\ \A t \in Threads : \A i \in 1..Len(items) :
          Holds(t) => Mine(t) # items[i].node
    /\ \A t, u \in Threads : Holds(t) /\ Holds(u) /\ Mine(t) = Mine(u) => t = u

\* A copy of the top is not newer than the top; if it equals the top, nothing
\* has changed since it was made, and the link that was read is still right.
CopiesKnown ==
    \A t \in Threads :
       /\ pc[t] \in {"pushLink", "pushCas", "popNext", "popCas"} =>
             tempTop[t].id <= top.id
       /\ pc[t] = "popCas" /\ tempTop[t] = top => seen[t] = next[tempTop[t].ptr]
       /\ pc[t] = "pushCas" => next[node[t]] = tempTop[t].ptr
       /\ pc[t] = "popData" => data[tempTop[t].ptr] = taken[t]

\* m_count lags behind the stack by the threads between their two updates, and
\* there is an item for every reservation.
Counts ==
    /\ count + Cardinality(At(Uncounted)) = Len(items)
    /\ Cardinality(At(Reserving)) <= Len(items)

\* The inductive invariant.
IInv == /\ TypeOK /\ NodesApart /\ StackLinked /\ CopiesKnown /\ Counts
        /\ TopThere /\ PopsTop

-----------------------------------------------------------------------------
USE StackAssumption

\* Only the empty sequence has no elements.
LEMMA EmptyFacts ==
    ASSUME NEW S, NEW s \in Seq(S)
    PROVE  (s = <<>>) <=> (Len(s) = 0)
OBVIOUS

\* Taking the first element off a sequence.
LEMMA TailFacts ==
    ASSUME NEW S, NEW s \in Seq(S), Len(s) > 0
    PROVE  /\ Tail(s) \in Seq(S) /\ Len(Tail(s)) = Len(s) - 1
           /\ \A i \in 1..(Len(s) - 1) : Tail(s)[i] = s[i + 1]
           /\ Head(s) = s[1]
OBVIOUS

\* Putting an element in front of a sequence.
LEMMA ConsFacts ==
    ASSUME NEW S, NEW s \in Seq(S), NEW x \in S
    PROVE  /\ <<x>> \o s \in Seq(S) /\ Len(<<x>> \o s) = Len(s) + 1
           /\ (<<x>> \o s)[1] = x
           /\ \A i \in 2..(Len(s) + 1) : (<<x>> \o s)[i] = s[i - 1]
           /\ <<x>> \o s # <<>>
OBVIOUS

\* A thread that enters a state of S is one more there ...
LEMMA MoveIn ==
    ASSUME pc \in [Threads -> States], NEW t \in Threads, NEW S, NEW s \in S,
           pc' = [pc EXCEPT ![t] = s], pc[t] \notin S
    PROVE  Cardinality(At(S)) \in Nat /\ Cardinality(At(S)') = Cardinality(At(S)) + 1
<1>1. IsFiniteSet(At(S)) /\ Cardinality(At(S)) \in Nat
    BY FS_Subset, FS_CardinalityType DEF At
<1>2. At(S)' = At(S) \cup {t} /\ t \notin At(S)
    BY DEF At
<1> QED  BY <1>1, <1>2, FS_AddElement

\* ... one that leaves S is one less ...
LEMMA MoveOut ==
    ASSUME pc \in [Threads -> States], NEW t \in Threads, NEW S, NEW s, s \notin S,
           pc' = [pc EXCEPT ![t] = s], pc[t] \in S
    PROVE  Cardinality(At(S)) \in Nat /\ Cardinality(At(S)') = Cardinality(At(S)) - 1
<1>1. IsFiniteSet(At(S)) /\ Cardinality(At(S)) \in Nat
    BY FS_Subset, FS_CardinalityType DEF At
<1>2. At(S)' = At(S) \ {t} /\ t \in At(S)
    BY DEF At
<1> QED  BY <1>1, <1>2, FS_RemoveElement

\* ... and any other leaves the number alone.
LEMMA MoveWithin ==
    ASSUME pc \in [Threads -> States], NEW t \in Threads, NEW S, NEW s,
           pc' = [pc EXCEPT ![t] = s], s \in S <=> pc[t] \in S
    PROVE  At(S)' = At(S)
BY DEF At

\* There are not more reservations than threads that m_count lags behind by, and
\* a thread with a reservation is one of them.
LEMMA ReservingCard ==
    ASSUME pc \in [Threads -> States]
    PROVE  /\ Cardinality(At(Reserving)) \in Nat
           /\ Cardinality(At(Uncounted)) \in Nat
           /\ Cardinality(At(Reserving)) <= Cardinality(At(Uncounted))
           /\ \A t \in Threads : pc[t] \in Reserving => Cardinality(At(Reserving)) > 0
<1>1. At(Reserving) \subseteq At(Uncounted) /\ At(Uncounted) \subseteq Threads
    BY DEF At, Uncounted
<1>2. IsFiniteSet(At(Uncounted)) /\ IsFiniteSet(At(Reserving))
    BY <1>1, FS_Subset
<1>3. /\ Cardinality(At(Reserving)) \in Nat /\ Cardinality(At(Uncounted)) \in Nat
      /\ Cardinality(At(Reserving)) <= Cardinality(At(Uncounted))
    BY <1>1, <1>2, FS_Subset, FS_CardinalityType
<1>4. ASSUME NEW t \in Threads, pc[t] \in Reserving PROVE Cardinality(At(Reserving)) > 0
    <2>1. t \in At(Reserving)
        BY <1>4 DEF At
    <2>2. Cardinality(At(Reserving)) # 0
        BY <2>1, <1>2, FS_EmptySet
    <2> QED  BY <1>3, <2>2
<1> QED  BY <1>3, <1>4

\* A Pop with a reservation finds a node on top, whatever the others do.
LEMMA ReservedTop ==
    ASSUME IInv, NEW t \in Threads, pc[t] \in Reserving
    PROVE  /\ Len(items) \in Nat /\ Len(items) > 0 /\ items # <<>>
           /\ top.ptr = items[1].node /\ top.ptr \in Nodes /\ top.ptr # Null
<1> USE DEF IInv
<1>1. Cardinality(At(Reserving)) \in Nat /\ Cardinality(At(Reserving)) > 0
    BY ReservingCard DEF TypeOK
<1>2. Len(items) \in Nat /\ Len(items) > 0 /\ (items = <<>> <=> Len(items) = 0)
    BY <1>1, EmptyFacts DEF Counts, TypeOK
<1>3. top.ptr = items[1].node
    BY <1>2 DEF StackLinked
<1>4. items[1] \in Item
    BY <1>2 DEF TypeOK
<1> QED  BY <1>2, <1>3, <1>4 DEF Item

\* A thread that leaves the stack and the nodes in hand alone.
LEMMA FrameInv ==
    ASSUME IInv, UNCHANGED <<top, next, data, out, items>>,
           \A u \in Threads : Holds(u)' = Holds(u),
           \A u \in Threads : Holds(u) => Mine(u)' = Mine(u)
    PROVE  NodesApart' /\ StackLinked'
<1>1. NodesApart'
    BY DEF IInv, NodesApart
<1>2. StackLinked'
    BY DEF IInv, StackLinked
<1> QED  BY <1>1, <1>2

\* A thread that moves between states that count alike.
LEMMA SameCounts ==
    ASSUME IInv, UNCHANGED <<count, items>>, NEW t \in Threads, NEW s \in States,
           pc' = [pc EXCEPT ![t] = s],
           s \in Reserving <=> pc[t] \in Reserving,
           s \in Uncounted <=> pc[t] \in Uncounted
    PROVE  Counts'
<1>1. pc \in [Threads -> States]
    BY DEF IInv, TypeOK
<1>2. At(Reserving)' = At(Reserving) /\ At(Uncounted)' = At(Uncounted)
    BY <1>1, MoveWithin
<1> QED  BY <1>2 DEF Counts, IInv

-----------------------------------------------------------------------------
\* The empty stack satisfies the invariant.
LEMMA InitInv == Init => IInv
<1> SUFFICES ASSUME Init PROVE IInv
    OBVIOUS
<1>1. TypeOK
    BY DEF Init, TypeOK, TopCheck, NodeOrNull, States, NoTop
<1>2. At(Uncounted) = {} /\ At(Reserving) = {}
    BY DEF Init, At, Uncounted, Reserving
<1>3. Counts
    <2>1. Len(items) = 0 /\ count = 0
        BY DEF Init
    <2> QED  BY <1>2, <2>1, FS_EmptySet DEF Counts
<1>4. NodesApart /\ StackLinked
    BY DEF Init, NodesApart, StackLinked, Holds, PushStates, PopOwning, NoTop
<1>5. CopiesKnown /\ TopThere /\ PopsTop
    BY DEF Init, CopiesKnown, TopThere, PopsTop
<1> QED  BY <1>1, <1>3, <1>4, <1>5 DEF IInv

-----------------------------------------------------------------------------
(***************************************************************************)
(* Steps that only copy shared memory into the locals of a thread.         *)
(***************************************************************************)

\* Push reading m_topPtr.
LEMMA PushReadPtrInv == ASSUME IInv, NEW t \in Threads, PushReadPtr(t) PROVE IInv'
<1>0. /\ pc[t] = "pushPtr" /\ pc' = [pc EXCEPT ![t] = "pushId"]
      /\ tempTop' = [tempTop EXCEPT ![t].ptr = top.ptr]
      /\ UNCHANGED <<top, count, next, data, out, seen, node,
                      result, items, taken, calls>>
    BY DEF PushReadPtr, Goto, ReadPtr, ReadID, Same, histories, locals
<1> USE DEF IInv
<1>1. TypeOK'
    BY <1>0 DEF TypeOK, TopCheck, NodeOrNull, States, PushStates, Reserving,
           PopOwning, Uncounted
<1>2. \A u \in Threads : Holds(u)' = Holds(u) /\ (Holds(u) => Mine(u)' = Mine(u))
    BY <1>0 DEF TypeOK, TopCheck, Holds, Mine, PushStates, PopOwning
<1>3. NodesApart' /\ StackLinked'
    BY <1>0, <1>2, FrameInv
<1>4. CopiesKnown'
    BY <1>0 DEF CopiesKnown, TypeOK, TopCheck
<1>5. Counts'
    BY <1>0, SameCounts DEF States, PushStates, Reserving, PopOwning, Uncounted
<1>6. TopThere' /\ PopsTop'
    BY <1>0 DEF TopThere, PopsTop, TypeOK, TopCheck
<1> QED  BY <1>1, <1>3, <1>4, <1>5, <1>6

\* Push reading m_checkID.
LEMMA PushReadIDInv == ASSUME IInv, NEW t \in Threads, PushReadID(t) PROVE IInv'
<1>0. /\ pc[t] = "pushId" /\ pc' = [pc EXCEPT ![t] = "pushLink"]
      /\ tempTop' = [tempTop EXCEPT ![t].id = top.id]
      /\ UNCHANGED <<top, count, next, data, out, seen, node,
                      result, items, taken, calls>>
    BY DEF PushReadID, Goto, ReadPtr, ReadID, Same, histories, locals
<1> USE DEF IInv
<1>1. TypeOK'
    BY <1>0 DEF TypeOK, TopCheck, NodeOrNull, States, PushStates, Reserving,
           PopOwning, Uncounted
<1>2. \A u \in Threads : Holds(u)' = Holds(u) /\ (Holds(u) => Mine(u)' = Mine(u))
    BY <1>0 DEF TypeOK, TopCheck, Holds, Mine, PushStates, PopOwning
<1>3. NodesApart' /\ StackLinked'
    BY <1>0, <1>2, FrameInv
<1>4. CopiesKnown'
    BY <1>0 DEF CopiesKnown, TypeOK, TopCheck
<1>5. Counts'
    BY <1>0, SameCounts DEF States, PushStates, Reserving, PopOwning, Uncounted
<1>6. TopThere' /\ PopsTop'
    BY <1>0 DEF TopThere, PopsTop, TypeOK, TopCheck
<1> QED  BY <1>1, <1>3, <1>4, <1>5, <1>6

\* Push's exchange failing.
LEMMA PushRetryInv == ASSUME IInv, NEW t \in Threads, PushRetry(t) PROVE IInv'
<1>0. /\ pc[t] = "pushCas" /\ pc' = [pc EXCEPT ![t] = "pushLink"]
      /\ tempTop' = [tempTop EXCEPT ![t] = top]
      /\ UNCHANGED <<top, count, next, data, out, seen, node,
                      result, items, taken, calls>>
    BY DEF PushRetry, Goto, ReadPtr, ReadID, Same, histories, locals
<1> USE DEF IInv
<1>1. TypeOK'
    BY <1>0 DEF TypeOK, TopCheck, NodeOrNull, States, PushStates, Reserving,
           PopOwning, Uncounted
<1>2. \A u \in Threads : Holds(u)' = Holds(u) /\ (Holds(u) => Mine(u)' = Mine(u))
    BY <1>0 DEF TypeOK, TopCheck, Holds, Mine, PushStates, PopOwning
<1>3. NodesApart' /\ StackLinked'
    BY <1>0, <1>2, FrameInv
<1>4. CopiesKnown'
    BY <1>0 DEF CopiesKnown, TypeOK, TopCheck
<1>5. Counts'
    BY <1>0, SameCounts DEF States, PushStates, Reserving, PopOwning, Uncounted
<1>6. TopThere' /\ PopsTop'
    BY <1>0 DEF TopThere, PopsTop, TypeOK, TopCheck
<1> QED  BY <1>1, <1>3, <1>4, <1>5, <1>6

\* Pop reading m_topPtr: with its reservation it finds a node.
LEMMA PopReadPtrInv == ASSUME IInv, NEW t \in Threads, PopReadPtr(t) PROVE IInv'
<1>0. /\ pc[t] = "popPtr" /\ pc' = [pc EXCEPT ![t] = "popId"]
      /\ tempTop' = [tempTop EXCEPT ![t].ptr = top.ptr]
      /\ UNCHANGED <<top, count, next, data, out, seen, node,
                      result, items, taken, calls>>
    BY DEF PopReadPtr, Goto, ReadPtr, ReadID, Same, histories, locals
<1>b. top.ptr \in Nodes /\ top.ptr # Null
    BY <1>0, ReservedTop DEF Reserving
<1> USE DEF IInv
<1>1. TypeOK'
    BY <1>0 DEF TypeOK, TopCheck, NodeOrNull, States, PushStates, Reserving,
           PopOwning, Uncounted
<1>2. \A u \in Threads : Holds(u)' = Holds(u) /\ (Holds(u) => Mine(u)' = Mine(u))
    BY <1>0 DEF TypeOK, TopCheck, Holds, Mine, PushStates, PopOwning
<1>3. NodesApart' /\ StackLinked'
    BY <1>0, <1>2, FrameInv
<1>4. CopiesKnown'
    BY <1>0, <1>b DEF CopiesKnown, TypeOK, TopCheck
<1>5. Counts'
    BY <1>0, SameCounts DEF States, PushStates, Reserving, PopOwning, Uncounted
<1>6. TopThere' /\ PopsTop'
    BY <1>0, <1>b DEF TopThere, PopsTop, TypeOK, TopCheck
<1> QED  BY <1>1, <1>3, <1>4, <1>5, <1>6

\* Pop reading m_checkID.
LEMMA PopReadIDInv == ASSUME IInv, NEW t \in Threads, PopReadID(t) PROVE IInv'
<1>0. /\ pc[t] = "popId" /\ pc' = [pc EXCEPT ![t] = "popNext"]
      /\ tempTop' = [tempTop EXCEPT ![t].id = top.id]
      /\ UNCHANGED <<top, count, next, data, out, seen, node,
                      result, items, taken, calls>>
    BY DEF PopReadID, Goto, ReadPtr, ReadID, Same, histories, locals
<1> USE DEF IInv
<1>1. TypeOK'
    BY <1>0 DEF TypeOK, TopCheck, NodeOrNull, States, PushStates, Reserving,
           PopOwning, Uncounted
<1>2. \A u \in Threads : Holds(u)' = Holds(u) /\ (Holds(u) => Mine(u)' = Mine(u))
    BY <1>0 DEF TypeOK, TopCheck, Holds, Mine, PushStates, PopOwning
<1>3. NodesApart' /\ StackLinked'
    BY <1>0, <1>2, FrameInv
<1>4. CopiesKnown'
    BY <1>0 DEF CopiesKnown, TypeOK, TopCheck
<1>5. Counts'
    BY <1>0, SameCounts DEF States, PushStates, Reserving, PopOwning, Uncounted
<1>6. TopThere' /\ PopsTop'
    BY <1>0 DEF TopThere, PopsTop, TypeOK, TopCheck
<1> QED  BY <1>1, <1>3, <1>4, <1>5, <1>6

\* Pop reading the link of the node it believes to be the top.
LEMMA PopReadNextInv == ASSUME IInv, NEW t \in Threads, PopReadNext(t) PROVE IInv'
<1>0. /\ pc[t] = "popNext" /\ pc' = [pc EXCEPT ![t] = "popCas"]
      /\ seen' = [seen EXCEPT ![t] = next[tempTop[t].ptr]]
      /\ UNCHANGED <<top, count, next, data, out, tempTop, node,
                      result, items, taken, calls>>
    BY DEF PopReadNext, Goto, ReadPtr, ReadID, Same, histories, locals
<1> USE DEF IInv
<1>b. tempTop[t].ptr \in Nodes
    BY <1>0 DEF TopThere, TypeOK, TopCheck, NodeOrNull
<1>1. TypeOK'
    BY <1>0, <1>b DEF TypeOK, TopCheck, NodeOrNull, States, PushStates, Reserving,
           PopOwning, Uncounted
<1>2. \A u \in Threads : Holds(u)' = Holds(u) /\ (Holds(u) => Mine(u)' = Mine(u))
    BY <1>0 DEF TypeOK, TopCheck, Holds, Mine, PushStates, PopOwning
<1>3. NodesApart' /\ StackLinked'
    BY <1>0, <1>2, FrameInv
<1>4. CopiesKnown'
    BY <1>0 DEF CopiesKnown, TypeOK, TopCheck
<1>5. Counts'
    BY <1>0, SameCounts DEF States, PushStates, Reserving, PopOwning, Uncounted
<1>6. TopThere' /\ PopsTop'
    BY <1>0 DEF TopThere, PopsTop, TypeOK, TopCheck
<1> QED  BY <1>1, <1>3, <1>4, <1>5, <1>6

\* Pop's exchange failing.
LEMMA PopRetryInv == ASSUME IInv, NEW t \in Threads, PopRetry(t) PROVE IInv'
<1>0. /\ pc[t] = "popCas" /\ pc' = [pc EXCEPT ![t] = "popNext"]
      /\ tempTop' = [tempTop EXCEPT ![t] = top]
      /\ UNCHANGED <<top, count, next, data, out, seen, node,
                      result, items, taken, calls>>
    BY DEF PopRetry, Goto, ReadPtr, ReadID, Same, histories, locals
<1>b. top.ptr \in Nodes /\ top.ptr # Null
    BY <1>0, ReservedTop DEF Reserving
<1> USE DEF IInv
<1>1. TypeOK'
    BY <1>0 DEF TypeOK, TopCheck, NodeOrNull, States, PushStates, Reserving,
           PopOwning, Uncounted
<1>2. \A u \in Threads : Holds(u)' = Holds(u) /\ (Holds(u) => Mine(u)' = Mine(u))
    BY <1>0 DEF TypeOK, TopCheck, Holds, Mine, PushStates, PopOwning
<1>3. NodesApart' /\ StackLinked'
    BY <1>0, <1>2, FrameInv
<1>4. CopiesKnown'
    BY <1>0, <1>b DEF CopiesKnown, TypeOK, TopCheck
<1>5. Counts'
    BY <1>0, SameCounts DEF States, PushStates, Reserving, PopOwning, Uncounted
<1>6. TopThere' /\ PopsTop'
    BY <1>0, <1>b DEF TopThere, PopsTop, TypeOK, TopCheck
<1> QED  BY <1>1, <1>3, <1>4, <1>5, <1>6

\* Pop reading the data of the node it took.
LEMMA PopDataInv == ASSUME IInv, NEW t \in Threads, PopData(t) PROVE IInv'
<1>0. /\ pc[t] = "popData" /\ pc' = [pc EXCEPT ![t] = "popFree"]
      /\ result' = [result EXCEPT ![t] = data[tempTop[t].ptr]]
      /\ UNCHANGED <<top, count, next, data, out, tempTop, seen, node,
                      items, taken, calls>>
    BY DEF PopData, Goto, ReadPtr, ReadID, Same, histories, locals
<1> USE DEF IInv
<1>b. tempTop[t].ptr \in Nodes
    BY <1>0 DEF NodesApart, TypeOK, Holds, Mine, PushStates, PopOwning
<1>1. TypeOK'
    BY <1>0, <1>b DEF TypeOK, TopCheck, NodeOrNull, States, PushStates, Reserving,
           PopOwning, Uncounted
<1>2. \A u \in Threads : Holds(u)' = Holds(u) /\ (Holds(u) => Mine(u)' = Mine(u))
    BY <1>0 DEF TypeOK, TopCheck, Holds, Mine, PushStates, PopOwning
<1>3. NodesApart' /\ StackLinked'
    BY <1>0, <1>2, FrameInv
<1>4. CopiesKnown'
    BY <1>0 DEF CopiesKnown, TypeOK, TopCheck
<1>5. Counts'
    BY <1>0, SameCounts DEF States, PushStates, Reserving, PopOwning, Uncounted
<1>6. TopThere' /\ PopsTop'
    BY <1>0 DEF TopThere, PopsTop, CopiesKnown, TypeOK, TopCheck
<1> QED  BY <1>1, <1>3, <1>4, <1>5, <1>6

-----------------------------------------------------------------------------
(***************************************************************************)
(* Steps that update m_count.                                              *)
(***************************************************************************)

\* Pop reserving an element: past the test there is an item without one.
LEMMA PopInv == ASSUME IInv, NEW t \in Threads, Pop(t) PROVE IInv'
<1>0. PICK s \in {"popFail", "popPtr"} :
        /\ s = "popPtr" => count - 1 >= 0
        /\ pc[t] = "idle" /\ pc' = [pc EXCEPT ![t] = s]
        /\ count' = count - 1 /\ calls' = calls + 1
        /\ UNCHANGED <<top, next, data, out, tempTop, seen, node, result, items, taken>>
    <2>1. count \in Int
        BY DEF IInv, TypeOK
    <2>2. CASE NoneLeft(count)
        <3> WITNESS "popFail" \in {"popFail", "popPtr"}
        <3> QED  BY <2>2 DEF Pop, Begin, Goto, histories, locals
    <2>3. CASE ~NoneLeft(count)
        <3> WITNESS "popPtr" \in {"popFail", "popPtr"}
        <3> QED  BY <2>1, <2>3 DEF Pop, Begin, Goto, NoneLeft, histories, locals
    <2> QED  BY <2>2, <2>3
<1> USE DEF IInv
<1>1. TypeOK'
    <2>1. s \in States
        BY DEF States, Uncounted, Reserving
    <2> QED  BY <1>0, <2>1 DEF TypeOK
<1>2. \A u \in Threads : Holds(u)' = Holds(u) /\ (Holds(u) => Mine(u)' = Mine(u))
    BY <1>0 DEF TypeOK, Holds, Mine, PushStates, PopOwning
<1>3. NodesApart' /\ StackLinked'
    BY <1>0, <1>2, FrameInv
<1>4. CopiesKnown'
    BY <1>0 DEF CopiesKnown, TypeOK, TopCheck
<1>5. Counts'
    <2>1. pc \in [Threads -> States] /\ count \in Int /\ Len(items) \in Nat
        BY DEF TypeOK
    <2> HIDE DEF IInv
    <2>2. /\ Cardinality(At(Uncounted)) \in Nat
          /\ Cardinality(At(Uncounted)') = Cardinality(At(Uncounted)) + 1
        <3>1. s \in Uncounted /\ pc[t] \notin Uncounted
            BY <1>0 DEF Uncounted, Reserving
        <3> QED  BY <1>0, <2>1, <3>1, MoveIn
    <2>3. /\ Cardinality(At(Reserving)) \in Nat
          /\ s = "popPtr" => Cardinality(At(Reserving)') = Cardinality(At(Reserving)) + 1
          /\ s # "popPtr" => Cardinality(At(Reserving)') = Cardinality(At(Reserving))
        <3>1. (s \in Reserving <=> s = "popPtr") /\ pc[t] \notin Reserving
            BY <1>0 DEF Reserving
        <3>2. CASE s = "popPtr"
            BY <1>0, <2>1, <3>1, <3>2, MoveIn
        <3>3. CASE s # "popPtr"
            <4>1. At(Reserving)' = At(Reserving)
                BY <1>0, <2>1, <3>1, <3>3, MoveWithin
            <4> QED  BY <2>1, <3>3, <4>1, ReservingCard
        <3> QED  BY <3>2, <3>3
    <2>4. Cardinality(At(Reserving)) <= Cardinality(At(Uncounted))
        BY <2>1, ReservingCard
    <2> QED  BY <1>0, <2>1, <2>2, <2>3, <2>4 DEF Counts, IInv
<1>6. TopThere' /\ PopsTop'
    BY <1>0 DEF TopThere, PopsTop, TypeOK
<1> QED  BY <1>1, <1>3, <1>4, <1>5, <1>6

\* A thread that counts up and returns.
LEMMA CountUpInv ==
    ASSUME IInv, NEW t \in Threads, pc[t] \in {"popFail", "pushCount"},
           count' = count + 1, Return(t),
           UNCHANGED <<top, next, data, out, items, calls>>
    PROVE  IInv'
<1>0. /\ pc' = [pc EXCEPT ![t] = "idle"]
      /\ tempTop' = [tempTop EXCEPT ![t] = NoTop]
      /\ seen' = [seen EXCEPT ![t] = Null]
      /\ node' = [node EXCEPT ![t] = Null]
      /\ result' = [result EXCEPT ![t] = 0]
      /\ taken' = [taken EXCEPT ![t] = 0]
    BY DEF Return, Goto
<1> USE DEF IInv
<1>1. TypeOK'
    BY <1>0 DEF TypeOK, TopCheck, NodeOrNull, NoTop, States
<1>2. \A u \in Threads : Holds(u)' = Holds(u) /\ (Holds(u) => Mine(u)' = Mine(u))
    BY <1>0 DEF TypeOK, Holds, Mine, PushStates, PopOwning
<1>3. NodesApart' /\ StackLinked'
    BY <1>2, FrameInv
<1>4. CopiesKnown'
    BY <1>0 DEF CopiesKnown, TypeOK
<1>5. Counts'
    <2>1. pc \in [Threads -> States] /\ count \in Int /\ Len(items) \in Nat
        BY DEF TypeOK
    <2> HIDE DEF IInv
    <2>2. /\ Cardinality(At(Uncounted)) \in Nat
          /\ Cardinality(At(Uncounted)') = Cardinality(At(Uncounted)) - 1
        <3>1. "idle" \notin Uncounted /\ pc[t] \in Uncounted
            BY DEF Uncounted, Reserving
        <3> QED  BY <1>0, <2>1, <3>1, MoveOut
    <2>3. At(Reserving)' = At(Reserving)
        <3>1. "idle" \notin Reserving /\ pc[t] \notin Reserving
            BY DEF Reserving
        <3> QED  BY <1>0, <2>1, <3>1, MoveWithin
    <2> QED  BY <2>1, <2>2, <2>3 DEF Counts, IInv
<1>6. TopThere' /\ PopsTop'
    BY <1>0 DEF TopThere, PopsTop, TypeOK
<1> QED  BY <1>1, <1>3, <1>4, <1>5, <1>6

-----------------------------------------------------------------------------
(***************************************************************************)
(* Steps that write to nodes or to the stack.                              *)
(***************************************************************************)

\* Push taking a node that nobody has.
LEMMA PushInv == ASSUME IInv, NEW t \in Threads, Push(t) PROVE IInv'
<1>0. PICK n \in Nodes \ out :
        /\ pc[t] = "idle" /\ pc' = [pc EXCEPT ![t] = "pushPtr"]
        /\ out' = out \cup {n} /\ node' = [node EXCEPT ![t] = n]
        /\ data' = [data EXCEPT ![n] = calls + 1]
        /\ next' = [next EXCEPT ![n] = Null] /\ calls' = calls + 1
        /\ UNCHANGED <<top, count, tempTop, seen, result, items, taken>>
    BY DEF Push, Begin, Goto, histories
<1> USE DEF IInv
<1>1. TypeOK'
    BY <1>0 DEF TypeOK, NodeOrNull, States, PushStates, Reserving, PopOwning, Uncounted
<1>2. /\ Holds(t)' /\ ~Holds(t) /\ Mine(t)' = n
      /\ \A u \in Threads : u # t => Holds(u)' = Holds(u) /\ Mine(u)' = Mine(u)
    BY <1>0 DEF TypeOK, Holds, Mine, PushStates, PopOwning
<1>3. \A i \in 1..Len(items) : items[i].node # n
    BY <1>0 DEF StackLinked
<1>4. NodesApart'
    BY <1>0, <1>2, <1>3 DEF NodesApart
<1>5. StackLinked'
    BY <1>0, <1>3 DEF StackLinked, TypeOK
<1>6. CopiesKnown'
    <2>1. top.ptr # n
        BY <1>0, <1>3, EmptyFacts DEF StackLinked, TypeOK
    <2>2. \A u \in Threads : Holds(u) => Mine(u) # n /\ Mine(u) \in Nodes
        BY <1>0 DEF NodesApart, TypeOK
    <2>3. ASSUME NEW u \in Threads, u # t PROVE
            /\ pc'[u] = pc[u] /\ node'[u] = node[u]
            /\ pc[u] = "pushCas" => node[u] # n /\ node[u] \in Nodes
            /\ pc[u] = "popData" => tempTop[u].ptr # n /\ tempTop[u].ptr \in Nodes
        BY <1>0, <2>2, <2>3 DEF Holds, Mine, PushStates, PopOwning, TypeOK
    <2>4. pc'[t] = "pushPtr"
        BY <1>0 DEF TypeOK
    <2> QED  BY <1>0, <2>1, <2>3, <2>4
             DEF CopiesKnown, TypeOK, TopThere, TopCheck, NodeOrNull
<1>7. Counts'
    BY <1>0, SameCounts DEF States, PushStates, Reserving, PopOwning, Uncounted
<1>8. TopThere' /\ PopsTop'
    BY <1>0 DEF TopThere, PopsTop, TypeOK
<1> QED  BY <1>1, <1>4, <1>5, <1>6, <1>7, <1>8

\* Push linking its own node, which is not on the stack.
LEMMA PushLinkInv == ASSUME IInv, NEW t \in Threads, PushLink(t) PROVE IInv'
<1> DEFINE n == node[t]
<1>0. /\ pc[t] = "pushLink" /\ pc' = [pc EXCEPT ![t] = "pushCas"]
      /\ next' = [next EXCEPT ![n] = tempTop[t].ptr]
      /\ UNCHANGED <<top, count, data, out, tempTop, seen, node, result, items,
                     taken, calls>>
    BY DEF PushLink, Goto, histories, locals
<1> USE DEF IInv
<1>a. Holds(t) /\ Mine(t) = n /\ n \in Nodes
    BY <1>0 DEF Holds, Mine, PushStates, NodesApart, TypeOK
<1>1. TypeOK'
    BY <1>0, <1>a DEF TypeOK, TopCheck, NodeOrNull, States, PushStates
<1>2. \A u \in Threads : Holds(u)' = Holds(u) /\ Mine(u)' = Mine(u)
    BY <1>0 DEF TypeOK, Holds, Mine, PushStates, PopOwning
<1>3. \A i \in 1..Len(items) : items[i].node # n
    BY <1>a DEF NodesApart
<1>4. NodesApart'
    BY <1>0, <1>2 DEF NodesApart
<1>5. StackLinked'
    BY <1>0, <1>3 DEF StackLinked, TypeOK
<1>6. CopiesKnown'
    <2>1. top.ptr # n
        BY <1>a, <1>3, EmptyFacts DEF StackLinked, TypeOK
    <2>2. \A u \in Threads : Holds(u) /\ u # t => Mine(u) # n /\ Mine(u) \in Nodes
        BY <1>a DEF NodesApart, TypeOK
    <2>3. ASSUME NEW u \in Threads, u # t PROVE
            pc'[u] = pc[u] /\ (pc[u] = "pushCas" => node[u] # n /\ node[u] \in Nodes)
        BY <1>0, <2>2, <2>3 DEF Holds, Mine, PushStates, TypeOK
    <2>4. pc'[t] = "pushCas" /\ next'[n] = tempTop[t].ptr
        BY <1>0, <1>a DEF TypeOK
    <2> QED  BY <1>0, <2>1, <2>3, <2>4
             DEF CopiesKnown, TypeOK, TopThere, TopCheck, NodeOrNull
<1>7. Counts'
    BY <1>0, SameCounts DEF States, PushStates, Reserving, PopOwning, Uncounted
<1>8. TopThere' /\ PopsTop'
    BY <1>0 DEF TopThere, PopsTop, TypeOK
<1> QED  BY <1>1, <1>4, <1>5, <1>6, <1>7, <1>8

\* Push's exchange succeeding puts its node on top of the stack.
LEMMA PushExchangeInv ==
    ASSUME IInv, NEW t \in Threads, PushExchange(t) PROVE IInv'
<1> DEFINE n == node[t]  x == [node |-> n, data |-> data[n]]
<1>0. /\ pc[t] = "pushCas" /\ pc' = [pc EXCEPT ![t] = "pushCount"]
      /\ top = tempTop[t] /\ top' = [ptr |-> n, id |-> top.id + 1]
      /\ items' = <<x>> \o items
      /\ UNCHANGED <<count, next, data, out, tempTop, seen, node, result, taken, calls>>
    BY DEF PushExchange, Goto, Same, locals
<1> USE DEF IInv
<1>a. Holds(t) /\ Mine(t) = n /\ n \in Nodes /\ n \in out /\ x \in Item
    <2>1. Holds(t) /\ Mine(t) = n
        BY <1>0 DEF Holds, Mine, PushStates
    <2>2. n \in Nodes /\ n \in out
        BY <2>1 DEF NodesApart, TypeOK
    <2> QED  BY <2>1, <2>2 DEF Item, TypeOK
<1>b. /\ items' \in Seq(Item) /\ Len(items') = Len(items) + 1 /\ items'[1] = x
      /\ \A i \in 2..(Len(items) + 1) : items'[i] = items[i - 1]
      /\ items' # <<>> /\ Len(items) \in Nat
    BY <1>0, <1>a, ConsFacts DEF TypeOK
<1>1. TypeOK'
    BY <1>0, <1>a, <1>b DEF TypeOK, TopCheck, NodeOrNull, States, Uncounted
<1>2. /\ ~Holds(t)'
      /\ \A u \in Threads : u # t => Holds(u)' = Holds(u) /\ Mine(u)' = Mine(u)
    BY <1>0 DEF TypeOK, Holds, Mine, PushStates, PopOwning
<1>3. \A k \in 2..Len(items') : /\ items'[k] = items[k - 1] /\ k - 1 \in 1..Len(items)
                                /\ items'[k].node # n
    BY <1>a, <1>b DEF NodesApart
<1>4. NodesApart'
    <2>1. ASSUME NEW i \in 1..Len(items'), NEW j \in 1..Len(items'),
                 items'[i].node = items'[j].node
          PROVE  i = j
        <3>1. CASE i = 1 \/ j = 1
            BY <1>b, <1>3, <2>1, <3>1
        <3>2. CASE i # 1 /\ j # 1
            <4>1. /\ items[i - 1].node = items[j - 1].node
                  /\ i - 1 \in 1..Len(items) /\ j - 1 \in 1..Len(items)
                BY <1>b, <1>3, <2>1, <3>2
            <4>2. i - 1 = j - 1
                BY <4>1 DEF NodesApart
            <4> QED  BY <4>2
        <3> QED  BY <3>1, <3>2
    <2>2. \A u \in Threads : Holds(u)' => u # t /\ Holds(u) /\ Mine(u)' = Mine(u)
        BY <1>2
    <2>3. ASSUME NEW u \in Threads, Holds(u)', NEW i \in 1..Len(items')
          PROVE  Mine(u)' # items'[i].node
        <3>1. CASE i = 1
            BY <1>a, <1>b, <2>2, <2>3, <3>1 DEF NodesApart
        <3>2. CASE i # 1
            <4>1. i \in 2..Len(items')
                BY <1>b, <3>2
            <4> QED  BY <1>3, <2>2, <2>3, <4>1 DEF NodesApart
        <3> QED  BY <3>1, <3>2
    <2>4. \A u \in Threads : Holds(u)' => Mine(u)' \in out'
        BY <1>0, <2>2 DEF NodesApart
    <2>5. \A u, v \in Threads : Holds(u)' /\ Holds(v)' /\ Mine(u)' = Mine(v)' => u = v
        BY <2>2 DEF NodesApart
    <2> QED  BY <2>1, <2>3, <2>4, <2>5 DEF NodesApart
<1>5. StackLinked'
    <2>1. next[n] = IF items = <<>> THEN Null ELSE items[1].node
        BY <1>0 DEF CopiesKnown, StackLinked
    <2>2. ASSUME NEW i \in 1..Len(items')
          PROVE  /\ items'[i].node \in out'
                 /\ data'[items'[i].node] = items'[i].data
                 /\ next'[items'[i].node] =
                       IF i = Len(items') THEN Null ELSE items'[i + 1].node
        <3>1. CASE i = 1
            <4>1. (items = <<>>) <=> (Len(items) = 0)
                BY EmptyFacts DEF TypeOK
            <4>2. Len(items) > 0 => items'[2] = items[1]
                BY <1>b
            <4> QED  BY <1>0, <1>a, <1>b, <2>1, <3>1, <4>1, <4>2
        <3>2. CASE i # 1
            <4>1. /\ i - 1 \in 1..Len(items) /\ items'[i] = items[i - 1]
                  /\ i = Len(items') <=> i - 1 = Len(items)
                  /\ i # Len(items') => items'[i + 1] = items[(i - 1) + 1]
                BY <1>b, <3>2
            <4> QED  BY <1>0, <4>1 DEF StackLinked
        <3> QED  BY <3>1, <3>2
    <2>3. top'.ptr = items'[1].node
        BY <1>0, <1>b
    <2> QED  BY <1>b, <2>2, <2>3 DEF StackLinked
<1>6. CopiesKnown'
    <2>1. top'.id = top.id + 1 /\ top.id \in Int
        BY <1>0 DEF TypeOK, TopCheck
    <2>2. pc'[t] = "pushCount" /\ \A u \in Threads : u # t => pc'[u] = pc[u]
        BY <1>0 DEF TypeOK
    <2>3. \A u \in Threads : tempTop[u].id \in Int
        BY DEF TypeOK, TopCheck
    <2> QED  BY <1>0, <2>1, <2>2, <2>3 DEF CopiesKnown
<1>7. Counts'
    <2>1. pc \in [Threads -> States] /\ count \in Int
        BY DEF TypeOK
    <2> HIDE DEF IInv
    <2>2. /\ Cardinality(At(Uncounted)) \in Nat
          /\ Cardinality(At(Uncounted)') = Cardinality(At(Uncounted)) + 1
        <3>1. "pushCount" \in Uncounted /\ pc[t] \notin Uncounted
            BY <1>0 DEF Uncounted, Reserving
        <3> QED  BY <1>0, <2>1, <3>1, MoveIn
    <2>3. At(Reserving)' = At(Reserving)
        <3>1. "pushCount" \notin Reserving /\ pc[t] \notin Reserving
            BY <1>0 DEF Reserving
        <3> QED  BY <1>0, <2>1, <3>1, MoveWithin
    <2>4. Cardinality(At(Reserving)) \in Nat
        BY <2>1, ReservingCard
    <2> QED  BY <1>0, <1>b, <2>1, <2>2, <2>3, <2>4 DEF Counts, IInv
<1>8. TopThere' /\ PopsTop'
    BY <1>0 DEF TopThere, PopsTop, TypeOK
<1> QED  BY <1>1, <1>4, <1>5, <1>6, <1>7, <1>8

\* Pop's exchange succeeding takes the top node off the stack: its copy is the
\* top, and the link it read is the link of the top.
LEMMA PopExchangeInv ==
    ASSUME IInv, NEW t \in Threads, PopExchange(t) PROVE IInv'
<1> DEFINE n == items[1].node
<1>0. /\ pc[t] = "popCas" /\ pc' = [pc EXCEPT ![t] = "popData"]
      /\ top = tempTop[t] /\ top' = [ptr |-> seen[t], id |-> top.id + 1]
      /\ taken' = [taken EXCEPT ![t] = Head(items).data] /\ items' = Tail(items)
      /\ UNCHANGED <<count, next, data, out, tempTop, seen, node, result, calls>>
    BY DEF PopExchange, Goto, Same, locals, OutAfter
<1>a. Len(items) \in Nat /\ Len(items) > 0 /\ top.ptr = n /\ n \in Nodes
    BY <1>0, ReservedTop DEF Reserving
<1> USE DEF IInv
<1>b. /\ items' \in Seq(Item) /\ Len(items') = Len(items) - 1
      /\ \A i \in 1..(Len(items) - 1) : items'[i] = items[i + 1]
      /\ Head(items) = items[1]
    BY <1>0, <1>a, TailFacts DEF TypeOK
<1>c. (items' = <<>>) <=> (Len(items') = 0)
    BY <1>b, EmptyFacts
<1>d. /\ items[1] \in Item /\ n \in out /\ data[n] = items[1].data
      /\ next[n] = IF 1 = Len(items) THEN Null ELSE items[1 + 1].node
    <2>1. 1 \in 1..Len(items)
        BY <1>a
    <2>2. items[1] \in Item
        BY <2>1 DEF TypeOK
    <2> QED  BY <2>1, <2>2 DEF StackLinked
<1>e. seen[t] = IF Len(items) = 1 THEN Null ELSE items[2].node
    BY <1>0, <1>a, <1>d DEF CopiesKnown
<1>1. TypeOK'
    <2>1. Head(items).data \in Nat
        BY <1>b, <1>d DEF Item
    <2> QED  BY <1>0, <1>b, <2>1 DEF TypeOK, TopCheck, States, PopOwning
<1>2. /\ Holds(t)' /\ ~Holds(t) /\ Mine(t)' = n
      /\ \A u \in Threads : u # t => Holds(u)' = Holds(u) /\ Mine(u)' = Mine(u)
    BY <1>0, <1>a DEF TypeOK, Holds, Mine, PushStates, PopOwning
<1>3. \A k \in 1..Len(items') : /\ items'[k] = items[k + 1] /\ k + 1 \in 1..Len(items)
                                /\ items'[k].node # n
    BY <1>a, <1>b DEF NodesApart
<1>4. NodesApart'
    <2>1. ASSUME NEW i \in 1..Len(items'), NEW j \in 1..Len(items'),
                 items'[i].node = items'[j].node
          PROVE  i = j
        <3>1. /\ items[i + 1].node = items[j + 1].node
              /\ i + 1 \in 1..Len(items) /\ j + 1 \in 1..Len(items)
            BY <1>3, <2>1
        <3>2. i + 1 = j + 1
            BY <3>1 DEF NodesApart
        <3> QED  BY <3>2
    <2>2. \A u \in Threads : Holds(u) => Mine(u) # n
        <3>1. 1 \in 1..Len(items)
            BY <1>a
        <3> QED  BY <3>1 DEF NodesApart
    <2>3. ASSUME NEW u \in Threads, NEW i \in 1..Len(items'), Holds(u)'
          PROVE  Mine(u)' # items'[i].node
        <3>1. CASE u = t
            BY <1>2, <1>3, <3>1
        <3>2. CASE u # t
            <4>1. /\ Holds(u) /\ Mine(u)' = Mine(u)
                  /\ i + 1 \in 1..Len(items) /\ items'[i] = items[i + 1]
                BY <1>2, <1>3, <2>3, <3>2
            <4> QED  BY <4>1 DEF NodesApart
        <3> QED  BY <3>1, <3>2
    <2>4. \A u \in Threads : Holds(u)' => Mine(u)' \in out'
        BY <1>0, <1>d, <1>2 DEF NodesApart
    <2>5. \A u, v \in Threads : Holds(u)' /\ Holds(v)' /\ Mine(u)' = Mine(v)' => u = v
        BY <1>2, <2>2 DEF NodesApart
    <2> QED  BY <2>1, <2>3, <2>4, <2>5 DEF NodesApart
<1>5. StackLinked'
    <2>1. top'.ptr = IF items' = <<>> THEN Null ELSE items'[1].node
        BY <1>0, <1>a, <1>b, <1>c, <1>e
    <2>2. ASSUME NEW i \in 1..Len(items')
          PROVE  /\ items'[i].node \in out'
                 /\ data'[items'[i].node] = items'[i].data
                 /\ next'[items'[i].node] =
                       IF i = Len(items') THEN Null ELSE items'[i + 1].node
        <3>1. /\ i + 1 \in 1..Len(items) /\ items'[i] = items[i + 1]
              /\ i = Len(items') <=> i + 1 = Len(items)
              /\ i # Len(items') => items'[i + 1] = items[(i + 1) + 1]
            BY <1>a, <1>b
        <3> QED  BY <1>0, <3>1 DEF StackLinked
    <2> QED  BY <2>1, <2>2 DEF StackLinked
<1>6. CopiesKnown'
    <2>1. top'.id = top.id + 1 /\ top.id \in Int
        BY <1>0 DEF TypeOK, TopCheck
    <2>2. /\ pc'[t] = "popData"
          /\ \A u \in Threads : u # t => pc'[u] = pc[u] /\ taken'[u] = taken[u]
        BY <1>0 DEF TypeOK
    <2>3. \A u \in Threads : tempTop[u].id \in Int
        BY DEF TypeOK, TopCheck
    <2>4. data'[tempTop'[t].ptr] = taken'[t]
        BY <1>0, <1>a, <1>b, <1>d DEF TypeOK
    <2> QED  BY <1>0, <2>1, <2>2, <2>3, <2>4 DEF CopiesKnown
<1>7. Counts'
    <2>1. pc \in [Threads -> States] /\ count \in Int
        BY DEF TypeOK
    <2> HIDE DEF IInv
    <2>0. /\ "popData" \notin Uncounted /\ pc[t] \in Uncounted
          /\ "popData" \notin Reserving /\ pc[t] \in Reserving
        BY <1>0 DEF Uncounted, Reserving
    <2>2. /\ Cardinality(At(Uncounted)) \in Nat
          /\ Cardinality(At(Uncounted)') = Cardinality(At(Uncounted)) - 1
        BY <1>0, <2>0, <2>1, MoveOut
    <2>3. /\ Cardinality(At(Reserving)) \in Nat
          /\ Cardinality(At(Reserving)') = Cardinality(At(Reserving)) - 1
        BY <1>0, <2>0, <2>1, MoveOut
    <2> QED  BY <1>0, <1>a, <1>b, <2>1, <2>2, <2>3 DEF Counts, IInv
<1>8. TopThere' /\ PopsTop'
    BY <1>0 DEF TopThere, PopsTop, TypeOK
<1> QED  BY <1>1, <1>4, <1>5, <1>6, <1>7, <1>8

\* Pop freeing the node it took, which nobody else has.
LEMMA PopFreeInv == ASSUME IInv, NEW t \in Threads, PopFree(t) PROVE IInv'
<1> DEFINE n == tempTop[t].ptr
<1>0. /\ pc[t] = "popFree" /\ pc' = [pc EXCEPT ![t] = "idle"]
      /\ out' = out \ {n}
      /\ tempTop' = [tempTop EXCEPT ![t] = NoTop]
      /\ seen' = [seen EXCEPT ![t] = Null]
      /\ node' = [node EXCEPT ![t] = Null]
      /\ result' = [result EXCEPT ![t] = 0]
      /\ taken' = [taken EXCEPT ![t] = 0]
      /\ UNCHANGED <<top, count, next, data, items, calls>>
    BY DEF PopFree, Return, Goto
<1> USE DEF IInv
<1>a. Holds(t) /\ Mine(t) = n
    BY <1>0 DEF Holds, Mine, PushStates, PopOwning
<1>1. TypeOK'
    BY <1>0 DEF TypeOK, TopCheck, NodeOrNull, NoTop, States
<1>2. /\ ~Holds(t)'
      /\ \A u \in Threads : u # t => Holds(u)' = Holds(u) /\ Mine(u)' = Mine(u)
    BY <1>0 DEF TypeOK, Holds, Mine, PushStates, PopOwning
<1>3. \A i \in 1..Len(items) : items[i].node # n
    BY <1>a DEF NodesApart
<1>4. NodesApart'
    <2>1. \A u \in Threads : Holds(u)' => u # t /\ Holds(u) /\ Mine(u)' = Mine(u)
        BY <1>2
    <2>2. \A u \in Threads : Holds(u)' => Mine(u)' \in out'
        BY <1>0, <1>a, <2>1 DEF NodesApart
    <2> QED  BY <1>0, <2>1, <2>2 DEF NodesApart
<1>5. StackLinked'
    BY <1>0, <1>3 DEF StackLinked
<1>6. CopiesKnown'
    BY <1>0 DEF CopiesKnown, TypeOK
<1>7. Counts'
    BY <1>0, SameCounts DEF States, PushStates, Reserving, PopOwning, Uncounted
<1>8. TopThere' /\ PopsTop'
    BY <1>0 DEF TopThere, PopsTop, TypeOK
<1> QED  BY <1>1, <1>4, <1>5, <1>6, <1>7, <1>8

-----------------------------------------------------------------------------
\* Every step of every thread preserves the invariant.
LEMMA StepInv == IInv /\ [Next]_vars => IInv'
<1> SUFFICES ASSUME IInv, [Next]_vars PROVE IInv'
    OBVIOUS
<1>1. ASSUME NEW t \in Threads, Call(t) PROVE IInv'
    BY <1>1, PushInv, PopInv DEF Call
<1>2. ASSUME NEW t \in Threads, PushCount(t) \/ PopFail(t) PROVE IInv'
    BY <1>2, CountUpInv DEF PushCount, PopFail
<1>3. ASSUME NEW t \in Threads, Step(t) PROVE IInv'
    BY <1>2, <1>3, PushReadPtrInv, PushReadIDInv, PushLinkInv, PushExchangeInv,
       PushRetryInv, PopReadPtrInv, PopReadIDInv, PopReadNextInv,
       PopExchangeInv, PopRetryInv, PopDataInv, PopFreeInv DEF Step
<1>4. CASE UNCHANGED vars
    <2>1. UNCHANGED <<top, count, next, data, out, pc, tempTop, seen, node, result,
                      items, taken, calls>>
        BY <1>4 DEF vars, locals, histories
    <2>2. TypeOK' /\ StackLinked'
        BY <2>1 DEF IInv, TypeOK, StackLinked
    <2>3. NodesApart'
        BY <2>1 DEF IInv, NodesApart, Holds, Mine
    <2>4. CopiesKnown' /\ TopThere' /\ PopsTop'
        BY <2>1 DEF IInv, CopiesKnown, TopThere, PopsTop
    <2>5. Counts'
        BY <2>1 DEF IInv, Counts, At
    <2> QED  BY <2>2, <2>3, <2>4, <2>5 DEF IInv
<1> QED  BY <1>1, <1>3, <1>4 DEF Next

\* The invariant holds in every reachable state, for any threads and nodes.
THEOREM Invariance == Spec => []IInv
<1> QED  BY InitInv, StepInv, PTL DEF Spec

\* The variables keep their types.
THEOREM TypeCorrect == Spec => []TypeOK
<1>1. IInv => TypeOK
    BY DEF IInv
<1> QED  BY <1>1, Invariance, PTL

\* Pop never dereferences a null pointer, although it does not test m_topPtr: a
\* thread that got past the test of m_count has an item on the stack that the
\* others leave to it.
THEOREM PopFindsNode == Spec => []TopThere
<1>1. IInv => TopThere
    BY DEF IInv
<1> QED  BY <1>1, Invariance, PTL

\* The links from m_topPtr lead through exactly the items on the stack: m_checkID
\* rules out that an exchange installs a link that is no longer right.
THEOREM LinksRight == Spec => []StackLinked
<1>1. IInv => StackLinked
    BY DEF IInv
<1> QED  BY <1>1, Invariance, PTL

\* Pop returns the item that was on top when it took it, although the data is
\* read only after the exchange.
THEOREM PopsRight == Spec => []PopsTop
<1>1. IInv => PopsTop
    BY DEF IInv
<1> QED  BY <1>1, Invariance, PTL
=============================================================================
