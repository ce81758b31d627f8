--------------------------- MODULE FreeListProofs ---------------------------
(***************************************************************************)
(* Proofs about FreeList, for any number of threads, nodes and calls.      *)
(*                                                                         *)
(* IInv is the inductive invariant.  Its heart is CopiesKnown: m_checkID   *)
(* grows with every exchange, so an exchange that succeeds has seen the    *)
(* list as it is.                                                          *)
(***************************************************************************)
EXTENDS FreeList, TLAPS

\* What a thread remembers of the list.  A copy of the top is not newer than
\* the top; if it equals the top, nothing has changed since it was made, and the
\* link that was read is still the link of the top node.
CopiesKnown ==
    \A t \in Threads :
       /\ pc[t] \in {"allocTest", "allocCas", "freeLink", "freeCas"} =>
             tempTop[t].id <= top.id
       /\ pc[t] = "allocCas" => tempTop[t].ptr # Null
       /\ pc[t] = "allocCas" /\ tempTop[t] = top => seen[t] = next[tempTop[t].ptr]
       /\ pc[t] = "freeCas" => next[node[t]] = tempTop[t].ptr
       /\ pc[t] \in FreeStates => freeFlag[node[t]]

\* The inductive invariant.
IInv == TypeOK /\ NodesApart /\ ListLinked /\ FlagsTell /\ CopiesKnown

-----------------------------------------------------------------------------
USE FreeListAssumption

\* An empty list satisfies the invariant.
LEMMA InitInv == Init => IInv
<1> SUFFICES ASSUME Init PROVE IInv
    OBVIOUS
<1>1. TypeOK
    BY DEF Init, TypeOK, TopCheck, NodeOrNull, States, Owning, Allocating,
           FreeStates
<1>2. Listed = {} /\ Owned = {}
    BY DEF Init, Listed, Owned, Owning, FreeStates
<1>3. NodesApart
    BY <1>2 DEF Init, NodesApart, Owning, FreeStates
<1>4. ListLinked /\ FlagsTell /\ CopiesKnown
    BY <1>2 DEF Init, ListLinked, FlagsTell, CopiesKnown, FreeStates
<1> QED  BY <1>1, <1>3, <1>4 DEF IInv

-----------------------------------------------------------------------------
\* A thread that only copies shared memory into its locals leaves the list and
\* the owners of the nodes alone.
LEMMA ReadsInv ==
    ASSUME IInv, UNCHANGED <<shared, node, held, list>>,
           NEW t \in Threads, NEW s \in States, pc' = [pc EXCEPT ![t] = s],
           s \in Owning <=> pc[t] \in Owning, s # "thrown"
    PROVE  NodesApart' /\ ListLinked' /\ FlagsTell'
<1> USE DEF IInv
<1>1. \A u \in Threads : pc'[u] \in Owning <=> pc[u] \in Owning
    BY DEF TypeOK
<1>2. Listed' = Listed /\ Owned' = Owned
    BY <1>1 DEF Listed, Owned
<1>3. NodesApart'
    BY <1>1, <1>2 DEF NodesApart, shared
<1>4. ListLinked'
    BY DEF ListLinked, shared
<1>5. FlagsTell'
    BY <1>2 DEF FlagsTell, shared, TypeOK
<1> QED  BY <1>3, <1>4, <1>5

\* Alloc reading m_topPtr preserves the invariant.
LEMMA AllocInv == ASSUME IInv, NEW t \in Threads, Alloc(t) PROVE IInv'
<1> USE DEF IInv, Alloc, Goto
<1>0. pc' = [pc EXCEPT ![t] = "allocId"] /\ tempTop' = [tempTop EXCEPT ![t].ptr = top.ptr]
      /\ calls' = calls + 1 /\ UNCHANGED <<top, next, freeFlag, heap, seen, node, held, list>>
    BY DEF shared
<1>1. TypeOK'
    <2>1. tempTop' \in [Threads -> TopCheck]
        BY <1>0 DEF TypeOK, TopCheck
    <2>2. /\ pc' \in [Threads -> States] /\ calls' \in Nat
          /\ \A u \in Threads : pc'[u] \in Owning => node[u] \in Nodes
        BY <1>0 DEF TypeOK, States, Owning, Allocating, FreeStates
    <2> QED  BY <1>0, <2>1, <2>2 DEF TypeOK
<1>2. NodesApart' /\ ListLinked' /\ FlagsTell'
    BY ReadsInv DEF States, Owning, Allocating, FreeStates, TypeOK
<1>3. CopiesKnown'
    BY DEF CopiesKnown, TypeOK, shared, FreeStates
<1> QED  BY <1>1, <1>2, <1>3

\* Alloc reading m_checkID preserves the invariant.
LEMMA AllocReadIDInv == ASSUME IInv, NEW t \in Threads, AllocReadID(t) PROVE IInv'
<1> USE DEF IInv, AllocReadID, Goto
<1>1. TypeOK'
    BY DEF TypeOK, TopCheck, NodeOrNull, States, Owning, Allocating, FreeStates,
           shared
<1>2. NodesApart' /\ ListLinked' /\ FlagsTell'
    BY ReadsInv DEF States, Owning, Allocating, FreeStates, TypeOK
<1>3. CopiesKnown'
    BY DEF CopiesKnown, TypeOK, TopCheck, shared, FreeStates
<1> QED  BY <1>1, <1>2, <1>3

\* Alloc reading the link of the node it believes to be the top.
LEMMA AllocReadNextInv ==
    ASSUME IInv, NEW t \in Threads, AllocReadNext(t) PROVE IInv'
<1> USE DEF IInv, AllocReadNext, Goto
<1>1. TypeOK'
    BY DEF TypeOK, TopCheck, NodeOrNull, States, Owning, Allocating, FreeStates,
           shared
<1>2. NodesApart' /\ ListLinked' /\ FlagsTell'
    BY ReadsInv DEF States, Owning, Allocating, FreeStates, TypeOK
<1>3. CopiesKnown'
    BY DEF CopiesKnown, TypeOK, TopCheck, shared, FreeStates
<1> QED  BY <1>1, <1>2, <1>3

\* Alloc's exchange failing preserves the invariant.
LEMMA AllocRetryInv == ASSUME IInv, NEW t \in Threads, AllocRetry(t) PROVE IInv'
<1> USE DEF IInv, AllocRetry, Goto
<1>1. TypeOK'
    BY DEF TypeOK, TopCheck, NodeOrNull, States, Owning, Allocating, FreeStates,
           shared
<1>2. NodesApart' /\ ListLinked' /\ FlagsTell'
    BY ReadsInv DEF States, Owning, Allocating, FreeStates, TypeOK
<1>3. CopiesKnown'
    BY DEF CopiesKnown, TypeOK, TopCheck, shared, FreeStates
<1> QED  BY <1>1, <1>2, <1>3

\* Free reading m_topPtr preserves the invariant.
LEMMA FreeReadPtrInv == ASSUME IInv, NEW t \in Threads, FreeReadPtr(t) PROVE IInv'
<1> USE DEF IInv, FreeReadPtr, Goto
<1>1. TypeOK'
    BY DEF TypeOK, TopCheck, NodeOrNull, States, Owning, Allocating, FreeStates,
           shared
<1>2. NodesApart' /\ ListLinked' /\ FlagsTell'
    BY ReadsInv DEF States, Owning, Allocating, FreeStates, TypeOK
<1>3. CopiesKnown'
    BY DEF CopiesKnown, TypeOK, TopCheck, shared, FreeStates
<1> QED  BY <1>1, <1>2, <1>3

\* Free reading m_checkID preserves the invariant.
LEMMA FreeReadIDInv == ASSUME IInv, NEW t \in Threads, FreeReadID(t) PROVE IInv'
<1> USE DEF IInv, FreeReadID, Goto
<1>1. TypeOK'
    BY DEF TypeOK, TopCheck, NodeOrNull, States, Owning, Allocating, FreeStates,
           shared
<1>2. NodesApart' /\ ListLinked' /\ FlagsTell'
    BY ReadsInv DEF States, Owning, Allocating, FreeStates, TypeOK
<1>3. CopiesKnown'
    BY DEF CopiesKnown, TypeOK, TopCheck, shared, FreeStates
<1> QED  BY <1>1, <1>2, <1>3

\* Free's exchange failing preserves the invariant.
LEMMA FreeRetryInv == ASSUME IInv, NEW t \in Threads, FreeRetry(t) PROVE IInv'
<1> USE DEF IInv, FreeRetry, Goto
<1>1. TypeOK'
    BY DEF TypeOK, TopCheck, NodeOrNull, States, Owning, Allocating, FreeStates,
           shared
<1>2. NodesApart' /\ ListLinked' /\ FlagsTell'
    BY ReadsInv DEF States, Owning, Allocating, FreeStates, TypeOK
<1>3. CopiesKnown'
    BY DEF CopiesKnown, TypeOK, TopCheck, shared, FreeStates
<1> QED  BY <1>1, <1>2, <1>3

-----------------------------------------------------------------------------
\* A node of the heap handed out: it joins the clients' nodes.
LEMMA HeapInv ==
    ASSUME IInv, NEW t \in Threads, AllocateMemoryFromHeap(t) PROVE IInv'
<1> USE DEF IInv
<1> PICK n \in heap :
        /\ heap' = heap \ {n}
        /\ held' = held \cup {n}
        /\ freeFlag' = [freeFlag EXCEPT ![n] = FALSE]
        /\ next' = [next EXCEPT ![n] = Null]
    BY DEF AllocateMemoryFromHeap
<1>0. /\ pc[t] = "allocTest" /\ pc' = [pc EXCEPT ![t] = "idle"]
      /\ UNCHANGED <<top, locals, list, calls>>
      /\ n \in Nodes
    BY DEF AllocateMemoryFromHeap, Goto, TypeOK
<1>1. TypeOK'
    BY <1>0 DEF TypeOK, NodeOrNull, States, Owning, Allocating, FreeStates, locals
<1>2. \A u \in Threads : pc'[u] \in Owning <=> pc[u] \in Owning
    BY <1>0 DEF TypeOK, Owning, FreeStates
<1>3. Listed' = Listed /\ Owned' = Owned
    BY <1>0, <1>2 DEF Listed, Owned, locals
<1>4. n \notin Listed /\ n \notin Owned
    BY DEF NodesApart
<1>5. NodesApart'
    BY <1>0, <1>2, <1>3, <1>4 DEF NodesApart, locals
<1>6. ListLinked'
    <2>1. \A i \in 1..Len(list) : list[i] \in Nodes /\ list[i] # n
        BY <1>4 DEF TypeOK, Listed
    <2> QED  BY <1>0, <2>1 DEF ListLinked, TypeOK
<1>7. FlagsTell'
    <2>1. \A m \in Listed : m \in Nodes
        BY DEF TypeOK, Listed
    <2> QED  BY <1>0, <1>3, <1>4, <2>1 DEF FlagsTell, TypeOK
<1>8. CopiesKnown'
    <2>1. \A u \in Threads : pc[u] \in FreeStates => node[u] \in Nodes /\ node[u] # n
        BY <1>4 DEF TypeOK, Owned, Owning
    <2>2. top.ptr # n
        BY <1>4 DEF ListLinked, Listed, TypeOK
    <2> QED  BY <1>0, <2>1, <2>2 DEF CopiesKnown, TypeOK, TopCheck, NodeOrNull, locals, FreeStates
<1> QED  BY <1>1, <1>5, <1>6, <1>7, <1>8

\* A successful exchange of Alloc has compared its copy with the list as it is.
LEMMA AllocExchangeFacts ==
    ASSUME IInv, NEW t \in Threads, AllocExchange(t)
    PROVE  /\ list # <<>> /\ Len(list) > 0 /\ tempTop[t].ptr = list[1]
           /\ seen[t] = IF Len(list) = 1 THEN Null ELSE list[2]
<1> USE DEF IInv
<1>1. top = tempTop[t] /\ tempTop[t].ptr # Null /\ seen[t] = next[tempTop[t].ptr]
    BY DEF AllocExchange, Same, CopiesKnown
<1>2. list # <<>> /\ tempTop[t].ptr = list[1]
    BY <1>1 DEF ListLinked
<1>3. Len(list) > 0
    BY <1>2 DEF TypeOK
<1>4. next[list[1]] = IF 1 = Len(list) THEN Null ELSE list[1 + 1]
    <2>1. 1 \in 1..Len(list)
        BY <1>3 DEF TypeOK
    <2> QED  BY <2>1 DEF ListLinked
<1> QED  BY <1>1, <1>2, <1>3, <1>4

\* Taking the first element off a sequence.
LEMMA TailFacts ==
    ASSUME NEW S, NEW s \in Seq(S), s # <<>>
    PROVE  /\ Tail(s) \in Seq(S) /\ Len(Tail(s)) = Len(s) - 1
           /\ \A i \in 1..(Len(s) - 1) : Tail(s)[i] = s[i + 1]
OBVIOUS

\* Only the empty sequence has no elements.
LEMMA EmptyFacts ==
    ASSUME NEW S, NEW s \in Seq(S)
    PROVE  (s = <<>>) <=> (Len(s) = 0)
OBVIOUS

\* Putting an element in front of a sequence.
LEMMA ConsFacts ==
    ASSUME NEW S, NEW s \in Seq(S), NEW x \in S
    PROVE  /\ <<x>> \o s \in Seq(S) /\ Len(<<x>> \o s) = Len(s) + 1
           /\ (<<x>> \o s)[1] = x
           /\ \A i \in 2..(Len(s) + 1) : (<<x>> \o s)[i] = s[i - 1]
           /\ <<x>> \o s # <<>>
OBVIOUS

\* Alloc's exchange succeeding moves the top node to the thread.
LEMMA AllocExchangeInv ==
    ASSUME IInv, NEW t \in Threads, AllocExchange(t) PROVE IInv'
<1> USE DEF IInv
<1> DEFINE n == list[1]
<1>0. /\ pc[t] = "allocCas" /\ pc' = [pc EXCEPT ![t] = "allocInit"]
      /\ top = tempTop[t] /\ top' = [ptr |-> seen[t], id |-> top.id + 1]
      /\ node' = [node EXCEPT ![t] = n] /\ list' = Tail(list)
      /\ UNCHANGED <<next, freeFlag, heap, tempTop, seen, held, calls>>
    BY AllocExchangeFacts DEF AllocExchange, Goto, Same
<1>a. list # <<>> /\ Len(list) \in Nat /\ Len(list) > 0 /\ n \in Nodes
    BY AllocExchangeFacts DEF TypeOK
<1>b. /\ list' \in Seq(Nodes) /\ Len(list') = Len(list) - 1
      /\ \A i \in 1..(Len(list) - 1) : list'[i] = list[i + 1]
    BY <1>0, <1>a, TailFacts DEF TypeOK
<1>c. (list' = <<>>) <=> (Len(list') = 0)
    BY <1>b, EmptyFacts
<1>1. TypeOK'
    BY <1>0, <1>a, <1>b DEF TypeOK, TopCheck, States, Owning, Allocating, FreeStates,
           NodeOrNull
<1>2. Listed' = Listed \ {n}
    <2>1. \A i \in 1..Len(list) : i # 1 => list[i] # n
        BY <1>a DEF NodesApart
    <2>2. \A x \in Listed' : x \in Listed /\ x # n
        BY <1>a, <1>b, <2>1 DEF Listed
    <2>3. ASSUME NEW x \in Listed, x # n PROVE x \in Listed'
        <3>1. PICK i \in 1..Len(list) : x = list[i]
            BY DEF Listed
        <3>2. i - 1 \in 1..Len(list') /\ list'[i - 1] = x
            BY <1>a, <1>b, <2>3, <3>1
        <3> QED  BY <3>2 DEF Listed
    <2> QED  BY <2>2, <2>3
<1>3. /\ pc'[t] \in Owning /\ node'[t] = n /\ pc[t] \notin Owning
      /\ \A u \in Threads : u # t => pc'[u] = pc[u] /\ node'[u] = node[u]
    BY <1>0 DEF TypeOK, Owning, FreeStates
<1>4. Owned' = Owned \cup {n}
    BY <1>3 DEF Owned
<1>5. n \in Listed
    BY <1>a DEF Listed
<1>6. NodesApart'
    <2>1. ASSUME NEW i \in 1..Len(list'), NEW j \in 1..Len(list'), list'[i] = list'[j]
          PROVE  i = j
        <3>1. /\ i + 1 \in 1..Len(list) /\ j + 1 \in 1..Len(list)
              /\ list[i + 1] = list[j + 1]
            BY <1>a, <1>b, <2>1
        <3>2. i + 1 = j + 1
            BY <3>1 DEF NodesApart
        <3> QED  BY <3>2
    <2>2. \A u \in Threads : u # t /\ pc[u] \in Owning => node[u] # n
        BY <1>5 DEF NodesApart, Owned
    <2>3. \A u, v \in Threads : pc'[u] \in Owning /\ pc'[v] \in Owning
                                  /\ node'[u] = node'[v] => u = v
        BY <1>3, <2>2 DEF NodesApart
    <2>4. /\ Listed' \cap Owned' = {} /\ Listed' \cap held' = {}
          /\ Listed' \cap heap' = {} /\ Owned' \cap held' = {}
          /\ Owned' \cap heap' = {} /\ held' \cap heap' = {}
          /\ Nodes \subseteq Listed' \cup Owned' \cup held' \cup heap'
        BY <1>0, <1>2, <1>4, <1>5 DEF NodesApart
    <2> QED  BY <2>1, <2>3, <2>4 DEF NodesApart
<1>7. ListLinked'
    <2>1. top'.ptr = IF list' = <<>> THEN Null ELSE list'[1]
        BY <1>0, <1>a, <1>b, <1>c, AllocExchangeFacts
    <2>2. ASSUME NEW i \in 1..Len(list')
          PROVE  next'[list'[i]] = IF i = Len(list') THEN Null ELSE list'[i + 1]
        <3>1. /\ i + 1 \in 1..Len(list) /\ list'[i] = list[i + 1]
              /\ i = Len(list') <=> i + 1 = Len(list)
              /\ i # Len(list') => list'[i + 1] = list[(i + 1) + 1]
            BY <1>a, <1>b
        <3> QED  BY <1>0, <3>1 DEF ListLinked
    <2> QED  BY <2>1, <2>2 DEF ListLinked
<1>8. FlagsTell'
    BY <1>0, <1>2 DEF FlagsTell, TypeOK
<1>9. CopiesKnown'
    BY <1>0, <1>3 DEF CopiesKnown, TypeOK, TopCheck, FreeStates
<1> QED  BY <1>1, <1>6, <1>7, <1>8, <1>9

\* Alloc resetting the node it took and returning it to the client.
LEMMA AllocReturnInv == ASSUME IInv, NEW t \in Threads, AllocReturn(t) PROVE IInv'
<1> USE DEF IInv
<1> DEFINE n == node[t]
<1>0. /\ pc[t] = "allocInit" /\ pc' = [pc EXCEPT ![t] = "idle"]
      /\ freeFlag' = [freeFlag EXCEPT ![n] = FALSE]
      /\ next' = [next EXCEPT ![n] = Null]
      /\ held' = held \cup {n} /\ node' = [node EXCEPT ![t] = Null]
      /\ UNCHANGED <<top, heap, tempTop, seen, list, calls>>
      /\ n \in Nodes /\ pc[t] \in Owning
    BY DEF AllocReturn, Goto, TypeOK, Owning
<1>1. TypeOK'
    BY <1>0 DEF TypeOK, NodeOrNull, States, Owning, Allocating, FreeStates
<1>2. /\ pc'[t] \notin Owning
      /\ \A u \in Threads : u # t => pc'[u] = pc[u] /\ node'[u] = node[u]
    BY <1>0 DEF TypeOK, Owning, FreeStates
<1>3. n \in Owned
    BY <1>0 DEF Owned
<1>4. Listed' = Listed /\ Owned' = Owned \ {n}
    <2>1. \A u \in Threads : u # t /\ pc[u] \in Owning => node[u] # n
        BY <1>0 DEF NodesApart
    <2> QED  BY <1>0, <1>2, <2>1 DEF Listed, Owned
<1>5. NodesApart'
    <2>1. \A u, v \in Threads : pc'[u] \in Owning /\ pc'[v] \in Owning
                                  /\ node'[u] = node'[v] => u = v
        BY <1>2 DEF NodesApart
    <2>2. /\ Listed' \cap Owned' = {} /\ Listed' \cap held' = {}
          /\ Listed' \cap heap' = {} /\ Owned' \cap held' = {}
          /\ Owned' \cap heap' = {} /\ held' \cap heap' = {}
          /\ Nodes \subseteq Listed' \cup Owned' \cup held' \cup heap'
        BY <1>0, <1>3, <1>4 DEF NodesApart
    <2> QED  BY <1>0, <2>1, <2>2 DEF NodesApart
<1>6. n \notin Listed
    BY <1>3 DEF NodesApart
<1>7. ListLinked'
    <2>1. \A i \in 1..Len(list) : list[i] \in Nodes /\ list[i] # n
        BY <1>6 DEF TypeOK, Listed
    <2> QED  BY <1>0, <2>1 DEF ListLinked, TypeOK
<1>8. FlagsTell'
    <2>1. \A m \in Listed : m \in Nodes
        BY DEF TypeOK, Listed
    <2> QED  BY <1>0, <1>4, <1>6, <2>1 DEF FlagsTell, TypeOK
<1>9. CopiesKnown'
    <2>1. \A u \in Threads : u # t /\ pc[u] \in FreeStates =>
                node[u] \in Nodes /\ node[u] # n
        BY <1>0 DEF TypeOK, NodesApart, Owning
    <2>2. top.ptr # n
        BY <1>0, <1>6 DEF ListLinked, Listed, TypeOK
    <2>3. /\ pc'[t] = "idle"
          /\ \A u \in Threads : pc[u] = "freeCas" => pc[u] \in FreeStates
        BY <1>0 DEF TypeOK, FreeStates
    <2> QED  BY <1>0, <1>2, <2>1, <2>2, <2>3 DEF CopiesKnown, TypeOK, TopCheck, NodeOrNull, FreeStates
<1> QED  BY <1>1, <1>5, <1>7, <1>8, <1>9

-----------------------------------------------------------------------------
\* Free moves a client's node to the thread; its flag was not set.
LEMMA FreeInv == ASSUME IInv, NEW t \in Threads, Free(t) PROVE IInv'
<1> USE DEF IInv
<1> PICK n \in held :
        /\ held' = held \ {n} /\ node' = [node EXCEPT ![t] = n]
        /\ freeFlag' = [freeFlag EXCEPT ![n] = TRUE]
        /\ pc' = [pc EXCEPT ![t] = IF freeFlag[n] THEN "thrown" ELSE "freePtr"]
    BY DEF Free, Goto
<1>0. /\ pc[t] = "idle" /\ calls' = calls + 1
      /\ pc' = [pc EXCEPT ![t] = "freePtr"]
      /\ UNCHANGED <<top, next, heap, tempTop, seen, list>>
      /\ n \in Nodes
    BY DEF Free, TypeOK, FlagsTell
<1>1. TypeOK'
    BY <1>0 DEF TypeOK, NodeOrNull, States, Owning, Allocating, FreeStates
<1>2. /\ pc'[t] \in Owning /\ node'[t] = n /\ pc[t] \notin Owning
      /\ \A u \in Threads : u # t => pc'[u] = pc[u] /\ node'[u] = node[u]
    BY <1>0 DEF TypeOK, Owning, FreeStates
<1>3. Listed' = Listed /\ Owned' = Owned \cup {n}
    BY <1>0, <1>2 DEF Listed, Owned
<1>4. NodesApart'
    <2>1. \A u \in Threads : u # t /\ pc[u] \in Owning => node[u] # n
        BY DEF NodesApart, Owned
    <2>2. \A u, v \in Threads : pc'[u] \in Owning /\ pc'[v] \in Owning
                                  /\ node'[u] = node'[v] => u = v
        BY <1>2, <2>1 DEF NodesApart
    <2>3. /\ Listed' \cap Owned' = {} /\ Listed' \cap held' = {}
          /\ Listed' \cap heap' = {} /\ Owned' \cap held' = {}
          /\ Owned' \cap heap' = {} /\ held' \cap heap' = {}
          /\ Nodes \subseteq Listed' \cup Owned' \cup held' \cup heap'
        BY <1>0, <1>3 DEF NodesApart
    <2> QED  BY <1>0, <2>2, <2>3 DEF NodesApart
<1>5. ListLinked'
    BY <1>0 DEF ListLinked
<1>6. FlagsTell'
    <2>1. \A m \in Listed : m \in Nodes /\ m # n
        BY DEF TypeOK, Listed, NodesApart
    <2> QED  BY <1>0, <1>3, <2>1 DEF FlagsTell, TypeOK
<1>7. CopiesKnown'
    <2>1. \A u \in Threads : u # t /\ pc[u] \in FreeStates => node[u] \in Nodes
        BY DEF TypeOK, Owning
    <2>2. pc'[t] = "freePtr" /\ node'[t] = n /\ freeFlag'[n]
        BY <1>0, <1>2 DEF TypeOK
    <2> QED  BY <1>0, <1>2, <2>1, <2>2 DEF CopiesKnown, TypeOK, FreeStates
<1> QED  BY <1>1, <1>4, <1>5, <1>6, <1>7

\* Free links its own node, which is in no list.
LEMMA FreeLinkInv == ASSUME IInv, NEW t \in Threads, FreeLink(t) PROVE IInv'
<1> USE DEF IInv
<1> DEFINE n == node[t]
<1>0. /\ pc[t] = "freeLink" /\ pc' = [pc EXCEPT ![t] = "freeCas"]
      /\ next' = [next EXCEPT ![n] = tempTop[t].ptr]
      /\ UNCHANGED <<top, freeFlag, heap, tempTop, seen, node, held, list, calls>>
      /\ n \in Nodes /\ pc[t] \in Owning
    BY DEF FreeLink, Goto, TypeOK, Owning, FreeStates, locals
<1>1. TypeOK'
    BY <1>0 DEF TypeOK, TopCheck, NodeOrNull, States, Owning, Allocating, FreeStates
<1>2. \A u \in Threads : pc'[u] \in Owning <=> pc[u] \in Owning
    BY <1>0 DEF TypeOK, Owning, FreeStates
<1>3. Listed' = Listed /\ Owned' = Owned
    BY <1>0, <1>2 DEF Listed, Owned
<1>4. NodesApart'
    BY <1>0, <1>2, <1>3 DEF NodesApart
<1>5. n \notin Listed
    BY <1>0 DEF NodesApart, Owned
<1>6. ListLinked'
    <2>1. \A i \in 1..Len(list) : list[i] \in Nodes /\ list[i] # n
        BY <1>5 DEF TypeOK, Listed
    <2> QED  BY <1>0, <2>1 DEF ListLinked, TypeOK
<1>7. FlagsTell'
    BY <1>0, <1>3 DEF FlagsTell, TypeOK
<1>8. CopiesKnown'
    <2>1. \A u \in Threads : u # t /\ pc[u] \in FreeStates =>
                node[u] \in Nodes /\ node[u] # n
        BY <1>0 DEF TypeOK, NodesApart, Owning
    <2>2. top.ptr # n
        BY <1>0, <1>5 DEF ListLinked, Listed, TypeOK
    <2>3. /\ pc'[t] = "freeCas" /\ next'[n] = tempTop[t].ptr
          /\ \A u \in Threads : u # t => pc'[u] = pc[u]
        BY <1>0 DEF TypeOK
    <2> QED  BY <1>0, <2>1, <2>2, <2>3 DEF CopiesKnown, TypeOK, TopCheck, NodeOrNull, FreeStates
<1> QED  BY <1>1, <1>4, <1>6, <1>7, <1>8

\* Free's exchange succeeding puts the thread's node on top of the list.
LEMMA FreeExchangeInv == ASSUME IInv, NEW t \in Threads, FreeExchange(t) PROVE IInv'
<1> USE DEF IInv
<1> DEFINE n == node[t]
<1>0. /\ pc[t] = "freeCas" /\ pc' = [pc EXCEPT ![t] = "idle"]
      /\ top = tempTop[t] /\ top' = [ptr |-> n, id |-> top.id + 1]
      /\ node' = [node EXCEPT ![t] = Null] /\ list' = <<n>> \o list
      /\ UNCHANGED <<next, freeFlag, heap, tempTop, seen, held, calls>>
      /\ n \in Nodes /\ pc[t] \in Owning
    BY DEF FreeExchange, Goto, Same, TypeOK, Owning, FreeStates
<1>b. /\ list' \in Seq(Nodes) /\ Len(list') = Len(list) + 1 /\ list'[1] = n
      /\ \A i \in 2..(Len(list) + 1) : list'[i] = list[i - 1]
      /\ list' # <<>> /\ Len(list) \in Nat
    BY <1>0, ConsFacts DEF TypeOK
<1>1. TypeOK'
    BY <1>0, <1>b DEF TypeOK, TopCheck, States, Owning, Allocating, FreeStates,
           NodeOrNull
<1>2. Listed' = Listed \cup {n}
    <2>1. \A x \in Listed' : x \in Listed \/ x = n
        BY <1>b DEF Listed
    <2>2. n \in Listed'
        BY <1>b DEF Listed
    <2>3. ASSUME NEW x \in Listed PROVE x \in Listed'
        <3>1. PICK i \in 1..Len(list) : x = list[i]
            BY DEF Listed
        <3>2. i + 1 \in 1..Len(list') /\ list'[i + 1] = x
            BY <1>b, <3>1
        <3> QED  BY <3>2 DEF Listed
    <2> QED  BY <2>1, <2>2, <2>3
<1>3. /\ pc'[t] \notin Owning
      /\ \A u \in Threads : u # t => pc'[u] = pc[u] /\ node'[u] = node[u]
    BY <1>0 DEF TypeOK, Owning, FreeStates
<1>4. n \in Owned
    BY <1>0 DEF Owned
<1>5. Owned' = Owned \ {n}
    <2>1. \A u \in Threads : u # t /\ pc[u] \in Owning => node[u] # n
        BY <1>0 DEF NodesApart
    <2> QED  BY <1>3, <2>1 DEF Owned
<1>6. NodesApart'
    <2>1. ASSUME NEW i \in 1..Len(list'), NEW j \in 1..Len(list'), list'[i] = list'[j]
          PROVE  i = j
        <3>1. \A k \in 2..Len(list') : list'[k] = list[k - 1] /\ list'[k] # n
                                        /\ k - 1 \in 1..Len(list)
            BY <1>b, <1>4 DEF NodesApart, Listed
        <3>2. CASE i = 1 \/ j = 1
            BY <1>b, <2>1, <3>1, <3>2
        <3>3. CASE i # 1 /\ j # 1
            <4>1. list[i - 1] = list[j - 1] /\ i - 1 \in 1..Len(list) /\ j - 1 \in 1..Len(list)
                BY <1>b, <2>1, <3>1, <3>3
            <4>2. i - 1 = j - 1
                BY <4>1 DEF NodesApart
            <4> QED  BY <4>2
        <3> QED  BY <3>2, <3>3
    <2>2. \A u, v \in Threads : pc'[u] \in Owning /\ pc'[v] \in Owning
                                  /\ node'[u] = node'[v] => u = v
        BY <1>3 DEF NodesApart
    <2>3. /\ Listed' \cap Owned' = {} /\ Listed' \cap held' = {}
          /\ Listed' \cap heap' = {} /\ Owned' \cap held' = {}
          /\ Owned' \cap heap' = {} /\ held' \cap heap' = {}
          /\ Nodes \subseteq Listed' \cup Owned' \cup held' \cup heap'
        BY <1>0, <1>2, <1>4, <1>5 DEF NodesApart
    <2> QED  BY <2>1, <2>2, <2>3 DEF NodesApart
<1>7. ListLinked'
    <2>1. next[n] = IF list = <<>> THEN Null ELSE list[1]
        BY <1>0 DEF CopiesKnown, ListLinked
    <2>2. ASSUME NEW i \in 1..Len(list')
          PROVE  next'[list'[i]] = IF i = Len(list') THEN Null ELSE list'[i + 1]
        <3>1. CASE i = 1
            <4>1. (list = <<>>) <=> (Len(list) = 0)
                BY DEF TypeOK
            <4>2. Len(list) > 0 => list'[2] = list[1]
                BY <1>b
            <4> QED  BY <1>0, <1>b, <2>1, <3>1, <4>1, <4>2
        <3>2. CASE i # 1
            <4>1. /\ i - 1 \in 1..Len(list) /\ list'[i] = list[i - 1]
                  /\ i = Len(list') <=> i - 1 = Len(list)
                  /\ i # Len(list') => list'[i + 1] = list[(i - 1) + 1]
                BY <1>b, <3>2
            <4> QED  BY <1>0, <4>1 DEF ListLinked
        <3> QED  BY <3>1, <3>2
    <2> QED  BY <1>0, <1>b, <2>2 DEF ListLinked
<1>8. FlagsTell'
    <2>1. freeFlag[n]
        BY <1>0 DEF CopiesKnown, FreeStates
    <2> QED  BY <1>0, <1>2, <2>1 DEF FlagsTell, TypeOK
<1>9. CopiesKnown'
    BY <1>0, <1>3 DEF CopiesKnown, TypeOK, TopCheck, FreeStates
<1> QED  BY <1>1, <1>6, <1>7, <1>8, <1>9

-----------------------------------------------------------------------------
\* Every step of every thread preserves the invariant.
LEMMA StepInv == IInv /\ [Next]_vars => IInv'
<1> SUFFICES ASSUME IInv, [Next]_vars PROVE IInv'
    OBVIOUS
<1>1. ASSUME NEW t \in Threads, Call(t) PROVE IInv'
    BY <1>1, AllocInv, FreeInv DEF Call
<1>2. ASSUME NEW t \in Threads, Step(t) PROVE IInv'
    BY <1>2, AllocReadIDInv, HeapInv, AllocReadNextInv, AllocExchangeInv,
       AllocRetryInv, AllocReturnInv, FreeReadPtrInv, FreeReadIDInv, FreeLinkInv,
       FreeExchangeInv, FreeRetryInv DEF Step
<1>3. CASE UNCHANGED vars
    <2>1. UNCHANGED <<top, next, freeFlag, heap, pc, tempTop, seen, node, held,
                      list, calls>>
        BY <1>3 DEF vars, shared, locals
    <2>2. TypeOK'
        BY <2>1 DEF IInv, TypeOK
    <2>3. Listed' = Listed /\ Owned' = Owned
        BY <2>1 DEF Listed, Owned
    <2> QED  BY <2>1, <2>2, <2>3 DEF IInv, NodesApart, ListLinked, FlagsTell, CopiesKnown
<1> QED  BY <1>1, <1>2, <1>3 DEF Next

\* The invariant holds in every reachable state, for any threads and nodes.
THEOREM Invariance == Spec => []IInv
<1> QED  BY InitInv, StepInv, PTL DEF Spec

\* The variables keep their types: in particular a thread past Alloc's exchange,
\* or inside Free, has a node.
THEOREM TypeCorrect == Spec => []TypeOK
<1>1. IInv => TypeOK
    BY DEF IInv
<1> QED  BY <1>1, Invariance, PTL

\* No interleaving of Alloc and Free hands a node out twice or loses one.
THEOREM NoNodeTwice == Spec => []NodesApart
<1>1. IInv => NodesApart
    BY DEF IInv
<1> QED  BY <1>1, Invariance, PTL

\* The links from the top lead through exactly the nodes that were given back:
\* the counter m_checkID rules out the ABA problem.
THEOREM LinksRight == Spec => []ListLinked
<1>1. IInv => ListLinked
    BY DEF IInv
<1> QED  BY <1>1, Invariance, PTL

\* Free never throws "Twice Free" at a client that frees what it was handed out.
THEOREM FlagsRight == Spec => []FlagsTell
<1>1. IInv => FlagsTell
    BY DEF IInv
<1> QED  BY <1>1, Invariance, PTL
=============================================================================
