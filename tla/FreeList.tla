------------------------------ MODULE FreeList ------------------------------
(***************************************************************************)
(* FreeList: a lock-free list of recycled nodes.  The top of the list and  *)
(* a counter, m_checkID, are compared and exchanged together by            *)
(* InterlockedCompareExchange128.                                          *)
(*                                                                         *)
(* Granularity: every read or write of shared memory is a step of its own; *)
(* the two halves of m_TopCheck are read one after the other.  The mark ID *)
(* and mark value never change, so Free's first test cannot fail for a     *)
(* node of this list.  m_checkID has 64 bits and does not wrap.            *)
(*                                                                         *)
(* The clients are any code that gives back only what it was handed out:   *)
(* a node that Alloc returned may be freed by another thread.              *)
(***************************************************************************)
EXTENDS Integers, Sequences, FiniteSets

CONSTANTS Threads,
          Nodes,    \* bound: the addresses _aligned_malloc may return
          Null,
          MaxCalls  \* bound: calls of Alloc and Free

ASSUME FreeListAssumption == Null \notin Nodes /\ MaxCalls \in Nat

VARIABLES
    top,       \* *m_TopCheck: m_topPtr and m_checkID
    next,      \* next[n]: FreeList::Node::m_next
    freeFlag,  \* freeFlag[n]: MemHeader::m_freeFlag
    heap,      \* addresses _aligned_malloc has not returned yet
    pc,        \* pc[t]: where t is in Alloc or Free
    tempTop,   \* tempTop[t]: the local copy of *m_TopCheck
    seen,      \* seen[t]: tempTop.m_topPtr->m_next as t read it
    node,      \* node[t]: the node t is freeing or has taken, or Null
    held,      \* the nodes the clients have
    list,      \* history: the nodes of the list, top first
    calls      \* number of calls so far

shared == <<top, next, freeFlag, heap>>
locals == <<tempTop, seen, node>>
vars == <<shared, pc, locals, held, list, calls>>

NodeOrNull == Nodes \cup {Null}
TopCheck == [ptr : NodeOrNull, id : Nat]

Allocating == {"allocId", "allocTest", "allocCas"}
FreeStates == {"freePtr", "freeId", "freeLink", "freeCas"}

\* t has exclusive access to node[t].
Owning == {"allocInit"} \cup FreeStates

States == {"idle", "thrown"} \cup Allocating \cup Owning

Init ==
    /\ top = [ptr |-> Null, id |-> 0]
    /\ next = [n \in Nodes |-> Null]
    /\ freeFlag = [n \in Nodes |-> FALSE]
    /\ heap = Nodes
    /\ pc = [t \in Threads |-> "idle"]
    /\ tempTop = [t \in Threads |-> top]
    /\ seen = [t \in Threads |-> Null]
    /\ node = [t \in Threads |-> Null]
    /\ held = {}
    /\ list = <<>>
    /\ calls = 0

Goto(t, s) == pc' = [pc EXCEPT ![t] = s]

-----------------------------------------------------------------------------
(***************************************************************************)
(* Alloc                                                                   *)
(***************************************************************************)

\* Bound: every call of Alloc could be served by _aligned_malloc.
MemoryLeft ==
    Cardinality({u \in Threads : pc[u] \in Allocating}) < Cardinality(heap)

\* A client calls Alloc, which reads m_topPtr ...
Alloc(t) ==
    /\ pc[t] = "idle"
    /\ calls < MaxCalls
    /\ MemoryLeft
    /\ calls' = calls + 1
    /\ tempTop' = [tempTop EXCEPT ![t].ptr = top.ptr]
    /\ Goto(t, "allocId")
    /\ UNCHANGED <<shared, seen, node, held, list>>

\* ... and then m_checkID.
AllocReadID(t) ==
    /\ pc[t] = "allocId"
    /\ tempTop' = [tempTop EXCEPT ![t].id = top.id]
    /\ Goto(t, "allocTest")
    /\ UNCHANGED <<shared, seen, node, held, list, calls>>

\* The list looked empty: AllocateMemoryFromHeap, which also returns.
AllocateMemoryFromHeap(t) ==
    /\ pc[t] = "allocTest"
    /\ tempTop[t].ptr = Null
    /\ \E n \in heap :
          /\ heap' = heap \ {n}
          /\ held' = held \cup {n}
          /\ freeFlag' = [freeFlag EXCEPT ![n] = FALSE]
          /\ next' = [next EXCEPT ![n] = Null]
    /\ Goto(t, "idle")
    /\ UNCHANGED <<top, locals, list, calls>>

\* tempTop.m_topPtr->m_next is read for the exchange.
AllocReadNext(t) ==
    /\ pc[t] = "allocTest"
    /\ tempTop[t].ptr # Null
    /\ seen' = [seen EXCEPT ![t] = next[tempTop[t].ptr]]
    /\ Goto(t, "allocCas")
    /\ UNCHANGED <<shared, tempTop, node, held, list, calls>>

\* Slip: m_checkID is not compared.
SamePointer(a, b) == a.ptr = b.ptr

\* InterlockedCompareExchange128 compares pointer and counter.
Same(a, b) == a = b

\* Slip: the successor is returned.
AllocExchangeNext(t) ==
    /\ pc[t] = "allocCas"
    /\ Same(top, tempTop[t])
    /\ top' = [ptr |-> seen[t], id |-> tempTop[t].id + 1]
    /\ node' = [node EXCEPT ![t] = seen[t]]
    /\ list' = Tail(list)
    /\ Goto(t, "allocInit")
    /\ UNCHANGED <<next, freeFlag, heap, tempTop, seen, held, calls>>

\* InterlockedCompareExchange128 succeeds: the node is taken off the list.
AllocExchange(t) ==
    /\ pc[t] = "allocCas"
    /\ Same(top, tempTop[t])
    /\ top' = [ptr |-> seen[t], id |-> tempTop[t].id + 1]
    /\ node' = [node EXCEPT ![t] = tempTop[t].ptr]
    /\ list' = Tail(list)
    /\ Goto(t, "allocInit")
    /\ UNCHANGED <<next, freeFlag, heap, tempTop, seen, held, calls>>

\* It fails and stores the present top in tempTop: the loop starts again.
AllocRetry(t) ==
    /\ pc[t] = "allocCas"
    /\ ~Same(top, tempTop[t])
    /\ tempTop' = [tempTop EXCEPT ![t] = top]
    /\ Goto(t, "allocTest")
    /\ UNCHANGED <<shared, seen, node, held, list, calls>>

\* Slip: m_freeFlag is not reset.
AllocReturnFlagged(t) ==
    /\ pc[t] = "allocInit"
    /\ next' = [next EXCEPT ![node[t]] = Null]
    /\ held' = held \cup {node[t]}
    /\ node' = [node EXCEPT ![t] = Null]
    /\ Goto(t, "idle")
    /\ UNCHANGED <<top, heap, freeFlag, tempTop, seen, list, calls>>

\* m_freeFlag.exchange(false), construct_at, and Alloc returns the node.
AllocReturn(t) ==
    /\ pc[t] = "allocInit"
    /\ freeFlag' = [freeFlag EXCEPT ![node[t]] = FALSE]
    /\ next' = [next EXCEPT ![node[t]] = Null]
    /\ held' = held \cup {node[t]}
    /\ node' = [node EXCEPT ![t] = Null]
    /\ Goto(t, "idle")
    /\ UNCHANGED <<top, heap, tempTop, seen, list, calls>>

-----------------------------------------------------------------------------
(***************************************************************************)
(* Free                                                                    *)
(***************************************************************************)

\* A client calls Free: m_freeFlag.exchange(true) throws when it was set.
Free(t) ==
    /\ pc[t] = "idle"
    /\ calls < MaxCalls
    /\ calls' = calls + 1
    /\ \E n \in held :
          /\ held' = held \ {n}
          /\ node' = [node EXCEPT ![t] = n]
          /\ freeFlag' = [freeFlag EXCEPT ![n] = TRUE]
          /\ Goto(t, IF freeFlag[n] THEN "thrown" ELSE "freePtr")
    /\ UNCHANGED <<top, next, heap, tempTop, seen, list>>

\* Free reads m_topPtr ...
FreeReadPtr(t) ==
    /\ pc[t] = "freePtr"
    /\ tempTop' = [tempTop EXCEPT ![t].ptr = top.ptr]
    /\ Goto(t, "freeId")
    /\ UNCHANGED <<shared, seen, node, held, list, calls>>

\* ... and then m_checkID.
FreeReadID(t) ==
    /\ pc[t] = "freeId"
    /\ tempTop' = [tempTop EXCEPT ![t].id = top.id]
    /\ Goto(t, "freeLink")
    /\ UNCHANGED <<shared, seen, node, held, list, calls>>

\* freeNode->m_next = tempTop.m_topPtr
FreeLink(t) ==
    /\ pc[t] = "freeLink"
    /\ next' = [next EXCEPT ![node[t]] = tempTop[t].ptr]
    /\ Goto(t, "freeCas")
    /\ UNCHANGED <<top, freeFlag, heap, locals, held, list, calls>>

\* InterlockedCompareExchange128 succeeds: the node is the new top.
FreeExchange(t) ==
    /\ pc[t] = "freeCas"
    /\ Same(top, tempTop[t])
    /\ top' = [ptr |-> node[t], id |-> tempTop[t].id + 1]
    /\ node' = [node EXCEPT ![t] = Null]
    /\ list' = <<node[t]>> \o list
    /\ Goto(t, "idle")
    /\ UNCHANGED <<next, freeFlag, heap, tempTop, seen, held, calls>>

\* It fails and stores the present top in tempTop: the loop starts again.
FreeRetry(t) ==
    /\ pc[t] = "freeCas"
    /\ ~Same(top, tempTop[t])
    /\ tempTop' = [tempTop EXCEPT ![t] = top]
    /\ Goto(t, "freeLink")
    /\ UNCHANGED <<shared, seen, node, held, list, calls>>

-----------------------------------------------------------------------------
Call(t) == Alloc(t) \/ Free(t)

Step(t) ==
    \/ AllocReadID(t) \/ AllocateMemoryFromHeap(t) \/ AllocReadNext(t)
    \/ AllocExchange(t) \/ AllocRetry(t) \/ AllocReturn(t)
    \/ FreeReadPtr(t) \/ FreeReadID(t) \/ FreeLink(t)
    \/ FreeExchange(t) \/ FreeRetry(t)

Next == \E t \in Threads : Call(t) \/ Step(t)

Spec == Init /\ [][Next]_vars

-----------------------------------------------------------------------------
\* The variables have the values their code can give them.
TypeOK ==
    /\ top \in TopCheck
    /\ next \in [Nodes -> NodeOrNull]
    /\ freeFlag \in [Nodes -> BOOLEAN]
    /\ heap \subseteq Nodes
    /\ pc \in [Threads -> States]
    /\ tempTop \in [Threads -> TopCheck]
    /\ seen \in [Threads -> NodeOrNull]
    /\ node \in [Threads -> NodeOrNull]
    /\ \A t \in Threads : pc[t] \in Owning => node[t] \in Nodes
    /\ held \subseteq Nodes
    /\ list \in Seq(Nodes)
    /\ calls \in Nat

Listed == {list[i] : i \in 1..Len(list)}

Owned == {node[t] : t \in {u \in Threads : pc[u] \in Owning}}

\* Alloc and Free, whatever the interleaving of their exchanges, move a node
\* between the list, one thread, a client and the heap: it is never in two of
\* these places, and no node is lost.
NodesApart ==
    /\ \A i, j \in 1..Len(list) : list[i] = list[j] => i = j
    /\ \A t, u \in Threads :
          pc[t] \in Owning /\ pc[u] \in Owning /\ node[t] = node[u] => t = u
    /\ Listed \cap Owned = {} /\ Listed \cap held = {} /\ Listed \cap heap = {}
    /\ Owned \cap held = {} /\ Owned \cap heap = {} /\ held \cap heap = {}
    /\ Nodes \subseteq Listed \cup Owned \cup held \cup heap

\* The links from m_topPtr on lead through exactly the nodes that were given
\* back and not taken again, newest first, although Alloc's exchange installs
\* a link it read earlier.
ListLinked ==
    /\ top.ptr = IF list = <<>> THEN Null ELSE list[1]
    /\ \A i \in 1..Len(list) :
          next[list[i]] = IF i = Len(list) THEN Null ELSE list[i + 1]

\* m_freeFlag tells whether a node was given back: it is set for every node of
\* the list and not set for one that a client has, so that Free throws "Twice
\* Free" at no client that frees what it was handed out.
FlagsTell ==
    /\ \A n \in Listed : freeFlag[n]
    /\ \A n \in held : ~freeFlag[n]
    /\ \A t \in Threads : pc[t] # "thrown"

=============================================================================
