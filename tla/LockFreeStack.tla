--------------------------- MODULE LockFreeStack ----------------------------
(***************************************************************************)
(* LockFreeStack: the stack of recycled batches that the threads' object   *)
(* pools share.  m_count is decremented before a node is taken and         *)
(* incremented after a node was added, so that a Pop that got past its     *)
(* test need not look whether the stack is empty.                          *)
(*                                                                         *)
(* Granularity: every access to m_topCheck, to m_next of a shared node and *)
(* to m_count is a step.  m_memoryPool is a FreeList: Alloc and Free are   *)
(* steps that hand out any node that is not out and take one back, which   *)
(* is what NodesApart of FreeList says they do.  A node that was freed     *)
(* stays readable, and a late reader sees what its next owner writes.      *)
(***************************************************************************)
EXTENDS Integers, Sequences, FiniteSets

CONSTANTS Threads,
          Nodes,    \* bound: nodes m_memoryPool may hand out
          Null,
          MaxCalls  \* bound: calls of Push and Pop

ASSUME StackAssumption ==
    Null \notin Nodes /\ MaxCalls \in Nat /\ IsFiniteSet(Threads)

VARIABLES
    top,      \* *m_topCheck: m_topPtr and m_checkID
    count,    \* m_count
    next,     \* next[n]: Node::m_next
    data,     \* data[n]: Node::m_data, the number of the call that pushed it
    out,      \* the nodes m_memoryPool has handed out
    pc,       \* pc[t]: where t is in Push or Pop
    tempTop,  \* tempTop[t]: the local copy of *m_topCheck
    seen,     \* seen[t]: tempTop.m_topPtr->m_next as t read it
    node,     \* node[t]: newNode, or Null
    result,   \* result[t]: *outData
    items,    \* history: the nodes of the stack and their data, top first
    taken,    \* history: taken[t] is the item that was on top when t took it
    calls     \* number of calls so far

locals == <<tempTop, seen, node, result>>
histories == <<items, taken>>
vars == <<top, count, next, data, out, pc, locals, histories, calls>>

\* A TopCheck that was just constructed.
NoTop == [ptr |-> Null, id |-> -1]

Init ==
    /\ top = NoTop
    /\ count = 0
    /\ next = [n \in Nodes |-> Null]
    /\ data = [n \in Nodes |-> 0]
    /\ out = {}
    /\ pc = [t \in Threads |-> "idle"]
    /\ tempTop = [t \in Threads |-> NoTop]
    /\ seen = [t \in Threads |-> Null]
    /\ node = [t \in Threads |-> Null]
    /\ result = [t \in Threads |-> 0]
    /\ items = <<>>
    /\ taken = [t \in Threads |-> 0]
    /\ calls = 0

Goto(t, s) == pc' = [pc EXCEPT ![t] = s]

Begin(t) ==
    /\ pc[t] = "idle"
    /\ calls < MaxCalls
    /\ calls' = calls + 1

\* The call returns and its locals are gone.
Return(t) ==
    /\ Goto(t, "idle")
    /\ tempTop' = [tempTop EXCEPT ![t] = NoTop]
    /\ seen' = [seen EXCEPT ![t] = Null]
    /\ node' = [node EXCEPT ![t] = Null]
    /\ result' = [result EXCEPT ![t] = 0]
    /\ taken' = [taken EXCEPT ![t] = 0]

\* m_topPtr is read ...
ReadPtr(t) == tempTop' = [tempTop EXCEPT ![t].ptr = top.ptr]

\* ... and then m_checkID.
ReadID(t) == tempTop' = [tempTop EXCEPT ![t].id = top.id]

\* Slip: m_checkID is not compared.
SamePointer(a, b) == a.ptr = b.ptr

\* InterlockedCompareExchange128 compares pointer and counter.
Same(a, b) == a = b

-----------------------------------------------------------------------------
(***************************************************************************)
(* Push                                                                    *)
(***************************************************************************)

\* m_memoryPool.Alloc(); the node is filled while no other thread owns it.
Push(t) ==
    /\ Begin(t)
    /\ \E n \in Nodes \ out :
          /\ out' = out \cup {n}
          /\ node' = [node EXCEPT ![t] = n]
          /\ data' = [data EXCEPT ![n] = calls + 1]
          /\ next' = [next EXCEPT ![n] = Null]
    /\ Goto(t, "pushPtr")
    /\ UNCHANGED <<top, count, tempTop, seen, result, histories>>

PushReadPtr(t) ==
    /\ pc[t] = "pushPtr"
    /\ ReadPtr(t)
    /\ Goto(t, "pushId")
    /\ UNCHANGED <<top, count, next, data, out, seen, node, result, histories,
                   calls>>

PushReadID(t) ==
    /\ pc[t] = "pushId"
    /\ ReadID(t)
    /\ Goto(t, "pushLink")
    /\ UNCHANGED <<top, count, next, data, out, seen, node, result, histories,
                   calls>>

\* newNode->m_next = tempTop.m_topPtr
PushLink(t) ==
    /\ pc[t] = "pushLink"
    /\ next' = [next EXCEPT ![node[t]] = tempTop[t].ptr]
    /\ Goto(t, "pushCas")
    /\ UNCHANGED <<top, count, data, out, locals, histories, calls>>

\* The exchange succeeds: the node is on the stack.
PushExchange(t) ==
    /\ pc[t] = "pushCas"
    /\ Same(top, tempTop[t])
    /\ top' = [ptr |-> node[t], id |-> tempTop[t].id + 1]
    /\ items' = <<[node |-> node[t], data |-> data[node[t]]]>> \o items
    /\ Goto(t, "pushCount")
    /\ UNCHANGED <<count, next, data, out, locals, taken, calls>>

\* The exchange fails and stores the present top in tempTop.
PushRetry(t) ==
    /\ pc[t] = "pushCas"
    /\ ~Same(top, tempTop[t])
    /\ tempTop' = [tempTop EXCEPT ![t] = top]
    /\ Goto(t, "pushLink")
    /\ UNCHANGED <<top, count, next, data, out, seen, node, result, histories,
                   calls>>

\* m_count++, and Push returns.
PushCount(t) ==
    /\ pc[t] = "pushCount"
    /\ count' = count + 1
    /\ Return(t)
    /\ UNCHANGED <<top, next, data, out, items, calls>>

-----------------------------------------------------------------------------
(***************************************************************************)
(* Pop                                                                     *)
(***************************************************************************)

\* Slip: the value before the decrement is tested.
NoneLeftLate(before) == before < 0

\* Pop's test of m_count, which was before until Pop decremented it.
NoneLeft(before) == before - 1 < 0

\* --m_count reserves an element; below 0 there is none.
Pop(t) ==
    /\ Begin(t)
    /\ count' = count - 1
    /\ Goto(t, IF NoneLeft(count) THEN "popFail" ELSE "popPtr")
    /\ UNCHANGED <<top, next, data, out, locals, histories>>

\* ++m_count, and Pop returns false.
PopFail(t) ==
    /\ pc[t] = "popFail"
    /\ count' = count + 1
    /\ Return(t)
    /\ UNCHANGED <<top, next, data, out, items, calls>>

PopReadPtr(t) ==
    /\ pc[t] = "popPtr"
    /\ ReadPtr(t)
    /\ Goto(t, "popId")
    /\ UNCHANGED <<top, count, next, data, out, seen, node, result, histories,
                   calls>>

PopReadID(t) ==
    /\ pc[t] = "popId"
    /\ ReadID(t)
    /\ Goto(t, "popNext")
    /\ UNCHANGED <<top, count, next, data, out, seen, node, result, histories,
                   calls>>

\* tempTop.m_topPtr->m_next is read for the exchange; m_topPtr is not tested.
PopReadNext(t) ==
    /\ pc[t] = "popNext"
    /\ seen' = [seen EXCEPT ![t] = next[tempTop[t].ptr]]
    /\ Goto(t, "popCas")
    /\ UNCHANGED <<top, count, next, data, out, tempTop, node, result, histories,
                   calls>>

\* Slip: the node is freed at once, before its data is read.
OutAfterFreed(t) == out \ {tempTop[t].ptr}

\* The nodes that are out after Pop's exchange: its own is still needed.
OutAfter(t) == out

\* The exchange succeeds: the node is off the stack.
PopExchange(t) ==
    /\ pc[t] = "popCas"
    /\ Same(top, tempTop[t])
    /\ top' = [ptr |-> seen[t], id |-> tempTop[t].id + 1]
    /\ taken' = [taken EXCEPT ![t] = Head(items).data]
    /\ items' = Tail(items)
    /\ out' = OutAfter(t)
    /\ Goto(t, "popData")
    /\ UNCHANGED <<count, next, data, locals, calls>>

\* The exchange fails and stores the present top in tempTop.
PopRetry(t) ==
    /\ pc[t] = "popCas"
    /\ ~Same(top, tempTop[t])
    /\ tempTop' = [tempTop EXCEPT ![t] = top]
    /\ Goto(t, "popNext")
    /\ UNCHANGED <<top, count, next, data, out, seen, node, result, histories,
                   calls>>

\* *outData = tempTop.m_topPtr->m_data
PopData(t) ==
    /\ pc[t] = "popData"
    /\ result' = [result EXCEPT ![t] = data[tempTop[t].ptr]]
    /\ Goto(t, "popFree")
    /\ UNCHANGED <<top, count, next, data, out, tempTop, seen, node, histories,
                   calls>>

\* m_memoryPool.Free(tempTop.m_topPtr), and Pop returns true.
PopFree(t) ==
    /\ pc[t] = "popFree"
    /\ out' = out \ {tempTop[t].ptr}
    /\ Return(t)
    /\ UNCHANGED <<top, count, next, data, items, calls>>

-----------------------------------------------------------------------------
Call(t) == Push(t) \/ Pop(t)

Step(t) ==
    \/ PushReadPtr(t) \/ PushReadID(t) \/ PushLink(t) \/ PushExchange(t)
    \/ PushRetry(t) \/ PushCount(t)
    \/ PopFail(t) \/ PopReadPtr(t) \/ PopReadID(t) \/ PopReadNext(t)
    \/ PopExchange(t) \/ PopRetry(t) \/ PopData(t) \/ PopFree(t)

Next == \E t \in Threads : Call(t) \/ Step(t)

Spec == Init /\ [][Next]_vars

-----------------------------------------------------------------------------
\* A Pop that got past its test of m_count dereferences a null pointer at no
\* time: whatever the others push and pop meanwhile, the top it copies is a
\* node.
TopThere == \A t \in Threads : pc[t] \in {"popId", "popNext", "popCas"} =>
                tempTop[t].ptr # Null

\* The links from m_topPtr on lead through exactly the items on the stack, and
\* every item still has the data it was pushed with, although nodes are
\* recycled and an exchange installs a link that was read earlier.
StackLinked ==
    /\ top.ptr = IF items = <<>> THEN Null ELSE items[1].node
    /\ \A i \in 1..Len(items) :
          /\ items[i].node \in out
          /\ data[items[i].node] = items[i].data
          /\ next[items[i].node] =
                IF i = Len(items) THEN Null ELSE items[i + 1].node

\* Pop returns the item that was on top when its exchange took effect.
PopsTop == \A t \in Threads : pc[t] = "popFree" => result[t] = taken[t]
=============================================================================
