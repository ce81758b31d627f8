----------------------------- MODULE LockFreeQ ------------------------------
(***************************************************************************)
(* LockFreeQ: the queue behind NetworkSession::m_sendQueue.  Front and     *)
(* rear are pairs of a pointer and an ID.  The m_next of the last node is  *)
(* not null but a unique ID from m_rearID, which is larger than every      *)
(* address, and EnQ links a node by exchanging exactly that ID.            *)
(*                                                                         *)
(* Granularity: every access to m_frontCheck, m_rearCheck, m_count and to  *)
(* a field of a shared node is a step; the halves of a pair are read one   *)
(* after the other.  m_memoryPool is a FreeList: Alloc and Free are steps  *)
(* that hand out any node that is not out and take one back, which is what *)
(* NodesApart of FreeList says they do.  A node that was freed stays       *)
(* readable, and a late reader sees what its next owner writes.            *)
(***************************************************************************)
EXTENDS Integers, Sequences, FiniteSets

CONSTANTS Threads,
          Nodes,    \* bound: nodes m_memoryPool may hand out
          Null,
          MaxCalls  \* bound: calls of EnQ and DeQ

\* Every address is below KERNEL_ADDRESS: no node is taken for an ID.
ASSUME QueueAssumption ==
    /\ Null \notin Nodes \cup Nat
    /\ Nodes \cap Nat = {}
    /\ MaxCalls \in Nat
    /\ IsFiniteSet(Threads)

VARIABLES
    front,    \* *m_frontCheck: m_nodePtr and m_checkID
    rear,     \* *m_rearCheck
    rearID,   \* m_rearID, less KERNEL_ADDRESS
    count,    \* m_count
    next,     \* next[n]: Node::m_next, a node, an ID or Null
    data,     \* data[n]: Node::m_data, the number of the call of EnQ
    out,      \* the nodes m_memoryPool has handed out
    pc,       \* pc[t]: where t is in EnQ or DeQ
    temp,     \* temp[t]: tempRear or tempFront
    change,   \* change[t]: changeValue
    newNode,  \* newNode[t]
    value,    \* value[t]: EnQ's argument or DeQ's tempData
    items,    \* history: the nodes behind the front node, with their data
    taken,    \* history: taken[t] is what was first when t's DeQ took effect
    overlap,  \* history: two calls of DeQ overlapped
    calls     \* number of calls so far

queueVars == <<front, rear, rearID, count, next, data, out>>
locals == <<temp, change, newNode, value>>
histories == <<items, taken, overlap, calls>>
vars == <<queueVars, pc, locals, histories>>

Kernel == Nat            \* what is not below KERNEL_ADDRESS

\* A DeQ that got past its test of m_count and has not taken a node.
Reserved == {"deqPtr", "deqId", "deqNext", "deqData", "deqCas"}

\* A QCheck that was just constructed.
NoCheck == [ptr |-> Null, id |-> 0]

\* The constructor: front and rear are a dummy node that ends the queue.
Init ==
    \E dummy \in Nodes :
       /\ front = [ptr |-> dummy, id |-> 0]
       /\ rear = [ptr |-> dummy, id |-> 0]
       /\ rearID = 0
       /\ count = 0
       /\ next = [n \in Nodes |-> IF n = dummy THEN 0 ELSE Null]
       /\ data = [n \in Nodes |-> 0]
       /\ out = {dummy}
       /\ pc = [t \in Threads |-> "idle"]
       /\ temp = [t \in Threads |-> NoCheck]
       /\ change = [t \in Threads |-> NoCheck]
       /\ newNode = [t \in Threads |-> Null]
       /\ value = [t \in Threads |-> 0]
       /\ items = <<>>
       /\ taken = [t \in Threads |-> 0]
       /\ overlap = FALSE
       /\ calls = 0

Goto(t, s) == pc' = [pc EXCEPT ![t] = s]

\* An access violation ends the process.
Crashed == \E t \in Threads : pc[t] = "crashed"

Begin(t) ==
    /\ pc[t] = "idle"
    /\ calls < MaxCalls
    /\ calls' = calls + 1

\* The call returns and its locals are gone.
Return(t) ==
    /\ Goto(t, "idle")
    /\ temp' = [temp EXCEPT ![t] = NoCheck]
    /\ change' = [change EXCEPT ![t] = NoCheck]
    /\ newNode' = [newNode EXCEPT ![t] = Null]
    /\ value' = [value EXCEPT ![t] = 0]
    /\ taken' = [taken EXCEPT ![t] = 0]

\* Slip: the ID is not compared.
SamePointer(a, b) == a.ptr = b.ptr

\* InterlockedCompareExchange128 compares pointer and ID.
Same(a, b) == a = b

-----------------------------------------------------------------------------
(***************************************************************************)
(* EnQ                                                                     *)
(***************************************************************************)

\* m_memoryPool.Alloc() constructs the node: its fields are null ...
EnQ(t) ==
    /\ Begin(t)
    /\ \E n \in Nodes \ out :
          /\ out' = out \cup {n}
          /\ newNode' = [newNode EXCEPT ![t] = n]
          /\ next' = [next EXCEPT ![n] = Null]
          /\ data' = [data EXCEPT ![n] = 0]
    /\ value' = [value EXCEPT ![t] = calls + 1]
    /\ Goto(t, "enqFill")
    /\ UNCHANGED <<front, rear, rearID, count, temp, change, items, taken, overlap>>

\* ... and then the data and a new ID are stored.
EnQFill(t) ==
    /\ pc[t] = "enqFill"
    /\ data' = [data EXCEPT ![newNode[t]] = value[t]]
    /\ rearID' = rearID + 1
    /\ next' = [next EXCEPT ![newNode[t]] = rearID + 1]
    /\ Goto(t, "enqPtr")
    /\ UNCHANGED <<front, rear, count, out, locals, histories>>

EnQReadPtr(t) ==
    /\ pc[t] = "enqPtr"
    /\ temp' = [temp EXCEPT ![t].ptr = rear.ptr]
    /\ Goto(t, "enqId")
    /\ UNCHANGED <<queueVars, change, newNode, value, histories>>

EnQReadID(t) ==
    /\ pc[t] = "enqId"
    /\ temp' = [temp EXCEPT ![t].id = rear.id]
    /\ Goto(t, "enqLink")
    /\ UNCHANGED <<queueVars, change, newNode, value, histories>>

\* CAS 1 succeeds: the node at the rear still ends with the ID that was read,
\* and the new node is linked.
EnQLink(t) ==
    /\ pc[t] = "enqLink"
    /\ next[temp[t].ptr] = temp[t].id
    /\ next' = [next EXCEPT ![temp[t].ptr] = newNode[t]]
    /\ items' = Append(items, [node |-> newNode[t], data |-> value[t]])
    /\ Goto(t, "enqLinked")
    /\ UNCHANGED <<front, rear, rearID, count, data, out, locals, taken, overlap,
                   calls>>

\* CAS 1 fails.
EnQLinkFails(t) ==
    /\ pc[t] = "enqLink"
    /\ next[temp[t].ptr] # temp[t].id
    /\ Goto(t, "enqHelp")
    /\ UNCHANGED <<queueVars, locals, histories>>

\* The successor is read: an ID means that the rear is up to date; a null
\* pointer, of a node that is being allocated again, is dereferenced.
EnQHelp(t) ==
    /\ pc[t] = "enqHelp"
    /\ LET successor == next[temp[t].ptr]
       IN  IF successor \in Kernel
           THEN Goto(t, "enqPtr") /\ UNCHANGED change
           ELSE /\ change' = [change EXCEPT ![t].ptr = successor]
                /\ Goto(t, IF successor = Null THEN "crashed" ELSE "enqHelpNext")
    /\ UNCHANGED <<queueVars, temp, newNode, value, histories>>

EnQHelpNext(t) ==
    /\ pc[t] = "enqHelpNext"
    /\ change' = [change EXCEPT ![t].id = next[change[t].ptr]]
    /\ Goto(t, "enqHelpCas")
    /\ UNCHANGED <<queueVars, temp, newNode, value, histories>>

\* An exchange of the rear, which does nothing once the rear has moved.
Exchanged(t) == IF Same(rear, temp[t]) THEN change[t] ELSE rear

\* The rear is moved to the successor.
EnQHelpExchange(t) ==
    /\ pc[t] = "enqHelpCas"
    /\ rear' = Exchanged(t)
    /\ Goto(t, "enqPtr")
    /\ UNCHANGED <<front, rearID, count, next, data, out, locals, histories>>

\* After CAS 1: newNode->m_next is read again for CAS 2.
EnQReadNext(t) ==
    /\ pc[t] = "enqLinked"
    /\ change' = [change EXCEPT ![t] = [ptr |-> newNode[t], id |-> next[newNode[t]]]]
    /\ Goto(t, "enqRear")
    /\ UNCHANGED <<queueVars, temp, newNode, value, histories>>

\* Slip: CAS 2 is left out, since another EnQ would move the rear.
RearAfterSkipped(t) == rear

\* The rear after CAS 2.
RearAfter(t) == Exchanged(t)

\* CAS 2: the rear is moved to the new node unless another EnQ did it.
EnQRear(t) ==
    /\ pc[t] = "enqRear"
    /\ rear' = RearAfter(t)
    /\ Goto(t, "enqCount")
    /\ UNCHANGED <<front, rearID, count, next, data, out, locals, histories>>

\* InterlockedIncrement(&m_count), and EnQ returns.
EnQCount(t) ==
    /\ pc[t] = "enqCount"
    /\ count' = count + 1
    /\ Return(t)
    /\ UNCHANGED <<front, rear, rearID, next, data, out, items, overlap, calls>>

-----------------------------------------------------------------------------
(***************************************************************************)
(* DeQ                                                                     *)
(***************************************************************************)

InDeQ == {"deqFail", "deqFree"} \cup Reserved

\* Slip: the value before the decrement is tested.
NoneLeftLate(before) == before < 0

\* DeQ's test of m_count, which was before until DeQ decremented it.
NoneLeft(before) == before - 1 < 0

\* InterlockedDecrement(&m_count) reserves an element; below 0 there is none.
DeQ(t) ==
    /\ Begin(t)
    /\ count' = count - 1
    /\ Goto(t, IF NoneLeft(count) THEN "deqFail" ELSE "deqPtr")
    /\ overlap' = (overlap \/ \E u \in Threads : pc[u] \in InDeQ)
    /\ UNCHANGED <<front, rear, rearID, next, data, out, locals, items, taken>>

\* Slip: m_count is not restored.
RestoredNot == count

\* m_count after a DeQ that found nothing.
Restored == count + 1

\* m_count is restored, and DeQ returns false.
DeQFail(t) ==
    /\ pc[t] = "deqFail"
    /\ count' = Restored
    /\ Return(t)
    /\ UNCHANGED <<front, rear, rearID, next, data, out, items, overlap, calls>>

DeQReadPtr(t) ==
    /\ pc[t] = "deqPtr"
    /\ temp' = [temp EXCEPT ![t].ptr = front.ptr]
    /\ Goto(t, "deqId")
    /\ UNCHANGED <<queueVars, change, newNode, value, histories>>

DeQReadID(t) ==
    /\ pc[t] = "deqId"
    /\ temp' = [temp EXCEPT ![t].id = front.id]
    /\ Goto(t, "deqNext")
    /\ UNCHANGED <<queueVars, change, newNode, value, histories>>

\* tempFront.m_nodePtr->m_next is read.  On an ID the loop repeats with the
\* same tempFront; a null pointer is dereferenced.
DeQReadNext(t) ==
    /\ pc[t] = "deqNext"
    /\ LET successor == next[temp[t].ptr]
       IN  /\ successor \notin Kernel
           /\ change' = [change EXCEPT ![t] =
                            [ptr |-> successor, id |-> temp[t].id + 1]]
           /\ Goto(t, IF successor = Null THEN "crashed" ELSE "deqData")
    /\ UNCHANGED <<queueVars, temp, newNode, value, histories>>

\* Slip: the data of the front node is read, which was returned before.
DataOfFront(t) == data[temp[t].ptr]

\* What DeQ returns.
DataOf(t) == data[change[t].ptr]

\* The data of the successor is read before the exchange.
DeQData(t) ==
    /\ pc[t] = "deqData"
    /\ value' = [value EXCEPT ![t] = DataOf(t)]
    /\ Goto(t, "deqCas")
    /\ UNCHANGED <<queueVars, temp, change, newNode, histories>>

\* The exchange succeeds: the successor is the new front.
DeQExchange(t) ==
    /\ pc[t] = "deqCas"
    /\ Same(front, temp[t])
    /\ front' = change[t]
    /\ taken' = [taken EXCEPT ![t] = Head(items).data]
    /\ items' = Tail(items)
    /\ Goto(t, "deqFree")
    /\ UNCHANGED <<rear, rearID, count, next, data, out, locals, overlap, calls>>

\* The exchange fails and stores the present front in tempFront.
DeQRetry(t) ==
    /\ pc[t] = "deqCas"
    /\ ~Same(front, temp[t])
    /\ temp' = [temp EXCEPT ![t] = front]
    /\ Goto(t, "deqNext")
    /\ UNCHANGED <<queueVars, change, newNode, value, histories>>

\* m_memoryPool.Free(tempFront.m_nodePtr), and DeQ returns true.
DeQFree(t) ==
    /\ pc[t] = "deqFree"
    /\ out' = out \ {temp[t].ptr}
    /\ Return(t)
    /\ UNCHANGED <<front, rear, rearID, count, next, data, items, overlap, calls>>

-----------------------------------------------------------------------------
Call(t) == EnQ(t) \/ DeQ(t)

Step(t) ==
    \/ EnQFill(t) \/ EnQReadPtr(t) \/ EnQReadID(t) \/ EnQLink(t)
    \/ EnQLinkFails(t) \/ EnQHelp(t) \/ EnQHelpNext(t) \/ EnQHelpExchange(t)
    \/ EnQReadNext(t) \/ EnQRear(t) \/ EnQCount(t)
    \/ DeQFail(t) \/ DeQReadPtr(t) \/ DeQReadID(t) \/ DeQReadNext(t)
    \/ DeQData(t) \/ DeQExchange(t) \/ DeQRetry(t) \/ DeQFree(t)

Next == ~Crashed /\ \E t \in Threads : Call(t) \/ Step(t)

Spec == Init /\ [][Next]_vars

-----------------------------------------------------------------------------
\* The front node and the nodes of the items, in order.
Chain == <<front.ptr>> \o [i \in 1..Len(items) |-> items[i].node]

\* From the front node the links lead through exactly the items that were
\* enqueued and not taken, each with its data, and end with an ID, although
\* nodes are recycled while other calls still hold pointers to them.
QueueLinked ==
    /\ \A i \in 1..Len(Chain) :
          /\ Chain[i] \in out
          /\ IF i < Len(Chain) THEN next[Chain[i]] = Chain[i + 1]
                               ELSE next[Chain[i]] \in Kernel
    /\ \A i \in 1..Len(items) : data[items[i].node] = items[i].data

\* The rear is the last node of the queue, with the ID it ends with, or the one
\* before while an EnQ is between its two exchanges.  It is never a node that
\* was given back, because m_count grows only after the rear has moved.
RearNear ==
    \/ rear = [ptr |-> Chain[Len(Chain)], id |-> next[Chain[Len(Chain)]]]
    \/ /\ Len(Chain) > 1
       /\ rear.ptr = Chain[Len(Chain) - 1]
       /\ \E t \in Threads : pc[t] \in {"enqLinked", "enqRear"}

\* DeQ returns the item that was first when its exchange took effect, although
\* it reads the data before.
TakesFirst == \A t \in Threads : pc[t] = "deqFree" => value[t] = taken[t]

\* A DeQ that got past its test of m_count finds a node behind the front, if
\* its copy of the front is up to date; as long as no two calls of DeQ overlap
\* (m_isSending keeps them apart on the send queue) the copy is, and DeQ never
\* repeats its loop or meets a null pointer.
ReservedThere ==
    \A t \in Threads :
       pc[t] = "deqNext" /\ (temp[t] = front \/ ~overlap) =>
          next[temp[t].ptr] \in Nodes

In(states) == Cardinality({t \in Threads : pc[t] \in states})

\* m_count is the number of items, less those whose EnQ has not counted them
\* yet, those a DeQ has reserved, and one for every DeQ about to return false.
CountExact ==
    \/ Crashed
    \/ count = Len(items) - In({"enqLinked", "enqRear", "enqCount"})
                          - In(Reserved) - In({"deqFail"})
=============================================================================
