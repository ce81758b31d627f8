---------------------------- MODULE SessionSend -----------------------------
(***************************************************************************)
(* The send path of one session.  NetworkSession::Send puts a packet into  *)
(* m_sendQueue and posts a NetworkTaskSend; the IOCP workers run the tasks *)
(* concurrently.  m_isSending lets one task at a time drain the queue and  *)
(* have a WSASend outstanding.                                             *)
(*                                                                         *)
(* Granularity: DeQ, exchange and the posting of a task are steps; EnQ is  *)
(* two, since LockFreeQ links a packet before it counts it, and DeQ goes   *)
(* by the count.  Packets are numbered in the order in which they are      *)
(* linked, and a task has the number of the packet whose Send posted it.   *)
(* Each task may be run by a worker of its own.                            *)
(***************************************************************************)
EXTENDS Integers, FiniteSets, Sequences

CONSTANTS Senders,   \* threads calling NetworkSession::Send
          MaxSends,  \* bound: calls of Send
          MayFail    \* WSASend may fail, at once or when it completes

ASSUME SendAssumption == MaxSends \in Nat /\ MayFail \in BOOLEAN

Packets == 1..MaxSends

VARIABLES
    sendQueue,  \* NetworkSession::m_sendQueue
    isSending,  \* NetworkSession::m_isSending
    enqueued,   \* number of packets enqueued so far
    posting,    \* posting[s]: the packet whose task s is about to post, or 0
    counting,   \* the senders that have linked a packet and not counted it yet
    task,       \* task[t]: where the task of packet t is
    sending,    \* sending[t]: NetworkTaskSend::m_sendingPackets
    freed,      \* history: packets deleted
    wire        \* history: packets handed to a WSASend that was accepted

senderVars == <<enqueued, posting, counting>>
vars == <<sendQueue, isSending, senderVars, task, sending, freed, wire>>

\* "none": not posted yet, "posted": in the IOCP queue with EStep::None,
\* "draining", "empty", "calling": inside Start, "pending": WSASend is under
\* way, "freeing": inside Complete, "deleted": the worker deleted the task.
TaskStates == {"none", "posted", "draining", "empty", "calling", "pending",
               "freeing", "deleted"}

\* The task set m_isSending and has not reset it yet.
Holding == {"draining", "empty", "calling", "pending", "freeing"}

Init ==
    /\ sendQueue = <<>>
    /\ isSending = FALSE
    /\ enqueued = 0
    /\ posting = [s \in Senders |-> 0]
    /\ counting = {}
    /\ task = [t \in Packets |-> "none"]
    /\ sending = [t \in Packets |-> <<>>]
    /\ freed = {}
    /\ wire = <<>>

-----------------------------------------------------------------------------
\* m_count of m_sendQueue while one task at a time dequeues (CountExact of
\* LockFreeQ).
Count == Len(sendQueue) - Cardinality(counting)

\* Send: the packet is built, encrypted and linked to the queue ...
EnQ(s) ==
    /\ posting[s] = 0
    /\ enqueued < MaxSends
    /\ enqueued' = enqueued + 1
    /\ sendQueue' = Append(sendQueue, enqueued + 1)
    /\ posting' = [posting EXCEPT ![s] = enqueued + 1]
    /\ counting' = counting \union {s}
    /\ UNCHANGED <<isSending, task, sending, freed, wire>>

\* ... EnQ counts it and returns ...
EnQReturn(s) ==
    /\ s \in counting
    /\ counting' = counting \ {s}
    /\ UNCHANGED <<sendQueue, isSending, enqueued, posting, task, sending, freed,
                   wire>>

\* ... and WorkerPush posts a new task.
Post(s) ==
    /\ posting[s] # 0
    /\ s \notin counting
    /\ task' = [task EXCEPT ![posting[s]] = "posted"]
    /\ posting' = [posting EXCEPT ![s] = 0]
    /\ UNCHANGED <<sendQueue, isSending, enqueued, counting, sending, freed, wire>>

\* Slip: the flag is set but its old value is not looked at.
StartUnguarded(t) ==
    /\ task[t] = "posted"
    /\ isSending' = TRUE
    /\ task' = [task EXCEPT ![t] = "draining"]
    /\ UNCHANGED <<sendQueue, senderVars, sending, freed, wire>>

\* Start: m_isSending.exchange(true); the task is discarded when it was set.
Start(t) ==
    /\ task[t] = "posted"
    /\ isSending' = TRUE
    /\ task' = [task EXCEPT ![t] = IF isSending THEN "deleted" ELSE "draining"]
    /\ UNCHANGED <<sendQueue, senderVars, sending, freed, wire>>

\* Slip: the container hands out the youngest packet first.
DeQNewest(t) ==
    /\ task[t] = "draining"
    /\ Count > 0
    /\ sending' = [sending EXCEPT ![t] = Append(@, sendQueue[Len(sendQueue)])]
    /\ sendQueue' = SubSeq(sendQueue, 1, Len(sendQueue) - 1)
    /\ UNCHANGED <<isSending, senderVars, task, freed, wire>>

\* The loop of Start: DeQ returned a packet.
DeQ(t) ==
    /\ task[t] = "draining"
    /\ Count > 0
    /\ sending' = [sending EXCEPT ![t] = Append(@, Head(sendQueue))]
    /\ sendQueue' = Tail(sendQueue)
    /\ UNCHANGED <<isSending, senderVars, task, freed, wire>>

\* The loop of Start: DeQ returned false.  The queue need not be empty: a packet
\* whose EnQ has returned stays when an earlier one is not counted yet.
DeQEmpty(t) ==
    /\ task[t] = "draining"
    /\ Count <= 0
    /\ task' = [task EXCEPT ![t] = IF sending[t] = <<>> THEN "empty" ELSE "calling"]
    /\ UNCHANGED <<sendQueue, isSending, senderVars, sending, freed, wire>>

\* Slip: the flag stays set when there was nothing to send.
NothingToSendKeepsFlag(t) ==
    /\ task[t] = "empty"
    /\ task' = [task EXCEPT ![t] = "deleted"]
    /\ UNCHANGED <<sendQueue, isSending, senderVars, sending, freed, wire>>

\* There was nothing to send: the flag is reset, the task discarded.
NothingToSend(t) ==
    /\ task[t] = "empty"
    /\ isSending' = FALSE
    /\ task' = [task EXCEPT ![t] = "deleted"]
    /\ UNCHANGED <<sendQueue, senderVars, sending, freed, wire>>

\* WSASend accepts the packets, in order.
WSASendPending(t) ==
    /\ task[t] = "calling"
    /\ wire' = wire \o sending[t]
    /\ task' = [task EXCEPT ![t] = "pending"]
    /\ UNCHANGED <<sendQueue, isSending, senderVars, sending, freed>>

Elements(s) == {s[i] : i \in 1..Len(s)}

\* Slip: the early return forgets the packets of the task it discards.
WSASendFailedForgets(t) ==
    /\ MayFail
    /\ task[t] = "calling"
    /\ isSending' = FALSE
    /\ task' = [task EXCEPT ![t] = "deleted"]
    /\ UNCHANGED <<sendQueue, senderVars, sending, freed, wire>>

\* Slip: m_sendingPackets is cleared but its packets are not deleted.
WSASendFailedLeaks(t) ==
    /\ MayFail
    /\ task[t] = "calling"
    /\ sending' = [sending EXCEPT ![t] = <<>>]
    /\ isSending' = FALSE
    /\ task' = [task EXCEPT ![t] = "deleted"]
    /\ UNCHANGED <<sendQueue, senderVars, freed, wire>>

\* WSASend fails at once: packets deleted, flag reset, task discarded.
WSASendFailed(t) ==
    /\ MayFail
    /\ task[t] = "calling"
    /\ freed' = freed \union Elements(sending[t])
    /\ sending' = [sending EXCEPT ![t] = <<>>]
    /\ isSending' = FALSE
    /\ task' = [task EXCEPT ![t] = "deleted"]
    /\ UNCHANGED <<sendQueue, senderVars, wire>>

\* Complete: the packets in flight are deleted ...
CompleteFree(t) ==
    /\ task[t] = "pending"
    /\ freed' = freed \union Elements(sending[t])
    /\ sending' = [sending EXCEPT ![t] = <<>>]
    /\ task' = [task EXCEPT ![t] = "freeing"]
    /\ UNCHANGED <<sendQueue, isSending, senderVars, wire>>

\* ... and the flag is reset.  The result and the size transferred are only
\* logged: the task is discarded whatever they are.
CompleteRelease(t) ==
    /\ task[t] = "freeing"
    /\ isSending' = FALSE
    /\ task' = [task EXCEPT ![t] = "deleted"]
    /\ UNCHANGED <<sendQueue, senderVars, sending, freed, wire>>

\* Every packet's task has run.
Quiet ==
    /\ \A t \in Packets : task[t] = "deleted"
    /\ UNCHANGED vars

-----------------------------------------------------------------------------
TaskStep(t) ==
    \/ Start(t) \/ DeQ(t) \/ DeQEmpty(t) \/ NothingToSend(t)
    \/ WSASendPending(t) \/ WSASendFailed(t) \/ CompleteFree(t)
    \/ CompleteRelease(t)

Next ==
    \/ \E s \in Senders : EnQ(s) \/ EnQReturn(s) \/ Post(s)
    \/ \E t \in Packets : TaskStep(t)
    \/ Quiet

Spec == Init /\ [][Next]_vars

\* A thread inside Send goes on, IOCP hands every posted or completed task to a
\* worker, and a pending WSASend completes.
Fairness ==
    /\ \A s \in Senders : WF_vars(EnQReturn(s) \/ Post(s))
    /\ \A t \in Packets : WF_vars(TaskStep(t))

FairSpec == Spec /\ Fairness

-----------------------------------------------------------------------------
\* The values the variables can take.  Deleting a task does not delete the
\* packets in its list, so a discarded task has none left.
TypeOK ==
    /\ sendQueue \in Seq(Packets)
    /\ isSending \in BOOLEAN
    /\ enqueued \in 0..MaxSends
    /\ posting \in [Senders -> 0..MaxSends]
    /\ counting \subseteq Senders
    /\ task \in [Packets -> TaskStates]
    /\ sending \in [Packets -> Seq(Packets)]
    /\ freed \subseteq Packets
    /\ wire \in Seq(Packets)
    /\ \A t \in Packets :
          task[t] \notin {"draining", "calling", "pending"} => sending[t] = <<>>

\* m_isSending is a lock: at most one task is between its exchange(true) and
\* its exchange(false), on whichever worker, and the flag is set exactly then.
\* So at most one WSASend is outstanding and m_sendQueue has one consumer.
OneSender ==
    /\ \A t, u \in Packets : task[t] \in Holding /\ task[u] \in Holding => t = u
    /\ isSending <=> \E t \in Packets : task[t] \in Holding

Increasing(s) == \A i, j \in 1..Len(s) : i < j => s[i] < s[j]

\* README, "serialization + transmission": the packets reach the stream in the
\* order of EnQ and none twice, whichever tasks carry them.
WireInOrder == Increasing(wire)

\* No packet is leaked, shared or used after its deletion: each one enqueued is
\* in the queue, in the list of exactly one task, or deleted.
PacketsOwned ==
    LET queued == Elements(sendQueue)
        held(t) == Elements(sending[t])
    IN  /\ 1..enqueued = queued \union freed \union UNION {held(t) : t \in Packets}
        /\ queued \intersect freed = {}
        /\ \A t \in Packets : held(t) \intersect (queued \union freed) = {}
        /\ \A t, u \in Packets : t # u => held(t) \intersect held(u) = {}

-----------------------------------------------------------------------------
\* The flag is always released: no failure path keeps a session from sending.
FlagReleased == isSending ~> ~isSending

\* README 4: passing a message to Send takes care of "serialization and
\* transmission in one go": an enqueued packet is handed to WSASend.
EveryPacketSent ==
    \A p \in Packets : (enqueued >= p) ~> (p \in Elements(wire))
=============================================================================
