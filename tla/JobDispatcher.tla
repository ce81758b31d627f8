--------------------------- MODULE JobDispatcher ----------------------------
(***************************************************************************)
(* The job system: JobQueue (one per session) and JobDispatcher (a pool of *)
(* logic threads that drain the queues).                                   *)
(*                                                                         *)
(*  - a producer (an IOCP worker in NetworkSession::OnRecvMessage) calls   *)
(*    JobQueue::Push, which stores the job and, when the queue's counter   *)
(*    was 0, hands the queue to the dispatcher;                            *)
(*  - a worker (JobDispatcher::Run) takes a queue, swaps its jobs out,     *)
(*    executes them, subtracts their number from the counter and hands the *)
(*    queue back when jobs remain.                                         *)
(*                                                                         *)
(* Granularity.  JobQueue::m_lock is held across the call of               *)
(* PushJobQueue, so it is a variable of its own.  JobDispatcher::m_lock    *)
(* only protects m_activeJobQueue, and the writes of m_running, in         *)
(* sections that never block while holding it: each is one step.  The      *)
(* atomic counter m_dbJobCount is touched outside of any common lock, so   *)
(* fetch_add and fetch_sub are steps.  A notification is a step of its own *)
(* because the code notifies after unlocking.                              *)
(***************************************************************************)
EXTENDS Integers, Sequences, FiniteSets

CONSTANTS Queues,     \* the JobQueue objects, one per session
          Producers,  \* threads calling JobQueue::Push
          Workers,    \* JobDispatcher::m_threads
          NoQueue,    \* null shared_ptr<JobQueue>
          NoThread,   \* an unlocked mutex
          HasTimeout, \* PopJobQueue's timeout is not 0
          MaxJobs     \* bound: jobs accepted per queue

ASSUME JobAssumption ==
    /\ NoQueue \notin Queues
    /\ NoThread \notin Producers
    /\ HasTimeout \in BOOLEAN
    /\ MaxJobs \in Nat

VARIABLES
    running,    \* JobDispatcher::m_running
    active,     \* JobDispatcher::m_activeJobQueue
    waiting,    \* workers blocked on JobDispatcher::m_signal
    owner,      \* progress of the thread that runs ~JobDispatcher
    lock,       \* lock[q]: producer holding JobQueue::m_lock
    dataQueue,  \* dataQueue[q]: JobQueue::m_dataQueue
    jobCount,   \* jobCount[q]: JobQueue::m_dbJobCount
    ppc,        \* ppc[p]: where producer p is in Push
    target,     \* target[p]: the queue p pushes to
    wpc,        \* wpc[w]: where worker w is in Run
    cur,        \* cur[w]: Run's local dbQueue
    batch,      \* batch[w]: Run's local messages
    next,       \* next[w]: jobs of the batch already executed
    accepted,   \* history: accepted[q] jobs were stored in q so far
    executed    \* history: executed[q], the jobs of q in order of execution

producerVars == <<lock, ppc, target, accepted>>
workerVars   == <<wpc, cur, batch, next, executed>>
vars == <<running, active, waiting, owner, dataQueue, jobCount,
          producerVars, workerVars>>

ProducerStates == {"idle", "add", "dispatch", "notify", "unlock"}
WorkerStates   == {"loop", "pop", "wait", "swap", "exec", "handling",
                   "repush", "notify", "done"}

Init ==
    /\ running   = TRUE
    /\ active    = <<>>
    /\ waiting   = {}
    /\ owner     = "alive"
    /\ lock      = [q \in Queues |-> NoThread]
    /\ dataQueue = [q \in Queues |-> <<>>]
    /\ jobCount  = [q \in Queues |-> 0]
    /\ ppc       = [p \in Producers |-> "idle"]
    /\ target    = [p \in Producers |-> NoQueue]
    /\ wpc       = [w \in Workers |-> "loop"]
    /\ cur       = [w \in Workers |-> NoQueue]
    /\ batch     = [w \in Workers |-> <<>>]
    /\ next      = [w \in Workers |-> 0]
    /\ accepted  = [q \in Queues |-> 0]
    /\ executed  = [q \in Queues |-> <<>>]

\* condition_variable::notify_one: wakes one waiting worker, if there is any.
NotifyOne ==
    IF waiting = {} THEN UNCHANGED waiting
                    ELSE \E w \in waiting : waiting' = waiting \ {w}

(***************************************************************************)
(* JobQueue::Push                                                          *)
(***************************************************************************)

\* lock_guard, then m_dataQueue.emplace_back.  No thread pushes to a
\* dispatcher whose destructor has returned.
PushLock(p, q) ==
    /\ ppc[p] = "idle"
    /\ owner # "joined"
    /\ accepted[q] < MaxJobs
    /\ lock[q] = NoThread
    /\ lock' = [lock EXCEPT ![q] = p]
    /\ target' = [target EXCEPT ![p] = q]
    /\ dataQueue' = [dataQueue EXCEPT ![q] = Append(@, accepted[q] + 1)]
    /\ accepted' = [accepted EXCEPT ![q] = @ + 1]
    /\ ppc' = [ppc EXCEPT ![p] = "add"]
    /\ UNCHANGED <<running, active, waiting, owner, jobCount, workerVars>>

\* Slip: every push schedules the queue.
AlwaysSchedules(old) == old >= 0

\* Push schedules the queue when fetch_add returned 0.
Schedules(old) == old = 0

\* m_dbJobCount.fetch_add(1) and the test of the value it returns.
PushFetchAdd(p) ==
    /\ ppc[p] = "add"
    /\ jobCount' = [jobCount EXCEPT ![target[p]] = @ + 1]
    /\ ppc' = [ppc EXCEPT ![p] =
                  IF Schedules(jobCount[target[p]]) THEN "dispatch" ELSE "unlock"]
    /\ UNCHANGED <<running, active, waiting, owner, dataQueue, lock, target,
                   accepted, workerVars>>

\* JobDispatcher::PushJobQueue: push_back under m_lock.
PushDispatch(p) ==
    /\ ppc[p] = "dispatch"
    /\ active' = Append(active, target[p])
    /\ ppc' = [ppc EXCEPT ![p] = "notify"]
    /\ UNCHANGED <<running, waiting, owner, dataQueue, jobCount, lock, target,
                   accepted, workerVars>>

\* Slip: the notification is forgotten.
PushNotifyForgotten(p) ==
    /\ ppc[p] = "notify"
    /\ ppc' = [ppc EXCEPT ![p] = "unlock"]
    /\ UNCHANGED <<running, active, waiting, owner, dataQueue, jobCount, lock,
                   target, accepted, workerVars>>

\* JobDispatcher::PushJobQueue: m_signal.notify_one after the unlock.
PushNotify(p) ==
    /\ ppc[p] = "notify"
    /\ NotifyOne
    /\ ppc' = [ppc EXCEPT ![p] = "unlock"]
    /\ UNCHANGED <<running, active, owner, dataQueue, jobCount, lock, target,
                   accepted, workerVars>>

\* Push returns: the lock_guard releases m_lock.
PushUnlock(p) ==
    /\ ppc[p] = "unlock"
    /\ lock' = [lock EXCEPT ![target[p]] = NoThread]
    /\ target' = [target EXCEPT ![p] = NoQueue]
    /\ ppc' = [ppc EXCEPT ![p] = "idle"]
    /\ UNCHANGED <<running, active, waiting, owner, dataQueue, jobCount,
                   accepted, workerVars>>

(***************************************************************************)
(* JobDispatcher::Run                                                      *)
(***************************************************************************)

\* while (m_running)
RunLoop(w) ==
    /\ wpc[w] = "loop"
    /\ wpc' = [wpc EXCEPT ![w] = IF running THEN "pop" ELSE "done"]
    /\ UNCHANGED <<running, active, waiting, owner, dataQueue, jobCount,
                   producerVars, cur, batch, next, executed>>

\* PopJobQueue once it no longer waits: nullptr when there is no queue.
TakeFront(w) ==
    IF active = <<>>
    THEN /\ wpc' = [wpc EXCEPT ![w] = "loop"]
         /\ UNCHANGED <<active, cur>>
    ELSE /\ wpc' = [wpc EXCEPT ![w] = "swap"]
         /\ cur' = [cur EXCEPT ![w] = Head(active)]
         /\ active' = Tail(active)

\* The predicate of m_signal.wait / wait_for.
PopReady == active # <<>> \/ ~running

\* PopJobQueue under m_lock: the predicate holds, the front is taken.
PopJobQueue(w) ==
    /\ wpc[w] = "pop"
    /\ PopReady
    /\ TakeFront(w)
    /\ UNCHANGED <<running, waiting, owner, dataQueue, jobCount, producerVars,
                   batch, next, executed>>

\* PopJobQueue: the predicate is false, the worker blocks and releases m_lock.
PopWait(w) ==
    /\ wpc[w] = "pop"
    /\ ~PopReady
    /\ wpc' = [wpc EXCEPT ![w] = "wait"]
    /\ waiting' = waiting \union {w}
    /\ UNCHANGED <<running, active, owner, dataQueue, jobCount, producerVars,
                   cur, batch, next, executed>>

\* The wait ends after a notification and the predicate is evaluated again.
WakeNotified(w) ==
    /\ wpc[w] = "wait"
    /\ w \notin waiting
    /\ wpc' = [wpc EXCEPT ![w] = "pop"]
    /\ UNCHANGED <<running, active, waiting, owner, dataQueue, jobCount,
                   producerVars, cur, batch, next, executed>>

\* A condition variable may also wake without a notification.
WakeSpurious(w) ==
    /\ wpc[w] = "wait"
    /\ w \in waiting
    /\ waiting' = waiting \ {w}
    /\ wpc' = [wpc EXCEPT ![w] = "pop"]
    /\ UNCHANGED <<running, active, owner, dataQueue, jobCount, producerVars,
                   cur, batch, next, executed>>

\* wait_for times out: PopJobQueue goes on whatever the predicate says.
WakeTimeout(w) ==
    /\ HasTimeout
    /\ wpc[w] = "wait"
    /\ w \in waiting
    /\ waiting' = waiting \ {w}
    /\ TakeFront(w)
    /\ UNCHANGED <<running, owner, dataQueue, jobCount, producerVars, batch,
                   next, executed>>

\* Slip: the swap does not take JobQueue::m_lock.
PopUnguarded(w) ==
    /\ wpc[w] = "swap"
    /\ batch' = [batch EXCEPT ![w] = dataQueue[cur[w]]]
    /\ dataQueue' = [dataQueue EXCEPT ![cur[w]] = <<>>]
    /\ wpc' = [wpc EXCEPT ![w] = "exec"]
    /\ UNCHANGED <<running, active, waiting, owner, jobCount, producerVars,
                   cur, next, executed>>

\* JobQueue::Pop under JobQueue::m_lock: messages.swap(m_dataQueue).
Pop(w) ==
    /\ wpc[w] = "swap"
    /\ lock[cur[w]] = NoThread
    /\ batch' = [batch EXCEPT ![w] = dataQueue[cur[w]]]
    /\ dataQueue' = [dataQueue EXCEPT ![cur[w]] = <<>>]
    /\ wpc' = [wpc EXCEPT ![w] = "exec"]
    /\ UNCHANGED <<running, active, waiting, owner, jobCount, producerVars,
                   cur, next, executed>>

\* messageJob->Excute(dispatch) is called for the next job of the batch ...
ExcuteBegin(w) ==
    /\ wpc[w] = "exec"
    /\ next[w] < Len(batch[w])
    /\ wpc' = [wpc EXCEPT ![w] = "handling"]
    /\ UNCHANGED <<running, active, waiting, owner, dataQueue, jobCount,
                   producerVars, cur, batch, next, executed>>

\* ... and returns: the handler is done with the job.
ExcuteEnd(w) ==
    /\ wpc[w] = "handling"
    /\ executed' = [executed EXCEPT ![cur[w]] = Append(@, batch[w][next[w] + 1])]
    /\ next' = [next EXCEPT ![w] = @ + 1]
    /\ wpc' = [wpc EXCEPT ![w] = "exec"]
    /\ UNCHANGED <<running, active, waiting, owner, dataQueue, jobCount,
                   producerVars, cur, batch>>

\* Slip: a queue is handed back only when more than one job arrived meanwhile.
RepushesOffByOne(left) == left > 1

\* Run hands the queue back when Decrement returned a positive number.
Repushes(left) == 0 < left

\* Slip: the counter drops by one per batch instead of one per job.
DecrementByOne(w) ==
    /\ wpc[w] = "exec"
    /\ next[w] = Len(batch[w])
    /\ LET left == jobCount[cur[w]] - 1
       IN  /\ jobCount' = [jobCount EXCEPT ![cur[w]] = left]
           /\ wpc' = [wpc EXCEPT ![w] = IF Repushes(left) THEN "repush" ELSE "loop"]
           /\ cur' = [cur EXCEPT ![w] = IF Repushes(left) THEN @ ELSE NoQueue]
    /\ batch' = [batch EXCEPT ![w] = <<>>]
    /\ next' = [next EXCEPT ![w] = 0]
    /\ UNCHANGED <<running, active, waiting, owner, dataQueue, producerVars,
                   executed>>

\* JobQueue::Decrement(messages.size()): fetch_sub, and the test of its result.
Decrement(w) ==
    /\ wpc[w] = "exec"
    /\ next[w] = Len(batch[w])
    /\ LET left == jobCount[cur[w]] - Len(batch[w])
       IN  /\ jobCount' = [jobCount EXCEPT ![cur[w]] = left]
           /\ wpc' = [wpc EXCEPT ![w] = IF Repushes(left) THEN "repush" ELSE "loop"]
           /\ cur' = [cur EXCEPT ![w] = IF Repushes(left) THEN @ ELSE NoQueue]
    /\ batch' = [batch EXCEPT ![w] = <<>>]
    /\ next' = [next EXCEPT ![w] = 0]
    /\ UNCHANGED <<running, active, waiting, owner, dataQueue, producerVars,
                   executed>>

\* PushJobQueue(dbQueue) by the worker: push_back under m_lock ...
Repush(w) ==
    /\ wpc[w] = "repush"
    /\ active' = Append(active, cur[w])
    /\ cur' = [cur EXCEPT ![w] = NoQueue]
    /\ wpc' = [wpc EXCEPT ![w] = "notify"]
    /\ UNCHANGED <<running, waiting, owner, dataQueue, jobCount, producerVars,
                   batch, next, executed>>

\* ... and notify_one after the unlock.
RepushNotify(w) ==
    /\ wpc[w] = "notify"
    /\ NotifyOne
    /\ wpc' = [wpc EXCEPT ![w] = "loop"]
    /\ UNCHANGED <<running, active, owner, dataQueue, jobCount, producerVars,
                   cur, batch, next, executed>>

(***************************************************************************)
(* JobDispatcher::~JobDispatcher                                           *)
(***************************************************************************)

\* m_running = false under m_lock.
StopRunning ==
    /\ owner = "alive"
    /\ running' = FALSE
    /\ owner' = "stopping"
    /\ UNCHANGED <<active, waiting, dataQueue, jobCount, producerVars, workerVars>>

\* Slip: notify_one where notify_all is needed.
StopNotifiesOne ==
    /\ owner = "stopping"
    /\ NotifyOne
    /\ owner' = "joining"
    /\ UNCHANGED <<running, active, dataQueue, jobCount, producerVars, workerVars>>

\* m_signal.notify_all
StopNotify ==
    /\ owner = "stopping"
    /\ waiting' = {}
    /\ owner' = "joining"
    /\ UNCHANGED <<running, active, dataQueue, jobCount, producerVars, workerVars>>

\* join of every thread
Join ==
    /\ owner = "joining"
    /\ \A w \in Workers : wpc[w] = "done"
    /\ owner' = "joined"
    /\ UNCHANGED <<running, active, waiting, dataQueue, jobCount, producerVars,
                   workerVars>>

\* The dispatcher is gone and no push is under way.
Terminated ==
    /\ owner = "joined"
    /\ \A p \in Producers : ppc[p] = "idle"
    /\ UNCHANGED vars

-----------------------------------------------------------------------------
PushStep(p) == \/ PushFetchAdd(p) \/ PushDispatch(p)
               \/ PushNotify(p)   \/ PushUnlock(p)

RunStep(w) == \/ RunLoop(w) \/ PopJobQueue(w) \/ PopWait(w) \/ WakeNotified(w)
              \/ Pop(w) \/ ExcuteBegin(w) \/ ExcuteEnd(w)
              \/ Decrement(w) \/ Repush(w) \/ RepushNotify(w)

StopStep == StopNotify \/ Join

Next ==
    \/ \E p \in Producers : PushStep(p) \/ \E q \in Queues : PushLock(p, q)
    \/ \E w \in Workers : RunStep(w) \/ WakeSpurious(w) \/ WakeTimeout(w)
    \/ StopRunning
    \/ StopStep
    \/ Terminated

Spec == Init /\ [][Next]_vars

\* Started work goes on: a thread inside Push, Run or the destructor is
\* scheduled again.  Nothing forces a push, a shutdown, a spurious wake-up or a
\* timeout: the notifications alone have to be enough.
Fairness ==
    /\ \A p \in Producers : WF_vars(PushStep(p))
    /\ \A w \in Workers : WF_vars(RunStep(w))
    /\ WF_vars(StopStep)

FairSpec == Spec /\ Fairness

-----------------------------------------------------------------------------
\* The values the variables can take.  m_dbJobCount is a signed counter that
\* a push increments and a worker decrements by the size of its batch, under
\* no common lock: it never goes below 0.
TypeOK ==
    /\ running \in BOOLEAN
    /\ active \in Seq(Queues)
    /\ waiting \subseteq Workers
    /\ owner \in {"alive", "stopping", "joining", "joined"}
    /\ lock \in [Queues -> Producers \union {NoThread}]
    /\ dataQueue \in [Queues -> Seq(Nat)]
    /\ jobCount \in [Queues -> Nat]
    /\ ppc \in [Producers -> ProducerStates]
    /\ target \in [Producers -> Queues \union {NoQueue}]
    /\ wpc \in [Workers -> WorkerStates]
    /\ cur \in [Workers -> Queues \union {NoQueue}]
    /\ batch \in [Workers -> Seq(Nat)]
    /\ next \in [Workers -> Nat]
    /\ accepted \in [Queues -> Nat]
    /\ executed \in [Queues -> Seq(Nat)]

\* README, "Session serialization": a session's jobs are never handled by two
\* workers at once.  A queue is in the hands of at most one worker, and is not
\* waiting in m_activeJobQueue, or about to be put there by Push, meanwhile.
OneHolder ==
    /\ \A v, w \in Workers : cur[v] = cur[w] /\ cur[v] # NoQueue => v = w
    /\ \A i, j \in 1..Len(active) : active[i] = active[j] => i = j
    /\ \A w \in Workers, i \in 1..Len(active) : cur[w] # active[i]
    /\ \A p \in Producers : ppc[p] = "dispatch" =>
          /\ \A w \in Workers : cur[w] # target[p]
          /\ \A i \in 1..Len(active) : active[i] # target[p]

\* A stored job always has somebody in charge of it: when a queue holds jobs
\* and no push to it is under way, a worker holds the queue or it is in
\* m_activeJobQueue.  This is what m_dbJobCount is for: the counter is changed
\* outside of the lock that guards the jobs.
NotStranded ==
    \A q \in Queues :
        dataQueue[q] # <<>> /\ lock[q] = NoThread =>
            \/ \E w \in Workers : cur[w] = q
            \/ \E i \in 1..Len(active) : active[i] = q

\* 1 while a push to q has stored its job and not yet counted it.
Uncounted(q) ==
    IF \E p \in Producers : ppc[p] = "add" /\ target[p] = q THEN 1 ELSE 0

\* m_dbJobCount is exact whenever no push is between emplace_back and
\* fetch_add: it counts the stored jobs and those in the batch of the worker
\* that holds the queue, although the three change in different steps.
Counted ==
    \A q \in Queues :
        /\ \A w \in Workers : cur[w] = q =>
              jobCount[q] + Uncounted(q) = Len(dataQueue[q]) + Len(batch[w])
        /\ (\A w \in Workers : cur[w] # q) =>
              jobCount[q] + Uncounted(q) = Len(dataQueue[q])

\* Every accepted job is handled, unless the dispatcher is being destroyed
\* (the destructor drops what is left).
EveryJobHandled ==
    \A q \in Queues : \A n \in 1..MaxJobs :
        (accepted[q] >= n) ~> (Len(executed[q]) >= n \/ ~running)

\* The destructor returns: no worker sleeps through the shutdown.
ShutdownEnds == ~running ~> (owner = "joined")

-----------------------------------------------------------------------------
\* Refinement: the job of q being handled, 0 when no handler runs for q.
Handling ==
    [q \in Queues |->
        IF \E w \in Workers : cur[w] = q /\ wpc[w] = "handling"
        THEN LET w == CHOOSE w \in Workers : cur[w] = q /\ wpc[w] = "handling"
             IN  batch[w][next[w] + 1]
        ELSE 0]

Serial == INSTANCE SerialExecutor WITH handling <- Handling

\* The job system implements SerialExecutor.
ImplementsSerial == Serial!Spec
=============================================================================
