------------------------ MODULE JobDispatcherProofs -------------------------
(***************************************************************************)
(* Proofs about JobDispatcher, for any number of queues, producers and     *)
(* workers and any number of jobs.                                         *)
(*                                                                         *)
(* IInv is the inductive invariant.  One lemma per action, or per group of *)
(* actions that leave the same state alone, shows that the action          *)
(* preserves it, with one step per conjunct.                               *)
(***************************************************************************)
EXTENDS JobDispatcher, TLAPS

(***************************************************************************)
(* The inductive invariant behind TypeOK, OneHolder, InOrder, NotStranded  *)
(* and Counted.                                                            *)
(***************************************************************************)

\* README, "in order": the handlers of a session see its jobs in the order of
\* acceptance, none twice and none left out.
InOrder ==
    \A q \in Queues : \A i \in 1..Len(executed[q]) : executed[q][i] = i

\* A producer is inside Push exactly while it holds its target's m_lock, and
\* nobody takes the job it stored before it counted it.
LockHeld ==
    /\ \A p \in Producers : ppc[p] # "idle" =>
          target[p] \in Queues /\ lock[target[p]] = p
    /\ \A p \in Producers : ppc[p] = "add" => dataQueue[target[p]] # <<>>
    /\ \A q \in Queues : lock[q] # NoThread =>
          ppc[lock[q]] # "idle" /\ target[lock[q]] = q

\* Run's locals at each point of the loop.
RunLocals ==
    \A w \in Workers :
        /\ cur[w] # NoQueue <=> wpc[w] \in {"swap", "exec", "handling", "repush"}
        /\ wpc[w] \notin {"exec", "handling"} => batch[w] = <<>> /\ next[w] = 0
        /\ next[w] <= Len(batch[w])
        /\ wpc[w] = "handling" => next[w] < Len(batch[w])

\* Somebody is in charge of q.
InCharge(q) ==
    \/ \E w \in Workers : cur[w] = q
    \/ \E i \in 1..Len(active) : active[i] = q
    \/ \E p \in Producers : ppc[p] = "dispatch" /\ target[p] = q

\* Somebody is in charge exactly of the queues whose counter is not 0.
ChargeCounted == \A q \in Queues : InCharge(q) <=> jobCount[q] > 0

\* Jobs accepted into q that have left m_dataQueue.
Taken(q) == accepted[q] - Len(dataQueue[q])

\* m_dataQueue holds the youngest jobs, the batch of the worker in charge the
\* ones before them, and everything older has been executed.
Ordered ==
    \A q \in Queues :
        /\ \A i \in 1..Len(dataQueue[q]) : dataQueue[q][i] = Taken(q) + i
        /\ \A w \in Workers : cur[w] = q =>
              /\ \A i \in 1..Len(batch[w]) :
                    batch[w][i] = Taken(q) - Len(batch[w]) + i
              /\ Len(executed[q]) = Taken(q) - Len(batch[w]) + next[w]
        /\ (\A w \in Workers : cur[w] # q) => Len(executed[q]) = Taken(q)

IInv ==
    /\ TypeOK
    /\ LockHeld
    /\ RunLocals
    /\ OneHolder
    /\ ChargeCounted
    /\ Counted
    /\ Ordered
    /\ InOrder

-----------------------------------------------------------------------------
\* One more job of the batch was executed.
LEMMA OneMore ==
    ASSUME NEW taken \in Int, NEW size \in Nat, NEW done \in Nat
    PROVE  (taken - size + done) + 1 = taken - size + (done + 1)
OBVIOUS

\* A new dispatcher, with empty queues, satisfies the invariant.
LEMMA InitInv == Init => IInv
<1> SUFFICES ASSUME Init PROVE IInv
    OBVIOUS
<1> USE JobAssumption DEF Init
<1>1. TypeOK
    BY DEF TypeOK, ProducerStates, WorkerStates
<1>2. LockHeld /\ RunLocals /\ OneHolder /\ InOrder
    BY DEF LockHeld, RunLocals, OneHolder, InOrder
<1>3. ChargeCounted
    BY DEF ChargeCounted, InCharge
<1>4. Counted
    BY DEF Counted, Uncounted
<1>5. Ordered
    BY DEF Ordered, Taken
<1> QED  BY <1>1, <1>2, <1>3, <1>4, <1>5 DEF IInv

-----------------------------------------------------------------------------
\* JobQueue::Push storing a job preserves the invariant.
LEMMA PushLockInv ==
    ASSUME IInv, NEW p \in Producers, NEW q \in Queues, PushLock(p, q)
    PROVE  IInv'
<1> USE JobAssumption DEF IInv
<1>1. TypeOK'
    BY DEF TypeOK, ProducerStates, PushLock, workerVars
<1>a. \A r \in Producers : r # p => target'[r] = target[r] /\ ppc'[r] = ppc[r]
    BY DEF PushLock, TypeOK
<1>b. ppc[p] = "idle" /\ ppc'[p] = "add" /\ target'[p] = q
    BY DEF PushLock, TypeOK
<1>2. LockHeld'
    <2>a. /\ lock[q] = NoThread /\ lock'[q] = p
          /\ \A x \in Queues : x # q => lock'[x] = lock[x]
        BY DEF PushLock, TypeOK
    <2>b. /\ dataQueue'[q] = Append(dataQueue[q], accepted[q] + 1)
          /\ \A x \in Queues : x # q => dataQueue'[x] = dataQueue[x]
        BY DEF PushLock, TypeOK
    <2>c. dataQueue[q] \in Seq(Nat) /\ accepted[q] \in Nat
        BY DEF TypeOK
    <2>1. /\ lock[q] = NoThread /\ lock'[q] = p /\ dataQueue'[q] # <<>>
          /\ \A x \in Queues : x # q =>
                lock'[x] = lock[x] /\ dataQueue'[x] = dataQueue[x]
        <3> HIDE DEF IInv
        <3> QED  BY <2>a, <2>b, <2>c
    <2>2. ASSUME NEW r \in Producers, ppc'[r] # "idle"
          PROVE  /\ target'[r] \in Queues /\ lock'[target'[r]] = r
                 /\ ppc'[r] = "add" => dataQueue'[target'[r]] # <<>>
        <3>1. CASE r = p
            BY <3>1, <2>1, <1>b
        <3>2. CASE r # p
            <4>1. /\ target[r] \in Queues /\ lock[target[r]] = r
                  /\ ppc[r] = "add" => dataQueue[target[r]] # <<>>
                BY <3>2, <2>2, <1>a DEF LockHeld
            <4>2. target[r] # q
                BY <4>1, <2>1
            <4> QED  BY <3>2, <4>1, <4>2, <2>1, <1>a
        <3> QED  BY <3>1, <3>2
    <2>3. ASSUME NEW x \in Queues, lock'[x] # NoThread
          PROVE  ppc'[lock'[x]] # "idle" /\ target'[lock'[x]] = x
        <3>1. CASE x = q
            BY <3>1, <2>1, <1>b
        <3>2. CASE x # q
            <4>1. lock'[x] = lock[x] /\ lock[x] \in Producers
                BY <3>2, <2>1, <2>3 DEF TypeOK
            <4>2. ppc[lock[x]] # "idle" /\ target[lock[x]] = x
                BY <4>1, <2>3 DEF LockHeld
            <4> QED  BY <4>1, <4>2, <1>a, <1>b
        <3> QED  BY <3>1, <3>2
    <2> QED  BY <2>2, <2>3 DEF LockHeld
<1>3. RunLocals'
    BY DEF RunLocals, PushLock, workerVars
<1>c. \A r \in Producers : ppc[r] # "idle" => target[r] # q
    BY DEF PushLock, TypeOK, LockHeld
<1>4. OneHolder'
    BY <1>a, <1>b DEF OneHolder, PushLock, workerVars
<1>5. ChargeCounted'
    <2>1. \A x \in Queues : InCharge(x)' <=> InCharge(x)
        BY <1>a, <1>b DEF InCharge, PushLock, workerVars
    <2> QED  BY <2>1 DEF ChargeCounted, PushLock
<1>6. Counted'
    <2>1. \A x \in Queues : x # q => Uncounted(x)' = Uncounted(x)
        BY <1>a, <1>b DEF Uncounted
    <2>2. \A x \in Queues : x = q => Uncounted(x) = 0 /\ Uncounted(x)' = 1
        BY <1>a, <1>b, <1>c DEF Uncounted
    <2>3. /\ \A x \in Queues : x # q => dataQueue'[x] = dataQueue[x]
          /\ Len(dataQueue'[q]) = Len(dataQueue[q]) + 1
          /\ jobCount' = jobCount /\ cur' = cur /\ batch' = batch
        BY DEF PushLock, TypeOK, workerVars
    <2>4. /\ dataQueue \in [Queues -> Seq(Nat)] /\ dataQueue' \in [Queues -> Seq(Nat)]
          /\ jobCount \in [Queues -> Nat] /\ jobCount' \in [Queues -> Nat]
          /\ batch \in [Workers -> Seq(Nat)] /\ batch' \in [Workers -> Seq(Nat)]
        BY <1>1 DEF TypeOK
    <2>5. ASSUME NEW x \in Queues, NEW w \in Workers, cur[w] = x
          PROVE  jobCount'[x] + Uncounted(x)' = Len(dataQueue'[x]) + Len(batch'[w])
        <3>1. jobCount[x] + Uncounted(x) = Len(dataQueue[x]) + Len(batch[w])
            BY <2>5 DEF Counted
        <3>2. CASE x = q
            BY <3>1, <3>2, <2>2, <2>3, <2>4
        <3>3. CASE x # q
            BY <3>1, <3>3, <2>1, <2>3
        <3> QED  BY <3>2, <3>3
    <2>6. ASSUME NEW x \in Queues, \A w \in Workers : cur[w] # x
          PROVE  jobCount'[x] + Uncounted(x)' = Len(dataQueue'[x])
        <3>1. jobCount[x] + Uncounted(x) = Len(dataQueue[x])
            BY <2>6 DEF Counted
        <3>2. CASE x = q
            BY <3>1, <3>2, <2>2, <2>3, <2>4
        <3>3. CASE x # q
            BY <3>1, <3>3, <2>1, <2>3
        <3> QED  BY <3>2, <3>3
    <2> QED  BY <2>3, <2>5, <2>6 DEF Counted
<1>7. Ordered'
    <2>1. /\ \A x \in Queues : x # q => dataQueue'[x] = dataQueue[x]
                                        /\ accepted'[x] = accepted[x]
          /\ Len(dataQueue'[q]) = Len(dataQueue[q]) + 1
          /\ accepted'[q] = accepted[q] + 1
          /\ dataQueue'[q] = Append(dataQueue[q], accepted[q] + 1)
          /\ cur' = cur /\ batch' = batch /\ next' = next /\ executed' = executed
        BY DEF PushLock, TypeOK, workerVars
    <2>2. ASSUME NEW x \in Queues
          PROVE  Taken(x)' = Taken(x)
        <3>1. accepted[x] \in Nat /\ Len(dataQueue[x]) \in Nat
            BY DEF TypeOK
        <3>2. Taken(x)' = accepted'[x] - Len(dataQueue'[x])
            BY DEF Taken
        <3>3. Taken(x) = accepted[x] - Len(dataQueue[x])
            BY DEF Taken
        <3>4. CASE x = q
            <4>1. /\ accepted'[x] = accepted[x] + 1
                  /\ Len(dataQueue'[x]) = Len(dataQueue[x]) + 1
                BY <3>4, <2>1
            <4> HIDE DEF IInv
            <4> QED  BY <4>1, <3>1, <3>2, <3>3
        <3>5. CASE x # q
            BY <3>2, <3>3, <3>5, <2>1
        <3> QED  BY <3>4, <3>5
    <2>3. ASSUME NEW i \in 1..Len(dataQueue'[q])
          PROVE  dataQueue'[q][i] = Taken(q)' + i
        <3>1. dataQueue[q] \in Seq(Nat) /\ accepted[q] \in Nat
            BY DEF TypeOK
        <3>2. CASE i = Len(dataQueue[q]) + 1
            BY <3>1, <3>2, <2>1 DEF Taken
        <3>3. CASE i # Len(dataQueue[q]) + 1
            BY <3>1, <3>3, <2>1, <2>2 DEF Ordered
        <3> QED  BY <3>2, <3>3
    <2> QED  BY <2>1, <2>2, <2>3 DEF Ordered
<1>8. InOrder'
    BY DEF InOrder, PushLock, workerVars
<1> QED  BY <1>1, <1>2, <1>3, <1>4, <1>5, <1>6, <1>7, <1>8

\* The fetch_add of JobQueue::Push preserves the invariant: it finds 0 exactly
\* when nobody is in charge of the queue.
LEMMA PushFetchAddInv ==
    ASSUME IInv, NEW p \in Producers, PushFetchAdd(p)
    PROVE  IInv'
<1> USE JobAssumption DEF IInv
<1>q. PICK q \in Queues : q = target[p] /\ lock[q] = p /\ dataQueue[q] # <<>>
    BY DEF PushFetchAdd, LockHeld
<1>a. \A r \in Producers : r # p => ppc'[r] = ppc[r]
    BY DEF PushFetchAdd, TypeOK
<1>b. /\ ppc[p] = "add" /\ target' = target /\ target[p] = q
      /\ ppc'[p] = IF jobCount[q] = 0 THEN "dispatch" ELSE "unlock"
    BY <1>q DEF PushFetchAdd, TypeOK, Schedules
<1>c. \A r \in Producers : r # p => ppc[r] = "idle" \/ target[r] # q
    BY <1>q DEF LockHeld
<1>d. /\ jobCount'[q] = jobCount[q] + 1
      /\ \A x \in Queues : x # q => jobCount'[x] = jobCount[x]
      /\ \A x \in Queues : jobCount[x] \in Nat
    BY <1>q DEF PushFetchAdd, TypeOK
<1>1. TypeOK'
    <2>1. ppc' \in [Producers -> ProducerStates]
        BY DEF PushFetchAdd, TypeOK, ProducerStates
    <2>2. jobCount' \in [Queues -> Nat]
        BY <1>q DEF PushFetchAdd, TypeOK
    <2> QED  BY <2>1, <2>2 DEF TypeOK, PushFetchAdd, workerVars
<1>2. LockHeld'
    BY <1>a, <1>b DEF LockHeld, PushFetchAdd
<1>3. RunLocals'
    BY DEF RunLocals, PushFetchAdd, workerVars
<1>4. OneHolder'
    <2>1. CASE jobCount[q] = 0
        <3>1. ~InCharge(q)
            BY <2>1, <1>q DEF ChargeCounted
        <3> QED  BY <3>1, <1>a, <1>b DEF OneHolder, InCharge, PushFetchAdd, workerVars
    <2>2. CASE jobCount[q] # 0
        BY <2>2, <1>a, <1>b DEF OneHolder, PushFetchAdd, workerVars
    <2> QED  BY <2>1, <2>2
<1>5. ChargeCounted'
    <2>1. \A x \in Queues : x # q => (InCharge(x)' <=> InCharge(x))
        BY <1>a, <1>b DEF InCharge, PushFetchAdd, workerVars
    <2>2. ASSUME NEW x \in Queues, x = q
          PROVE  InCharge(x)'
        <3>1. CASE jobCount[q] = 0
            BY <2>2, <3>1, <1>b DEF InCharge
        <3>2. CASE jobCount[q] # 0
            <4>1. InCharge(q)
                BY <3>2, <1>q, <1>d DEF ChargeCounted
            <4> QED  BY <2>2, <4>1, <1>a, <1>b DEF InCharge, PushFetchAdd, workerVars
        <3> QED  BY <3>1, <3>2
    <2>3. ASSUME NEW x \in Queues
          PROVE  InCharge(x)' <=> jobCount'[x] > 0
        BY <2>1, <2>2, <1>d DEF ChargeCounted
    <2> QED  BY <2>3 DEF ChargeCounted
<1>6. Counted'
    <2>1. \A x \in Queues : x # q => Uncounted(x)' = Uncounted(x)
        BY <1>a, <1>b DEF Uncounted
    <2>2. \A x \in Queues : x = q => Uncounted(x) = 1 /\ Uncounted(x)' = 0
        BY <1>a, <1>b, <1>c DEF Uncounted
    <2>3. dataQueue' = dataQueue /\ cur' = cur /\ batch' = batch
        BY DEF PushFetchAdd, workerVars
    <2>4. /\ dataQueue \in [Queues -> Seq(Nat)] /\ dataQueue' \in [Queues -> Seq(Nat)]
          /\ jobCount \in [Queues -> Nat] /\ jobCount' \in [Queues -> Nat]
          /\ batch \in [Workers -> Seq(Nat)] /\ batch' \in [Workers -> Seq(Nat)]
        BY <1>1 DEF TypeOK
    <2>5. ASSUME NEW x \in Queues, NEW w \in Workers, cur[w] = x
          PROVE  jobCount'[x] + Uncounted(x)' = Len(dataQueue'[x]) + Len(batch'[w])
        <3>1. jobCount[x] + Uncounted(x) = Len(dataQueue[x]) + Len(batch[w])
            BY <2>5 DEF Counted
        <3>2. CASE x = q
            BY <3>1, <3>2, <2>2, <2>3, <2>4, <1>d
        <3>3. CASE x # q
            BY <3>1, <3>3, <2>1, <2>3, <1>d
        <3> QED  BY <3>2, <3>3
    <2>6. ASSUME NEW x \in Queues, \A w \in Workers : cur[w] # x
          PROVE  jobCount'[x] + Uncounted(x)' = Len(dataQueue'[x])
        <3>1. jobCount[x] + Uncounted(x) = Len(dataQueue[x])
            BY <2>6 DEF Counted
        <3>2. CASE x = q
            BY <3>1, <3>2, <2>2, <2>3, <2>4, <1>d
        <3>3. CASE x # q
            BY <3>1, <3>3, <2>1, <2>3, <1>d
        <3> QED  BY <3>2, <3>3
    <2> QED  BY <2>3, <2>5, <2>6 DEF Counted
<1>7. Ordered'
    BY DEF Ordered, Taken, PushFetchAdd, workerVars
<1>8. InOrder'
    BY DEF InOrder, PushFetchAdd, workerVars
<1> QED  BY <1>1, <1>2, <1>3, <1>4, <1>5, <1>6, <1>7, <1>8

\* The push_back of PushJobQueue, called by Push, preserves the invariant.
LEMMA PushDispatchInv ==
    ASSUME IInv, NEW p \in Producers, PushDispatch(p)
    PROVE  IInv'
<1> USE JobAssumption DEF IInv
<1>q. PICK q \in Queues : q = target[p] /\ lock[q] = p
    BY DEF PushDispatch, LockHeld
<1>a. \A r \in Producers : r # p => ppc'[r] = ppc[r]
    BY DEF PushDispatch, TypeOK
<1>b. ppc[p] = "dispatch" /\ target' = target /\ target[p] = q /\ ppc'[p] = "notify"
    BY <1>q DEF PushDispatch, TypeOK
<1>c. \A r \in Producers : r # p => ppc[r] = "idle" \/ target[r] # q
    BY <1>q DEF LockHeld
<1>d. /\ Len(active') = Len(active) + 1
      /\ Len(active) \in Nat
      /\ \A i \in 1..Len(active) : active'[i] = active[i]
      /\ active'[Len(active) + 1] = q
    BY <1>q DEF PushDispatch, TypeOK
<1>e. active' \in Seq(Queues)
    BY <1>q DEF PushDispatch, TypeOK
<1>1. TypeOK'
    BY <1>e DEF TypeOK, ProducerStates, PushDispatch, workerVars
<1>2. LockHeld'
    BY <1>a, <1>b DEF LockHeld, PushDispatch
<1>3. RunLocals'
    BY DEF RunLocals, PushDispatch, workerVars
<1>4. OneHolder'
    BY <1>a, <1>b, <1>c, <1>d DEF OneHolder, PushDispatch, workerVars
<1>5. ChargeCounted'
    <2>1. ASSUME NEW x \in Queues
          PROVE  InCharge(x)' <=> InCharge(x)
        BY <1>a, <1>b, <1>d DEF InCharge, PushDispatch, workerVars
    <2> QED  BY <2>1 DEF ChargeCounted, PushDispatch
<1>6. Counted'
    <2>1. \A x \in Queues : Uncounted(x)' = Uncounted(x)
        BY <1>a, <1>b DEF Uncounted
    <2> QED  BY <2>1 DEF Counted, PushDispatch, workerVars
<1>7. Ordered'
    BY DEF Ordered, Taken, PushDispatch, workerVars
<1>8. InOrder'
    BY DEF InOrder, PushDispatch, workerVars
<1> QED  BY <1>1, <1>2, <1>3, <1>4, <1>5, <1>6, <1>7, <1>8

\* The notification and the return of Push preserve the invariant.
LEMMA PushReturnInv ==
    ASSUME IInv, NEW p \in Producers, PushNotify(p) \/ PushUnlock(p)
    PROVE  IInv'
<1> USE JobAssumption DEF IInv
<1>q. target[p] \in Queues /\ lock[target[p]] = p
    BY DEF PushNotify, PushUnlock, LockHeld
<1>a. \A r \in Producers : r # p => ppc'[r] = ppc[r] /\ target'[r] = target[r]
    BY DEF PushNotify, PushUnlock, TypeOK
<1>b. ppc[p] \in {"notify", "unlock"} /\ ppc'[p] \in {"unlock", "idle"}
    BY DEF PushNotify, PushUnlock, TypeOK
<1>c. UNCHANGED <<running, active, owner, dataQueue, jobCount, accepted, workerVars>>
    BY DEF PushNotify, PushUnlock
<1>1. TypeOK'
    BY <1>q DEF TypeOK, ProducerStates, PushNotify, PushUnlock, NotifyOne, workerVars
<1>2. LockHeld'
    <2>1. CASE PushNotify(p)
        BY <2>1 DEF LockHeld, PushNotify, TypeOK
    <2>2. CASE PushUnlock(p)
        BY <2>2 DEF LockHeld, PushUnlock, TypeOK
    <2> QED  BY <2>1, <2>2
<1>3. RunLocals'
    BY <1>c DEF RunLocals, workerVars
<1>4. OneHolder'
    BY <1>a, <1>b, <1>c DEF OneHolder, workerVars
<1>5. ChargeCounted'
    <2>1. \A x \in Queues : InCharge(x)' <=> InCharge(x)
        BY <1>a, <1>b, <1>c DEF InCharge, workerVars
    <2> QED  BY <2>1, <1>c DEF ChargeCounted
<1>6. Counted'
    <2>1. \A x \in Queues : Uncounted(x)' = Uncounted(x)
        BY <1>a, <1>b DEF Uncounted
    <2> QED  BY <2>1, <1>c DEF Counted, workerVars
<1>7. Ordered'
    BY <1>c DEF Ordered, Taken, workerVars
<1>8. InOrder'
    BY <1>c DEF InOrder, workerVars
<1> QED  BY <1>1, <1>2, <1>3, <1>4, <1>5, <1>6, <1>7, <1>8

\* The steps of Run that move no queue and no job preserve the invariant.
LEMMA RunQuietInv ==
    ASSUME IInv, NEW w \in Workers,
           RunLoop(w) \/ PopWait(w) \/ WakeNotified(w) \/ WakeSpurious(w)
             \/ ExcuteBegin(w) \/ RepushNotify(w)
    PROVE  IInv'
<1> USE JobAssumption DEF IInv
<1>a. UNCHANGED <<active, owner, dataQueue, jobCount, producerVars, cur, batch,
                  next, executed>>
    BY DEF RunLoop, PopWait, WakeNotified, WakeSpurious, ExcuteBegin, RepushNotify
<1>1. TypeOK'
    BY DEF TypeOK, WorkerStates, RunLoop, PopWait, WakeNotified, WakeSpurious,
           ExcuteBegin, RepushNotify, NotifyOne, producerVars
<1>2. LockHeld'
    BY <1>a DEF LockHeld, producerVars
<1>3. RunLocals'
    <2>1. \A v \in Workers : v # w => wpc'[v] = wpc[v]
        BY DEF RunLoop, PopWait, WakeNotified, WakeSpurious, ExcuteBegin,
               RepushNotify, TypeOK
    <2>2. \/ ~(wpc[w] \in {"swap", "exec", "handling", "repush"})
             /\ ~(wpc'[w] \in {"swap", "exec", "handling", "repush"})
          \/ wpc[w] = "exec" /\ wpc'[w] = "handling" /\ next[w] < Len(batch[w])
        BY DEF RunLoop, PopWait, WakeNotified, WakeSpurious, ExcuteBegin,
               RepushNotify, TypeOK
    <2> QED  BY <2>1, <2>2, <1>a DEF RunLocals
<1>4. OneHolder'
    BY <1>a DEF OneHolder, producerVars
<1>5. ChargeCounted'
    <2>1. \A x \in Queues : InCharge(x)' <=> InCharge(x)
        BY <1>a DEF InCharge, producerVars
    <2> QED  BY <2>1, <1>a DEF ChargeCounted
<1>6. Counted'
    <2>1. \A x \in Queues : Uncounted(x)' = Uncounted(x)
        BY <1>a DEF Uncounted, producerVars
    <2> QED  BY <2>1, <1>a DEF Counted
<1>7. Ordered'
    BY <1>a DEF Ordered, Taken, producerVars
<1>8. InOrder'
    BY <1>a DEF InOrder
<1> QED  BY <1>1, <1>2, <1>3, <1>4, <1>5, <1>6, <1>7, <1>8

\* PopJobQueue taking the front queue preserves the invariant, also after a
\* time-out.
LEMMA TakeFrontInv ==
    ASSUME IInv, NEW w \in Workers, PopJobQueue(w) \/ WakeTimeout(w)
    PROVE  IInv'
<1> USE JobAssumption DEF IInv
<1>a. /\ UNCHANGED <<running, owner, dataQueue, jobCount, producerVars, batch,
                     next, executed>>
      /\ TakeFront(w)
      /\ waiting' \subseteq waiting
      /\ wpc[w] \in {"pop", "wait"}
    BY DEF PopJobQueue, WakeTimeout
<1>b. cur[w] = NoQueue /\ batch[w] = <<>> /\ next[w] = 0
    BY <1>a DEF RunLocals, TypeOK
<1>c. CASE active = <<>>
    <2>1. UNCHANGED <<active, cur>> /\ wpc' = [wpc EXCEPT ![w] = "loop"]
        BY <1>a, <1>c DEF TakeFront
    <2>2. TypeOK'
        BY <1>a, <2>1 DEF TypeOK, WorkerStates, producerVars
    <2>3. LockHeld' /\ InOrder'
        BY <1>a DEF LockHeld, InOrder, producerVars
    <2>4. RunLocals'
        BY <1>a, <1>b, <2>1 DEF RunLocals, TypeOK
    <2>5. OneHolder'
        BY <1>a, <2>1 DEF OneHolder, producerVars
    <2>6. ChargeCounted'
        <3>1. \A x \in Queues : InCharge(x)' <=> InCharge(x)
            BY <1>a, <2>1 DEF InCharge, producerVars
        <3> QED  BY <3>1, <1>a DEF ChargeCounted
    <2>7. Counted'
        <3>1. \A x \in Queues : Uncounted(x)' = Uncounted(x)
            BY <1>a DEF Uncounted, producerVars
        <3> QED  BY <3>1, <1>a, <2>1 DEF Counted
    <2>8. Ordered'
        BY <1>a, <2>1 DEF Ordered, Taken, producerVars
    <2> QED  BY <2>2, <2>3, <2>4, <2>5, <2>6, <2>7, <2>8
<1>d. CASE active # <<>>
    <2>q. PICK q \in Queues : q = active[1] /\ Len(active) > 0
        BY <1>d DEF TypeOK
    <2>1. /\ cur' = [cur EXCEPT ![w] = q]
          /\ active' = Tail(active)
          /\ wpc' = [wpc EXCEPT ![w] = "swap"]
        BY <1>a, <1>d, <2>q DEF TakeFront, TypeOK
    <2>2. /\ Len(active') = Len(active) - 1
          /\ \A i \in 1..Len(active') : active'[i] = active[i + 1]
          /\ active' \in Seq(Queues)
        BY <1>d, <2>1 DEF TypeOK
    <2>3. cur'[w] = q /\ \A v \in Workers : v # w => cur'[v] = cur[v]
        BY <2>1 DEF TypeOK
    <2>t. active \in Seq(Queues) /\ active' \in Seq(Queues)
        BY <2>2 DEF TypeOK
    <2>f. /\ \A v \in Workers : cur[v] # q
          /\ \A i \in 1..Len(active') : active'[i] # q
          /\ \A p \in Producers : ppc[p] = "dispatch" => target[p] # q
        <3>1. \A v \in Workers : cur[v] # q
            BY <2>q DEF OneHolder, TypeOK
        <3>2. ASSUME NEW i \in 1..Len(active')
              PROVE  active'[i] # q
            <4>1. /\ 1 \in 1..Len(active) /\ i + 1 \in 1..Len(active) /\ i + 1 # 1
                  /\ active'[i] = active[i + 1]
                BY <2>q, <2>2, <2>t
            <4> QED  BY <4>1, <2>q DEF OneHolder
        <3>3. \A p \in Producers : ppc[p] = "dispatch" => target[p] # q
            BY <2>q DEF OneHolder, TypeOK
        <3> QED  BY <3>1, <3>2, <3>3
    <2>4. TypeOK'
        BY <1>a, <2>1, <2>2 DEF TypeOK, WorkerStates, producerVars
    <2>5. LockHeld' /\ InOrder'
        BY <1>a DEF LockHeld, InOrder, producerVars
    <2>6. RunLocals'
        BY <1>a, <1>b, <2>1 DEF RunLocals, TypeOK
    <2>7. OneHolder'
        <3>1. \A v, u \in Workers : cur'[v] = cur'[u] /\ cur'[v] # NoQueue => v = u
            BY <2>3, <2>f DEF OneHolder
        <3>2. ASSUME NEW i \in 1..Len(active'), NEW j \in 1..Len(active'),
                     active'[i] = active'[j]
              PROVE  i = j
            <4>1. /\ i + 1 \in 1..Len(active) /\ active'[i] = active[i + 1]
                  /\ j + 1 \in 1..Len(active) /\ active'[j] = active[j + 1]
                BY <2>2, <2>t
            <4>2. i + 1 = j + 1
                BY <4>1, <3>2 DEF OneHolder
            <4> QED  BY <4>2
        <3>3. \A v \in Workers, i \in 1..Len(active') : cur'[v] # active'[i]
            BY <2>2, <2>3, <2>f, <2>t DEF OneHolder
        <3>4. \A p \in Producers : ppc[p] = "dispatch" =>
                /\ \A v \in Workers : cur'[v] # target[p]
                /\ \A i \in 1..Len(active') : active'[i] # target[p]
            BY <2>2, <2>3, <2>f, <2>t DEF OneHolder
        <3> QED  BY <3>1, <3>2, <3>3, <3>4, <1>a DEF OneHolder, producerVars
    <2>8. ChargeCounted'
        <3>1. ASSUME NEW x \in Queues
              PROVE  InCharge(x)' <=> InCharge(x)
            <4>1. CASE x = q
                BY <4>1, <2>q, <2>3, <2>t DEF InCharge
            <4>2. CASE x # q
                <5>1. (\E v \in Workers : cur'[v] = x) <=> \E v \in Workers : cur[v] = x
                    BY <4>2, <1>b, <2>3
                <5>2. (\E i \in 1..Len(active') : active'[i] = x)
                        <=> \E i \in 1..Len(active) : active[i] = x
                    <6>1. ASSUME NEW i \in 1..Len(active), active[i] = x
                          PROVE  \E j \in 1..Len(active') : active'[j] = x
                        <7>1. i - 1 \in 1..Len(active') /\ active'[i - 1] = x
                            BY <6>1, <4>2, <2>q, <2>2, <2>t
                        <7> QED  BY <7>1
                    <6>2. ASSUME NEW i \in 1..Len(active'), active'[i] = x
                          PROVE  \E j \in 1..Len(active) : active[j] = x
                        <7>1. i + 1 \in 1..Len(active) /\ active[i + 1] = x
                            BY <6>2, <2>2, <2>t
                        <7> QED  BY <7>1
                    <6> QED  BY <6>1, <6>2
                <5> QED  BY <5>1, <5>2, <1>a DEF InCharge, producerVars
            <4> QED  BY <4>1, <4>2
        <3> QED  BY <3>1, <1>a DEF ChargeCounted
    <2>9. Counted'
        <3>1. \A x \in Queues : Uncounted(x)' = Uncounted(x)
            BY <1>a DEF Uncounted, producerVars
        <3>2. /\ dataQueue \in [Queues -> Seq(Nat)] /\ jobCount \in [Queues -> Nat]
              /\ batch \in [Workers -> Seq(Nat)] /\ Len(batch[w]) = 0
            BY <1>b DEF TypeOK
        <3>3. ASSUME NEW x \in Queues, NEW v \in Workers, cur'[v] = x
              PROVE  jobCount[x] + Uncounted(x)' = Len(dataQueue[x]) + Len(batch[v])
            <4>1. CASE v = w
                BY <4>1, <3>1, <3>2, <3>3, <2>3, <2>f DEF Counted
            <4>2. CASE v # w
                BY <4>2, <3>1, <3>3, <2>3 DEF Counted
            <4> QED  BY <4>1, <4>2
        <3>4. ASSUME NEW x \in Queues, \A v \in Workers : cur'[v] # x
              PROVE  jobCount[x] + Uncounted(x)' = Len(dataQueue[x])
            BY <3>1, <3>4, <1>b, <2>3 DEF Counted
        <3> QED  BY <3>3, <3>4, <1>a DEF Counted
    <2>10. Ordered'
        <3>1. ASSUME NEW x \in Queues, NEW v \in Workers, cur'[v] = x
              PROVE  /\ \A i \in 1..Len(batch[v]) :
                            batch[v][i] = Taken(x) - Len(batch[v]) + i
                     /\ Len(executed[x]) = Taken(x) - Len(batch[v]) + next[v]
            <4>1. CASE v = w
                <5>1. Len(batch[w]) = 0 /\ next[w] = 0
                    BY <1>b
                <5>2. Len(executed[x]) = Taken(x)
                    BY <4>1, <3>1, <2>3, <2>f DEF Ordered
                <5>3. Taken(x) \in Int
                    BY DEF Taken, TypeOK
                <5> QED  BY <4>1, <5>1, <5>2, <5>3
            <4>2. CASE v # w
                BY <4>2, <3>1, <2>3 DEF Ordered
            <4> QED  BY <4>1, <4>2
        <3>2. ASSUME NEW x \in Queues, \A v \in Workers : cur'[v] # x
              PROVE  Len(executed[x]) = Taken(x)
            BY <3>2, <1>b, <2>3 DEF Ordered
        <3>3. \A x \in Queues : Taken(x)' = Taken(x)
            BY <1>a DEF Taken, producerVars
        <3> QED  BY <3>1, <3>2, <3>3, <1>a DEF Ordered
    <2> QED  BY <2>4, <2>5, <2>6, <2>7, <2>8, <2>9, <2>10
<1> QED  BY <1>c, <1>d

\* JobQueue::Pop, the swap of the stored jobs, preserves the invariant.
LEMMA PopInv ==
    ASSUME IInv, NEW w \in Workers, Pop(w)
    PROVE  IInv'
<1> USE JobAssumption DEF IInv
<1>q. PICK q \in Queues : q = cur[w] /\ lock[q] = NoThread
    BY DEF Pop, RunLocals, TypeOK
<1>a. /\ UNCHANGED <<running, active, waiting, owner, jobCount, producerVars,
                     cur, next, executed>>
      /\ wpc' = [wpc EXCEPT ![w] = "exec"]
      /\ dataQueue' = [dataQueue EXCEPT ![q] = <<>>]
      /\ batch' = [batch EXCEPT ![w] = dataQueue[q]]
    BY <1>q DEF Pop
<1>b. batch[w] = <<>> /\ next[w] = 0 /\ \A v \in Workers : v # w => cur[v] # q
    BY <1>q DEF Pop, RunLocals, OneHolder, TypeOK
<1>c. \A p \in Producers : ppc[p] # "idle" => target[p] # q
    BY <1>q DEF LockHeld
<1>d. /\ dataQueue'[q] = <<>> /\ batch'[w] = dataQueue[q]
      /\ \A x \in Queues : x # q => dataQueue'[x] = dataQueue[x]
      /\ \A v \in Workers : v # w => batch'[v] = batch[v]
    BY <1>a DEF TypeOK
<1>1. TypeOK'
    <2>1. dataQueue' \in [Queues -> Seq(Nat)] /\ batch' \in [Workers -> Seq(Nat)]
        BY <1>a DEF TypeOK
    <2>2. wpc' \in [Workers -> WorkerStates]
        BY <1>a DEF TypeOK, WorkerStates
    <2> QED  BY <2>1, <2>2, <1>a DEF TypeOK, producerVars
<1>t. /\ dataQueue \in [Queues -> Seq(Nat)] /\ dataQueue' \in [Queues -> Seq(Nat)]
      /\ jobCount \in [Queues -> Nat] /\ next \in [Workers -> Nat]
      /\ batch \in [Workers -> Seq(Nat)] /\ batch' \in [Workers -> Seq(Nat)]
      /\ accepted \in [Queues -> Nat] /\ executed \in [Queues -> Seq(Nat)]
    BY <1>1 DEF TypeOK
<1>2. LockHeld'
    BY <1>a, <1>c, <1>d DEF LockHeld, producerVars
<1>3. RunLocals'
    BY <1>a, <1>b, <1>d, <1>t DEF RunLocals, Pop, TypeOK
<1>4. OneHolder'
    BY <1>a DEF OneHolder, producerVars
<1>5. ChargeCounted'
    <2>1. \A x \in Queues : InCharge(x)' <=> InCharge(x)
        BY <1>a DEF InCharge, producerVars
    <2> QED  BY <2>1, <1>a DEF ChargeCounted
<1>6. Counted'
    <2>1. \A x \in Queues : Uncounted(x)' = Uncounted(x)
        BY <1>a DEF Uncounted, producerVars
    <2>2. Len(batch[w]) = 0 /\ Len(dataQueue'[q]) = 0
        BY <1>b, <1>d
    <2>3. ASSUME NEW x \in Queues, NEW v \in Workers, cur[v] = x
          PROVE  jobCount[x] + Uncounted(x)' = Len(dataQueue'[x]) + Len(batch'[v])
        <3>1. CASE v = w
            BY <3>1, <2>1, <2>2, <2>3, <1>q, <1>d, <1>t DEF Counted
        <3>2. CASE v # w
            <4>1. jobCount[x] + Uncounted(x) = Len(dataQueue[x]) + Len(batch[v])
                BY <2>3 DEF Counted
            <4>2. x # q
                BY <3>2, <2>3, <1>b
            <4>3. dataQueue'[x] = dataQueue[x] /\ batch'[v] = batch[v]
                BY <3>2, <4>2, <1>d
            <4> QED  BY <4>1, <4>3, <2>1
        <3> QED  BY <3>1, <3>2
    <2>4. ASSUME NEW x \in Queues, \A v \in Workers : cur[v] # x
          PROVE  jobCount[x] + Uncounted(x)' = Len(dataQueue'[x])
        BY <2>1, <2>4, <1>q, <1>d DEF Counted
    <2> QED  BY <2>3, <2>4, <1>a DEF Counted
<1>7. Ordered'
    <2>1. Len(batch[w]) = 0 /\ Len(dataQueue'[q]) = 0
        BY <1>b, <1>d
    <2>2. /\ \A x \in Queues : x # q => Taken(x)' = Taken(x)
          /\ \A x \in Queues : x = q => Taken(x)' = accepted[q]
          /\ \A x \in Queues : Taken(x) = accepted[x] - Len(dataQueue[x])
        BY <2>1, <1>a, <1>d, <1>t DEF Taken, producerVars
    <2>3. ASSUME NEW x \in Queues, NEW i \in 1..Len(dataQueue'[x])
          PROVE  dataQueue'[x][i] = Taken(x)' + i
        <3>1. x # q
            BY <2>1
        <3> QED  BY <3>1, <2>2, <1>d DEF Ordered
    <2>4. ASSUME NEW x \in Queues, NEW v \in Workers, cur[v] = x
          PROVE  /\ \A i \in 1..Len(batch'[v]) :
                        batch'[v][i] = Taken(x)' - Len(batch'[v]) + i
                 /\ Len(executed[x]) = Taken(x)' - Len(batch'[v]) + next[v]
        <3>1. CASE v = w
            <4>1. x = q /\ Taken(x)' = accepted[q]
                BY <3>1, <2>2, <2>4, <1>q
            <4>2. \A i \in 1..Len(dataQueue[q]) :
                     dataQueue[q][i] = accepted[q] - Len(dataQueue[q]) + i
                BY <2>2 DEF Ordered
            <4>3. Len(executed[q]) = accepted[q] - Len(dataQueue[q])
                <5>1. Len(executed[q]) = Taken(q) - Len(batch[w]) + next[w]
                    BY <1>q DEF Ordered
                <5>2. Taken(q) = accepted[q] - Len(dataQueue[q])
                    BY <2>2
                <5>3. Len(batch[w]) = 0 /\ next[w] = 0
                    BY <1>b
                <5>4. accepted[q] \in Nat /\ Len(dataQueue[q]) \in Nat
                    BY <1>t
                <5> HIDE DEF IInv
                <5> QED  BY <5>1, <5>2, <5>3, <5>4
            <4> QED  BY <3>1, <4>1, <4>2, <4>3, <1>b, <1>d, <1>t
        <3>2. CASE v # w
            BY <3>2, <2>2, <2>4, <1>b, <1>d DEF Ordered
        <3> QED  BY <3>1, <3>2
    <2>5. ASSUME NEW x \in Queues, \A v \in Workers : cur[v] # x
          PROVE  Len(executed[x]) = Taken(x)'
        BY <2>2, <2>5, <1>q DEF Ordered
    <2> QED  BY <2>3, <2>4, <2>5, <1>a DEF Ordered
<1>8. InOrder'
    BY <1>a DEF InOrder
<1> QED  BY <1>1, <1>2, <1>3, <1>4, <1>5, <1>6, <1>7, <1>8

\* The end of a handler preserves the invariant.
LEMMA ExcuteEndInv ==
    ASSUME IInv, NEW w \in Workers, ExcuteEnd(w)
    PROVE  IInv'
<1> USE JobAssumption DEF IInv
<1>q. PICK q \in Queues : q = cur[w]
    BY DEF ExcuteEnd, RunLocals, TypeOK
<1> DEFINE job == batch[w][next[w] + 1]
<1>a. /\ UNCHANGED <<running, active, waiting, owner, dataQueue, jobCount,
                     producerVars, cur, batch>>
      /\ wpc' = [wpc EXCEPT ![w] = "exec"]
      /\ next' = [next EXCEPT ![w] = next[w] + 1]
      /\ executed' = [executed EXCEPT ![q] = Append(executed[q], job)]
    BY <1>q DEF ExcuteEnd, TypeOK
<1>b. /\ next[w] < Len(batch[w]) /\ wpc[w] = "handling"
      /\ \A v \in Workers : v # w => cur[v] # q
    BY <1>q DEF ExcuteEnd, RunLocals, OneHolder, TypeOK
<1>t. /\ dataQueue \in [Queues -> Seq(Nat)] /\ accepted \in [Queues -> Nat]
      /\ next \in [Workers -> Nat] /\ batch \in [Workers -> Seq(Nat)]
      /\ executed \in [Queues -> Seq(Nat)]
    BY DEF TypeOK
<1>c. job \in Nat /\ job = Len(executed[q]) + 1
    <2>1. next[w] + 1 \in 1..Len(batch[w])
        BY <1>b, <1>t
    <2>2. job \in Nat
        BY <2>1, <1>t
    <2>3. job = Taken(q) - Len(batch[w]) + (next[w] + 1)
        BY <2>1, <1>q DEF Ordered
    <2>4. Len(executed[q]) = Taken(q) - Len(batch[w]) + next[w]
        BY <1>q DEF Ordered
    <2> QED  BY <2>2, <2>3, <2>4, <1>t DEF Taken
<1> HIDE DEF job
<1>d. /\ executed'[q] = Append(executed[q], job)
      /\ \A x \in Queues : x # q => executed'[x] = executed[x]
      /\ executed' \in [Queues -> Seq(Nat)] /\ next' \in [Workers -> Nat]
      /\ next'[w] = next[w] + 1
      /\ \A v \in Workers : v # w => next'[v] = next[v]
    BY <1>a, <1>c, <1>t
<1>e. /\ Len(executed'[q]) = Len(executed[q]) + 1
      /\ \A i \in 1..Len(executed[q]) : executed'[q][i] = executed[q][i]
      /\ executed'[q][Len(executed[q]) + 1] = job
    BY <1>c, <1>d, <1>t
<1>1. TypeOK'
    BY <1>a, <1>d DEF TypeOK, WorkerStates, producerVars
<1>2. LockHeld'
    BY <1>a DEF LockHeld, producerVars
<1>3. RunLocals'
    BY <1>a, <1>b, <1>d, <1>t DEF RunLocals, TypeOK
<1>4. OneHolder'
    BY <1>a DEF OneHolder, producerVars
<1>5. ChargeCounted'
    <2>1. \A x \in Queues : InCharge(x)' <=> InCharge(x)
        BY <1>a DEF InCharge, producerVars
    <2> QED  BY <2>1, <1>a DEF ChargeCounted
<1>6. Counted'
    <2>1. \A x \in Queues : Uncounted(x)' = Uncounted(x)
        BY <1>a DEF Uncounted, producerVars
    <2> QED  BY <2>1, <1>a DEF Counted
<1>7. Ordered'
    <2>1. \A x \in Queues : Taken(x)' = Taken(x)
        BY <1>a DEF Taken, producerVars
    <2>2. ASSUME NEW x \in Queues, NEW v \in Workers, cur[v] = x
          PROVE  Len(executed'[x]) = Taken(x) - Len(batch[v]) + next'[v]
        <3>0. Taken(x) \in Int
            BY <1>t DEF Taken
        <3>1. Len(executed[x]) = Taken(x) - Len(batch[v]) + next[v]
            BY <2>2 DEF Ordered
        <3>2. CASE v = w
            <4>1. /\ Len(executed'[x]) = Len(executed[x]) + 1
                  /\ next'[v] = next[v] + 1
                BY <3>2, <2>2, <1>q, <1>d, <1>e
            <4>2. Len(batch[v]) \in Nat /\ next[v] \in Nat
                BY <1>t
            <4>3. Taken(x) - Len(batch[v]) + (next[v] + 1)
                    = (Taken(x) - Len(batch[v]) + next[v]) + 1
                BY <3>0, <4>2, OneMore, Zenon
            <4> QED  BY <3>1, <4>1, <4>3, Zenon
        <3>3. CASE v # w
            BY <3>1, <3>3, <2>2, <1>b, <1>d
        <3> QED  BY <3>2, <3>3
    <2>3. ASSUME NEW x \in Queues, \A v \in Workers : cur[v] # x
          PROVE  Len(executed'[x]) = Taken(x)
        BY <2>3, <1>q, <1>d DEF Ordered
    <2> QED  BY <2>1, <2>2, <2>3, <1>a DEF Ordered
<1>8. InOrder'
    <2>1. ASSUME NEW x \in Queues, NEW i \in 1..Len(executed'[x])
          PROVE  executed'[x][i] = i
        <3>1. CASE x # q
            BY <3>1, <1>d DEF InOrder
        <3>2. CASE x = q /\ i = Len(executed[q]) + 1
            BY <3>2, <1>c, <1>e
        <3>3. CASE x = q /\ i # Len(executed[q]) + 1
            <4>1. i \in 1..Len(executed[q])
                BY <3>3, <1>e, <1>t
            <4> QED  BY <3>3, <4>1, <1>e DEF InOrder
        <3> QED  BY <3>1, <3>2, <3>3
    <2> QED  BY <2>1 DEF InOrder
<1> QED  BY <1>1, <1>2, <1>3, <1>4, <1>5, <1>6, <1>7, <1>8

\* JobQueue::Decrement preserves the invariant: a queue is given up exactly
\* when its counter reaches 0.
LEMMA DecrementInv ==
    ASSUME IInv, NEW w \in Workers, Decrement(w)
    PROVE  IInv'
<1> USE JobAssumption DEF IInv
<1>q. PICK q \in Queues : q = cur[w]
    BY DEF Decrement, RunLocals, TypeOK
<1> DEFINE left == jobCount[q] - Len(batch[w])
<1>a. /\ UNCHANGED <<running, active, waiting, owner, dataQueue, producerVars,
                     executed>>
      /\ jobCount' = [jobCount EXCEPT ![q] = left]
      /\ wpc' = [wpc EXCEPT ![w] = IF left > 0 THEN "repush" ELSE "loop"]
      /\ cur' = [cur EXCEPT ![w] = IF left > 0 THEN q ELSE NoQueue]
      /\ batch' = [batch EXCEPT ![w] = <<>>]
      /\ next' = [next EXCEPT ![w] = 0]
    BY <1>q DEF Decrement, Repushes, TypeOK
<1>b. /\ next[w] = Len(batch[w])
      /\ \A v \in Workers : v # w => cur[v] # q
    BY <1>q DEF Decrement, RunLocals, OneHolder, TypeOK
<1>t. /\ dataQueue \in [Queues -> Seq(Nat)] /\ accepted \in [Queues -> Nat]
      /\ next \in [Workers -> Nat] /\ batch \in [Workers -> Seq(Nat)]
      /\ executed \in [Queues -> Seq(Nat)] /\ jobCount \in [Queues -> Nat]
    BY DEF TypeOK
<1>c. left \in Nat /\ left + Uncounted(q) = Len(dataQueue[q])
    <2>1. jobCount[q] + Uncounted(q) = Len(dataQueue[q]) + Len(batch[w])
        BY <1>q DEF Counted
    <2>2. Uncounted(q) \in {0, 1} /\ (Uncounted(q) = 1 => dataQueue[q] # <<>>)
        BY DEF Uncounted, LockHeld
    <2>3. Uncounted(q) <= Len(dataQueue[q])
        BY <2>2, <1>t
    <2>4. /\ jobCount[q] \in Nat /\ Len(dataQueue[q]) \in Nat
          /\ Len(batch[w]) \in Nat
        BY <1>t
    <2>u. Uncounted(q) \in Nat
        BY <2>2
    <2>5. PICK j, d, b, u \in Nat : /\ j = jobCount[q] /\ d = Len(dataQueue[q])
                                    /\ b = Len(batch[w]) /\ u = Uncounted(q)
        BY <2>4, <2>u, Zenon
    <2>6. j + u = d + b /\ u <= d
        BY <2>1, <2>3, <2>5, Zenon
    <2>7. j - b \in Nat /\ (j - b) + u = d
        BY <2>6
    <2> QED  BY <2>5, <2>7, Zenon
<1> HIDE DEF left
<1>d. /\ cur'[w] = IF left > 0 THEN q ELSE NoQueue
      /\ \A v \in Workers : v # w => cur'[v] = cur[v]
      /\ jobCount'[q] = left
      /\ \A x \in Queues : x # q => jobCount'[x] = jobCount[x]
      /\ batch'[w] = <<>> /\ next'[w] = 0
      /\ \A v \in Workers : v # w => batch'[v] = batch[v] /\ next'[v] = next[v]
    BY <1>a, <1>t DEF TypeOK
<1>1. TypeOK'
    <2>1. jobCount' \in [Queues -> Nat] /\ batch' \in [Workers -> Seq(Nat)]
          /\ next' \in [Workers -> Nat]
        BY <1>a, <1>c, <1>t
    <2>2. cur' \in [Workers -> Queues \union {NoQueue}]
        BY <1>a DEF TypeOK
    <2>3. wpc' \in [Workers -> WorkerStates]
        BY <1>a DEF TypeOK, WorkerStates
    <2> QED  BY <2>1, <2>2, <2>3, <1>a DEF TypeOK, producerVars
<1>2. LockHeld'
    BY <1>a DEF LockHeld, producerVars
<1>3. RunLocals'
    BY <1>a, <1>d, <1>1 DEF RunLocals, TypeOK
<1>4. OneHolder'
    <2>1. /\ \A i \in 1..Len(active) : active[i] \in Queues
          /\ \A p \in Producers : ppc[p] = "dispatch" => target[p] \in Queues
        BY DEF TypeOK, LockHeld
    <2>2. \A v \in Workers : cur'[v] \in {cur[v], NoQueue}
        BY <1>d, <1>q
    <2> QED  BY <2>1, <2>2, <1>a DEF OneHolder, producerVars
<1>5. ChargeCounted'
    <2>1. ASSUME NEW x \in Queues, x # q
          PROVE  InCharge(x)' <=> InCharge(x)
        BY <2>1, <1>a, <1>d, <1>q DEF InCharge, producerVars
    <2>2. ASSUME NEW x \in Queues, x = q
          PROVE  InCharge(x)' <=> left > 0
        <3>1. CASE left > 0
            BY <3>1, <2>2, <1>d DEF InCharge
        <3>2. CASE ~(left > 0)
            <4>1. \A v \in Workers : cur'[v] # q
                BY <3>2, <1>b, <1>d
            <4>2. \A i \in 1..Len(active) : active[i] # q
                BY <1>q DEF OneHolder
            <4>3. \A p \in Producers : ppc[p] = "dispatch" => target[p] # q
                BY <1>q DEF OneHolder
            <4> QED  BY <3>2, <2>2, <4>1, <4>2, <4>3, <1>a DEF InCharge, producerVars
        <3> QED  BY <3>1, <3>2
    <2>3. ASSUME NEW x \in Queues
          PROVE  InCharge(x)' <=> jobCount'[x] > 0
        BY <2>1, <2>2, <1>d DEF ChargeCounted
    <2> QED  BY <2>3 DEF ChargeCounted
<1>6. Counted'
    <2>1. \A x \in Queues : Uncounted(x)' = Uncounted(x)
        BY <1>a DEF Uncounted, producerVars
    <2>2. \A x \in Queues : x = q => jobCount'[x] + Uncounted(x) = Len(dataQueue[x])
        BY <1>c, <1>d
    <2>3. ASSUME NEW x \in Queues, NEW v \in Workers, cur'[v] = x
          PROVE  jobCount'[x] + Uncounted(x)' = Len(dataQueue[x]) + Len(batch'[v])
        <3>1. CASE v = w
            <4>1. x = q /\ Len(batch'[v]) = 0
                BY <3>1, <2>3, <1>d
            <4>2. Len(dataQueue[x]) + 0 = Len(dataQueue[x])
                BY <1>t
            <4> QED  BY <4>1, <4>2, <2>1, <2>2
        <3>2. CASE v # w
            <4>1. x # q
                BY <3>2, <2>3, <1>b, <1>d
            <4> QED  BY <3>2, <4>1, <2>1, <2>3, <1>d DEF Counted
        <3> QED  BY <3>1, <3>2
    <2>4. ASSUME NEW x \in Queues, \A v \in Workers : cur'[v] # x
          PROVE  jobCount'[x] + Uncounted(x)' = Len(dataQueue[x])
        <3>1. CASE x = q
            BY <3>1, <2>1, <2>2
        <3>2. CASE x # q
            BY <3>2, <2>1, <2>4, <1>d, <1>q DEF Counted
        <3> QED  BY <3>1, <3>2
    <2>5. dataQueue' = dataQueue
        BY <1>a
    <2> QED  BY <2>3, <2>4, <2>5 DEF Counted
<1>7. Ordered'
    <2>1. \A x \in Queues : Taken(x)' = Taken(x) /\ Taken(x) \in Int
        BY <1>a, <1>t DEF Taken, producerVars
    <2>2. Len(executed[q]) = Taken(q)
        <3>1. Len(executed[q]) = Taken(q) - Len(batch[w]) + next[w]
            BY <1>q DEF Ordered
        <3> QED  BY <3>1, <2>1, <1>b, <1>t
    <2>3. ASSUME NEW x \in Queues, NEW v \in Workers, cur'[v] = x
          PROVE  /\ \A i \in 1..Len(batch'[v]) :
                        batch'[v][i] = Taken(x) - Len(batch'[v]) + i
                 /\ Len(executed[x]) = Taken(x) - Len(batch'[v]) + next'[v]
        <3>1. CASE v = w
            <4>1. x = q /\ Len(batch'[v]) = 0 /\ next'[v] = 0
                BY <3>1, <2>3, <1>d
            <4> QED  BY <4>1, <2>1, <2>2
        <3>2. CASE v # w
            BY <3>2, <2>3, <1>d DEF Ordered
        <3> QED  BY <3>1, <3>2
    <2>4. ASSUME NEW x \in Queues, \A v \in Workers : cur'[v] # x
          PROVE  Len(executed[x]) = Taken(x)
        <3>1. CASE x = q
            BY <3>1, <2>2
        <3>2. CASE x # q
            BY <3>2, <2>4, <1>d, <1>q DEF Ordered
        <3> QED  BY <3>1, <3>2
    <2> QED  BY <2>1, <2>3, <2>4, <1>a DEF Ordered
<1>8. InOrder'
    BY <1>a DEF InOrder
<1> QED  BY <1>1, <1>2, <1>3, <1>4, <1>5, <1>6, <1>7, <1>8

\* PushJobQueue called by Run preserves the invariant.
LEMMA RepushInv ==
    ASSUME IInv, NEW w \in Workers, Repush(w)
    PROVE  IInv'
<1> USE JobAssumption DEF IInv
<1>q. PICK q \in Queues : q = cur[w]
    BY DEF Repush, RunLocals, TypeOK
<1>a. /\ UNCHANGED <<running, waiting, owner, dataQueue, jobCount, producerVars,
                     batch, next, executed>>
      /\ active' = Append(active, q)
      /\ cur' = [cur EXCEPT ![w] = NoQueue]
      /\ wpc' = [wpc EXCEPT ![w] = "notify"]
    BY <1>q DEF Repush
<1>b. /\ batch[w] = <<>> /\ next[w] = 0
      /\ \A v \in Workers : v # w => cur[v] # q
    BY <1>q DEF Repush, RunLocals, OneHolder, TypeOK
<1>t. /\ dataQueue \in [Queues -> Seq(Nat)] /\ accepted \in [Queues -> Nat]
      /\ next \in [Workers -> Nat] /\ batch \in [Workers -> Seq(Nat)]
      /\ executed \in [Queues -> Seq(Nat)] /\ jobCount \in [Queues -> Nat]
      /\ active \in Seq(Queues) /\ active' \in Seq(Queues)
    BY <1>a DEF TypeOK
<1>c. cur'[w] = NoQueue /\ \A v \in Workers : v # w => cur'[v] = cur[v]
    BY <1>a DEF TypeOK
<1>d. /\ Len(active') = Len(active) + 1
      /\ Len(active) \in Nat
      /\ \A i \in 1..Len(active) : active'[i] = active[i]
      /\ active'[Len(active) + 1] = q
    BY <1>a, <1>t
<1>f. /\ \A i \in 1..Len(active) : active[i] # q
      /\ \A p \in Producers : ppc[p] = "dispatch" => target[p] # q
    BY <1>q DEF OneHolder
<1>1. TypeOK'
    BY <1>a, <1>t DEF TypeOK, WorkerStates, producerVars
<1>2. LockHeld'
    BY <1>a DEF LockHeld, producerVars
<1>3. RunLocals'
    BY <1>a, <1>b, <1>c, <1>t DEF RunLocals, TypeOK
<1>4. OneHolder'
    <2>1. \A u, v \in Workers : cur'[v] = cur'[u] /\ cur'[v] # NoQueue => v = u
        BY <1>c DEF OneHolder
    <2>2. \A i, j \in 1..Len(active') : active'[i] = active'[j] => i = j
        BY <1>d, <1>f DEF OneHolder
    <2>3. \A v \in Workers, i \in 1..Len(active') : cur'[v] # active'[i]
        <3>1. \A i \in 1..Len(active') : active'[i] \in Queues
            BY <1>t
        <3> QED  BY <3>1, <1>b, <1>c, <1>d DEF OneHolder
    <2>4. \A p \in Producers : ppc[p] = "dispatch" =>
            /\ \A v \in Workers : cur'[v] # target[p]
            /\ \A i \in 1..Len(active') : active'[i] # target[p]
        <3>1. \A p \in Producers : ppc[p] = "dispatch" => target[p] \in Queues
            BY DEF LockHeld
        <3> QED  BY <3>1, <1>c, <1>d, <1>f DEF OneHolder
    <2> QED  BY <2>1, <2>2, <2>3, <2>4, <1>a DEF OneHolder, producerVars
<1>5. ChargeCounted'
    <2>1. ASSUME NEW x \in Queues
          PROVE  InCharge(x)' <=> InCharge(x)
        <3>1. CASE x = q
            <4>1. Len(active) + 1 \in 1..Len(active')
                BY <1>d, <1>t
            <4> QED  BY <3>1, <4>1, <1>d, <1>q DEF InCharge
        <3>2. CASE x # q
            <4>1. (\E v \in Workers : cur'[v] = x) <=> \E v \in Workers : cur[v] = x
                BY <3>2, <1>c, <1>q
            <4>2. (\E i \in 1..Len(active') : active'[i] = x)
                    <=> \E i \in 1..Len(active) : active[i] = x
                BY <3>2, <1>d
            <4> QED  BY <4>1, <4>2, <1>a DEF InCharge, producerVars
        <3> QED  BY <3>1, <3>2
    <2> QED  BY <2>1, <1>a DEF ChargeCounted
<1>6. Counted'
    <2>1. \A x \in Queues : Uncounted(x)' = Uncounted(x)
        BY <1>a DEF Uncounted, producerVars
    <2>2. ASSUME NEW x \in Queues, NEW v \in Workers, cur'[v] = x
          PROVE  jobCount[x] + Uncounted(x)' = Len(dataQueue[x]) + Len(batch[v])
        BY <2>1, <2>2, <1>c DEF Counted
    <2>3. ASSUME NEW x \in Queues, \A v \in Workers : cur'[v] # x
          PROVE  jobCount[x] + Uncounted(x)' = Len(dataQueue[x])
        <3>1. CASE x = q
            <4>1. jobCount[x] + Uncounted(x) = Len(dataQueue[x]) + Len(batch[w])
                BY <3>1, <1>q DEF Counted
            <4>2. Len(dataQueue[x]) + Len(batch[w]) = Len(dataQueue[x])
                BY <1>b, <1>t
            <4> QED  BY <4>1, <4>2, <2>1
        <3>2. CASE x # q
            BY <3>2, <2>1, <2>3, <1>c, <1>q DEF Counted
        <3> QED  BY <3>1, <3>2
    <2> QED  BY <2>2, <2>3, <1>a DEF Counted
<1>7. Ordered'
    <2>1. \A x \in Queues : Taken(x)' = Taken(x) /\ Taken(x) \in Int
        BY <1>a, <1>t DEF Taken, producerVars
    <2>2. ASSUME NEW x \in Queues, NEW v \in Workers, cur'[v] = x
          PROVE  /\ \A i \in 1..Len(batch[v]) :
                        batch[v][i] = Taken(x) - Len(batch[v]) + i
                 /\ Len(executed[x]) = Taken(x) - Len(batch[v]) + next[v]
        BY <2>2, <1>c DEF Ordered
    <2>3. ASSUME NEW x \in Queues, \A v \in Workers : cur'[v] # x
          PROVE  Len(executed[x]) = Taken(x)
        <3>1. CASE x = q
            <4>1. Len(executed[x]) = Taken(x) - Len(batch[w]) + next[w]
                BY <3>1, <1>q DEF Ordered
            <4> QED  BY <4>1, <2>1, <1>b
        <3>2. CASE x # q
            BY <3>2, <2>3, <1>c, <1>q DEF Ordered
        <3> QED  BY <3>1, <3>2
    <2> QED  BY <2>1, <2>2, <2>3, <1>a DEF Ordered
<1>8. InOrder'
    BY <1>a DEF InOrder
<1> QED  BY <1>1, <1>2, <1>3, <1>4, <1>5, <1>6, <1>7, <1>8

\* The destructor and stuttering preserve the invariant.
LEMMA StopInv ==
    ASSUME IInv, StopRunning \/ StopStep \/ UNCHANGED vars
    PROVE  IInv'
<1> USE DEF IInv
<1>a. UNCHANGED <<active, dataQueue, jobCount, producerVars, workerVars>>
    BY DEF StopRunning, StopStep, StopNotify, Join, vars
<1>1. TypeOK'
    BY DEF TypeOK, StopRunning, StopStep, StopNotify, Join, vars, producerVars, workerVars
<1>2. LockHeld' /\ RunLocals' /\ OneHolder' /\ InOrder'
    BY <1>a DEF LockHeld, RunLocals, OneHolder, InOrder, producerVars, workerVars
<1>3. ChargeCounted'
    <2>1. \A x \in Queues : InCharge(x)' <=> InCharge(x)
        BY <1>a DEF InCharge, producerVars, workerVars
    <2> QED  BY <2>1, <1>a DEF ChargeCounted
<1>4. Counted'
    <2>1. \A x \in Queues : Uncounted(x)' = Uncounted(x)
        BY <1>a DEF Uncounted, producerVars
    <2> QED  BY <2>1, <1>a DEF Counted, workerVars
<1>5. Ordered'
    BY <1>a DEF Ordered, Taken, producerVars, workerVars
<1> QED  BY <1>1, <1>2, <1>3, <1>4, <1>5

-----------------------------------------------------------------------------
\* Every step preserves the invariant.
LEMMA NextInv ==
    ASSUME IInv, [Next]_vars
    PROVE  IInv'
<1>1. ASSUME NEW p \in Producers, PushStep(p) \/ \E q \in Queues : PushLock(p, q)
      PROVE  IInv'
    BY <1>1, PushLockInv, PushFetchAddInv, PushDispatchInv, PushReturnInv DEF PushStep
<1>2. ASSUME NEW w \in Workers, RunStep(w) \/ WakeSpurious(w) \/ WakeTimeout(w)
      PROVE  IInv'
    BY <1>2, RunQuietInv, TakeFrontInv, PopInv, ExcuteEndInv, DecrementInv, RepushInv
       DEF RunStep
<1>3. ASSUME StopRunning \/ StopStep \/ Terminated \/ UNCHANGED vars
      PROVE  IInv'
    BY <1>3, StopInv DEF Terminated
<1> QED  BY <1>1, <1>2, <1>3 DEF Next

\* The invariant holds in every reachable state.
THEOREM Invariance == Spec => []IInv
    BY InitInv, NextInv, PTL DEF Spec

\* TypeOK: in particular m_dbJobCount never drops below 0.
THEOREM TypeCorrect == Spec => []TypeOK
<1>1. IInv => TypeOK
    BY DEF IInv
<1> QED  BY <1>1, Invariance, PTL

\* OneHolder: the jobs of a session are never in the hands of two workers.
THEOREM Serialised == Spec => []OneHolder
<1>1. IInv => OneHolder
    BY DEF IInv
<1> QED  BY <1>1, Invariance, PTL

\* InOrder: the jobs of a session are executed in the order of acceptance, none
\* skipped and none repeated.
THEOREM OrderKept == Spec => []InOrder
<1>1. IInv => InOrder
    BY DEF IInv
<1> QED  BY <1>1, Invariance, PTL

\* Counted: m_dbJobCount is exact outside of Push.
THEOREM CounterExact == Spec => []Counted
<1>1. IInv => Counted
    BY DEF IInv
<1> QED  BY <1>1, Invariance, PTL

\* A queue with jobs that no push and no worker has in hand is scheduled.
LEMMA InChargeOfStored == IInv => NotStranded
<1> SUFFICES ASSUME IInv, NEW q \in Queues, dataQueue[q] # <<>>, lock[q] = NoThread,
                    \A w \in Workers : cur[w] # q
             PROVE  \E i \in 1..Len(active) : active[i] = q
    BY DEF NotStranded
<1>t. dataQueue \in [Queues -> Seq(Nat)] /\ jobCount \in [Queues -> Nat]
    BY DEF IInv, TypeOK
<1>1. \A p \in Producers : ppc[p] # "idle" => target[p] # q
    BY JobAssumption DEF IInv, LockHeld
<1>2. Uncounted(q) = 0
    BY <1>1 DEF Uncounted
<1>3. jobCount[q] + 0 = Len(dataQueue[q])
    BY <1>2 DEF IInv, Counted
<1>4. jobCount[q] > 0
    BY <1>3, <1>t
<1>5. InCharge(q)
    BY <1>4 DEF IInv, ChargeCounted
<1> QED  BY <1>1, <1>5 DEF InCharge

\* NotStranded: no interleaving of Push, Pop and Decrement leaves jobs in a
\* queue that nobody will drain.
THEOREM NoJobStranded == Spec => []NotStranded
    BY InChargeOfStored, Invariance, PTL

-----------------------------------------------------------------------------
\* A handler runs for a job of q.
Busy(q) == \E w \in Workers : cur[w] = q /\ wpc[w] = "handling"

\* Handling, without CHOOSE.
Mapped == [q \in Queues |-> IF Busy(q) THEN Len(executed[q]) + 1 ELSE 0]

\* Under the invariant the job being handled is the next one to complete.
LEMMA HandlingIsMapped == IInv => Handling = Mapped
<1> SUFFICES ASSUME IInv, NEW q \in Queues
             PROVE  Handling[q] = Mapped[q]
    BY DEF Handling, Mapped
<1>1. CASE Busy(q)
    <2> DEFINE w == CHOOSE w \in Workers : cur[w] = q /\ wpc[w] = "handling"
    <2>1. w \in Workers /\ cur[w] = q /\ wpc[w] = "handling"
        BY <1>1 DEF Busy
    <2> HIDE DEF w
    <2>2. Handling[q] = batch[w][next[w] + 1]
        BY <1>1 DEF Handling, Busy, w
    <2>t. /\ dataQueue \in [Queues -> Seq(Nat)] /\ accepted \in [Queues -> Nat]
          /\ next \in [Workers -> Nat] /\ batch \in [Workers -> Seq(Nat)]
          /\ executed \in [Queues -> Seq(Nat)]
        BY DEF IInv, TypeOK
    <2>3. next[w] + 1 \in 1..Len(batch[w])
        BY <2>1, <2>t DEF IInv, RunLocals
    <2>4. batch[w][next[w] + 1] = Taken(q) - Len(batch[w]) + (next[w] + 1)
        BY <2>1, <2>3 DEF IInv, Ordered
    <2>5. Len(executed[q]) = Taken(q) - Len(batch[w]) + next[w]
        BY <2>1 DEF IInv, Ordered
    <2>6. batch[w][next[w] + 1] = Len(executed[q]) + 1
        BY <2>1, <2>4, <2>5, <2>t DEF Taken
    <2> QED  BY <1>1, <2>2, <2>6 DEF Mapped
<1>2. CASE ~Busy(q)
    BY <1>2 DEF Handling, Mapped, Busy
<1> QED  BY <1>1, <1>2

\* Every step of the job system is a step of SerialExecutor or changes nothing
\* there.
LEMMA NextRefines ==
    ASSUME IInv, IInv', [Next]_vars
    PROVE  [Serial!Next]_(Serial!vars)
<1> USE DEF Serial!Next, Serial!vars
<1>m. Handling = Mapped /\ Handling' = Mapped'
    <2>1. (Handling = Mapped)'
        BY HandlingIsMapped, PTL
    <2> QED  BY HandlingIsMapped, <2>1
<1>s. ASSUME UNCHANGED <<accepted, executed>>,
             \A q \in Queues : Busy(q)' <=> Busy(q)
      PROVE  [Serial!Next]_(Serial!vars)
    <2>1. Mapped' = Mapped
        BY <1>s DEF Mapped
    <2> QED  BY <2>1, <1>s, <1>m
<1>1. ASSUME NEW p \in Producers, NEW q \in Queues, PushLock(p, q)
      PROVE  Serial!Next
    <2>1. Mapped' = Mapped
        BY <1>1 DEF PushLock, workerVars, Mapped, Busy
    <2>2. Serial!Accept(q)
        BY <1>1, <2>1, <1>m DEF Serial!Accept, PushLock, workerVars
    <2> QED  BY <2>2
<1>2. ASSUME NEW p \in Producers, PushStep(p)
      PROVE  [Serial!Next]_(Serial!vars)
    <2>1. UNCHANGED <<accepted, workerVars>>
        BY <1>2 DEF PushStep, PushFetchAdd, PushDispatch, PushNotify, PushUnlock
    <2>2. \A q \in Queues : Busy(q)' <=> Busy(q)
        BY <2>1 DEF Busy, workerVars
    <2> QED  BY <2>1, <2>2, <1>s DEF workerVars
<1>3. ASSUME NEW w \in Workers, ExcuteBegin(w)
      PROVE  Serial!Next
    <2>q. PICK q \in Queues : q = cur[w]
        BY <1>3 DEF ExcuteBegin, IInv, RunLocals, TypeOK
    <2>1. ~Busy(q)
        BY <1>3, <2>q, JobAssumption DEF Busy, IInv, OneHolder, ExcuteBegin
    <2>2. \A x \in Queues : Busy(x)' <=> Busy(x) \/ x = q
        BY <1>3, <2>q DEF Busy, ExcuteBegin, IInv, TypeOK
    <2>3. UNCHANGED <<accepted, executed>>
        BY <1>3 DEF ExcuteBegin, producerVars
    <2>4. Len(executed[q]) < accepted[q]
        <3>t. /\ dataQueue \in [Queues -> Seq(Nat)] /\ accepted \in [Queues -> Nat]
              /\ next \in [Workers -> Nat] /\ batch \in [Workers -> Seq(Nat)]
              /\ executed \in [Queues -> Seq(Nat)]
            BY DEF IInv, TypeOK
        <3>1. Len(executed[q]) = Taken(q) - Len(batch[w]) + next[w]
            BY <2>q DEF IInv, Ordered
        <3>2. next[w] < Len(batch[w])
            BY <1>3 DEF ExcuteBegin
        <3> QED  BY <3>1, <3>2, <3>t DEF Taken
    <2>5. Mapped' = [Mapped EXCEPT ![q] = Len(executed[q]) + 1]
        BY <2>1, <2>2, <2>3 DEF Mapped
    <2>6. Mapped[q] = 0
        BY <2>1 DEF Mapped
    <2>7. Serial!Start(q)
        BY <2>3, <2>4, <2>5, <2>6, <1>m DEF Serial!Start
    <2> QED  BY <2>7
<1>4. ASSUME NEW w \in Workers, ExcuteEnd(w)
      PROVE  Serial!Next
    <2>q. PICK q \in Queues : q = cur[w]
        BY <1>4 DEF ExcuteEnd, IInv, RunLocals, TypeOK
    <2>1. Busy(q) /\ Handling[q] = Len(executed[q]) + 1
        BY <1>4, <2>q, <1>m DEF Busy, ExcuteEnd, Mapped
    <2>2. \A x \in Queues : Busy(x)' <=> Busy(x) /\ x # q
        <3>1. \A v \in Workers : v # w => cur[v] # q
            BY <2>q, JobAssumption DEF IInv, OneHolder
        <3>2. /\ cur' = cur /\ wpc'[w] = "exec"
              /\ \A v \in Workers : v # w => wpc'[v] = wpc[v]
            BY <1>4 DEF ExcuteEnd, IInv, TypeOK
        <3> QED  BY <2>q, <3>1, <3>2 DEF Busy
    <2>t. /\ dataQueue \in [Queues -> Seq(Nat)] /\ accepted \in [Queues -> Nat]
          /\ next \in [Workers -> Nat] /\ batch \in [Workers -> Seq(Nat)]
          /\ executed \in [Queues -> Seq(Nat)]
        BY DEF IInv, TypeOK
    <2>3. batch[w][next[w] + 1] = Len(executed[q]) + 1
        <3>1. next[w] + 1 \in 1..Len(batch[w])
            BY <1>4, <2>t DEF IInv, RunLocals, ExcuteEnd
        <3>2. batch[w][next[w] + 1] = Taken(q) - Len(batch[w]) + (next[w] + 1)
            BY <2>q, <3>1 DEF IInv, Ordered
        <3>3. Len(executed[q]) = Taken(q) - Len(batch[w]) + next[w]
            BY <2>q DEF IInv, Ordered
        <3> QED  BY <3>2, <3>3, <2>t DEF Taken
    <2>4. accepted' = accepted
          /\ executed' = [executed EXCEPT ![q] = Append(executed[q], Handling[q])]
        BY <1>4, <2>q, <2>1, <2>3 DEF ExcuteEnd, producerVars
    <2>5. Mapped' = [Mapped EXCEPT ![q] = 0]
        <3>1. \A x \in Queues : x # q => executed'[x] = executed[x]
            BY <2>4, <2>t
        <3> QED  BY <2>2, <3>1 DEF Mapped
    <2>6. Handling[q] # 0
        BY <2>1, <2>t
    <2>7. Serial!Finish(q)
        BY <2>4, <2>5, <2>6, <1>m DEF Serial!Finish
    <2> QED  BY <2>7
<1>5. ASSUME NEW w \in Workers, RunStep(w) \/ WakeSpurious(w) \/ WakeTimeout(w),
             ~ExcuteBegin(w), ~ExcuteEnd(w)
      PROVE  [Serial!Next]_(Serial!vars)
    <2>1. UNCHANGED <<accepted, executed>>
        BY <1>5 DEF RunStep, RunLoop, PopJobQueue, PopWait, WakeNotified, WakeSpurious,
             WakeTimeout, Pop, Decrement, Repush, RepushNotify, producerVars
    <2>2. /\ wpc[w] # "handling" /\ wpc'[w] # "handling"
          /\ \A v \in Workers : v # w => wpc'[v] = wpc[v] /\ cur'[v] = cur[v]
        <3> USE DEF IInv, TypeOK
        <3>1. CASE RunLoop(w) \/ PopWait(w) \/ WakeNotified(w) \/ WakeSpurious(w)
                     \/ RepushNotify(w)
            BY <3>1 DEF RunLoop, PopWait, WakeNotified, WakeSpurious, RepushNotify
        <3>2. CASE PopJobQueue(w) \/ WakeTimeout(w)
            BY <3>2 DEF PopJobQueue, WakeTimeout, TakeFront
        <3>3. CASE Pop(w)
            BY <3>3 DEF Pop
        <3>4. CASE Decrement(w)
            BY <3>4 DEF Decrement, Repushes
        <3>5. CASE Repush(w)
            BY <3>5 DEF Repush
        <3> QED  BY <3>1, <3>2, <3>3, <3>4, <3>5, <1>5 DEF RunStep
    <2>3. \A q \in Queues : Busy(q)' <=> Busy(q)
        BY <2>2 DEF Busy
    <2> QED  BY <2>1, <2>3, <1>s
<1>6. ASSUME StopRunning \/ StopStep \/ Terminated \/ UNCHANGED vars
      PROVE  [Serial!Next]_(Serial!vars)
    <2>1. UNCHANGED <<accepted, workerVars>>
        BY <1>6 DEF StopRunning, StopStep, StopNotify, Join, Terminated, vars, producerVars
    <2>2. \A q \in Queues : Busy(q)' <=> Busy(q)
        BY <2>1 DEF Busy, workerVars
    <2> QED  BY <2>1, <2>2, <1>s DEF workerVars
<1> QED  BY <1>1, <1>2, <1>3, <1>4, <1>5, <1>6 DEF Next

\* The job system implements SerialExecutor.
THEOREM Refinement == Spec => ImplementsSerial
<1>1. Init => Serial!Init
    BY DEF Init, Serial!Init, Handling
<1>2. IInv /\ IInv' /\ [Next]_vars => [Serial!Next]_(Serial!vars)
    BY NextRefines
<1>3. Spec => []IInv
    BY InitInv, NextInv, PTL DEF Spec
<1> QED  BY <1>1, <1>2, <1>3, PTL DEF Spec, ImplementsSerial, Serial!Spec
=============================================================================
