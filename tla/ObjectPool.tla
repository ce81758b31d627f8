----------------------------- MODULE ObjectPool -----------------------------
(***************************************************************************)
(* One ObjectPool, the pool of one size class of MemoryPool: pages of      *)
(* SLOT_COUNT slots, a current page per thread, and a global stack of      *)
(* batches of slots that were freed by a thread that did not allocate      *)
(* them.                                                                   *)
(*                                                                         *)
(* m_freshSlots of a page is a PointerStack without any synchronization:   *)
(* a call that uses it has a step in which it begins and one in which it   *)
(* ends.  When another thread begins in between, the program has a data    *)
(* race, loads and stores of m_top and of the cells mix, and anything may  *)
(* come of it: raced is set and the model says nothing of what follows.    *)
(* m_recycledSlots is only used by the thread whose current page it        *)
(* belongs to: one step.  m_globalBatchStack and the FreeLists of pages    *)
(* and of stacks are atomic here: LockFreeStack and FreeList have their    *)
(* steps.                                                                  *)
(***************************************************************************)
EXTENDS Naturals, FiniteSets, SequencesExt

CONSTANTS Threads,
          SLOT_COUNT,
          MaxPages,     \* bound: pages m_chunkPool hands out
          MaxAllocs     \* bound: calls of Alloc

ASSUME PoolAssumption ==
    SLOT_COUNT \in Nat \ {0} /\ MaxPages \in Nat \ {0} /\ MaxAllocs \in Nat

VARIABLES
    maker,        \* maker[p]: the thread that ran ChunkAlloc for page p
    tls,          \* tls[t]: current page of t (m_TLSChunkIndex), or 0
    fresh,        \* fresh[p]: m_freshSlots, its top last
    recycled,     \* recycled[p]: *m_recycledSlots
    batches,      \* m_globalBatchStack, its top last
    allocThread,  \* allocThread[s]: m_allocThread of slot s
    held,         \* slots that clients of the pool have
    op,           \* op[t]: the call t is in the middle of
    allocs,       \* calls of Alloc that returned
    dropped,      \* history: slots that a full stack did not take
    raced,        \* history: two threads were inside one m_freshSlots
    moved         \* history: a thread was given a slot of another one's page

clientVars == <<allocThread, held, allocs, moved>>
vars == <<maker, tls, fresh, recycled, batches, clientVars, op, dropped, raced>>

Pages == DOMAIN maker
Slots == (1..MaxPages) \X (1..SLOT_COUNT)

\* m_chunkOwner of a slot
Owner(s) == s[1]

\* The constructor of ChunkPage pushes all slots on m_freshSlots.
ChunkPage(p) == [i \in 1..SLOT_COUNT |-> <<p, i>>]

\* page: the page whose m_freshSlots the thread is using, or 0.
Idle == [at |-> "idle", page |-> 0, slots |-> <<>>]

\* A call of t has come to the given point; after a data race anything goes.
At(t, at) == ~raced /\ op[t].at = at

Step(t, at, p, slots) ==
    op' = [op EXCEPT ![t] = [at |-> at, page |-> p, slots |-> slots]]

\* The constructor of ObjectPool makes a page for the thread that runs it.
Init ==
    \E t \in Threads :
        /\ maker = <<t>>
        /\ tls = [u \in Threads |-> IF u = t THEN 1 ELSE 0]
        /\ fresh = <<ChunkPage(1)>>
        /\ recycled = << <<>> >>
        /\ batches = <<>>
        /\ allocThread = [s \in Slots |-> t]
        /\ held = {} /\ allocs = 0
        /\ op = [u \in Threads |-> Idle]
        /\ dropped = {} /\ raced = FALSE /\ moved = FALSE

\* t begins to use m_freshSlots of p.
Uses(t, p) == raced' = (raced \/ \E u \in Threads \ {t} : op[u].page = p)

\* Alloc of t returns s to its client.
Returns(t, s) ==
    /\ allocs < MaxAllocs
    /\ allocs' = allocs + 1
    /\ allocThread' = [allocThread EXCEPT ![s] = t]
    /\ held' = held \union {s}
    /\ moved' = (moved \/ maker[Owner(s)] # t)

-----------------------------------------------------------------------------
(***************************************************************************)
(* AllocFromChunk                                                          *)
(***************************************************************************)

\* PopFromFreshSlot finds that there are slots.
PopFromFreshSlot(t) ==
    LET p == tls[t]
    IN  /\ At(t, "idle") /\ p # 0
        /\ fresh[p] # <<>>
        /\ Uses(t, p)
        /\ Step(t, "pop", p, <<>>)
        /\ UNCHANGED <<maker, tls, fresh, recycled, batches, clientVars, dropped>>

\* PointerStack::Pop of m_freshSlots.
Pop(t) ==
    LET p == op[t].page
    IN  /\ At(t, "pop")
        /\ fresh' = [fresh EXCEPT ![p] = Front(@)]
        /\ Returns(t, Last(fresh[p]))
        /\ op' = [op EXCEPT ![t] = Idle]
        /\ UNCHANGED <<maker, tls, recycled, batches, dropped, raced>>

\* No fresh slot: PopFromRecyledSlots.
PopFromRecyledSlots(t) ==
    LET p == tls[t]
    IN  /\ At(t, "idle") /\ p # 0
        /\ fresh[p] = <<>> /\ recycled[p] # <<>>
        /\ Uses(t, p)
        /\ recycled' = [recycled EXCEPT ![p] = Front(@)]
        /\ Returns(t, Last(recycled[p]))
        /\ UNCHANGED <<maker, tls, fresh, batches, op, dropped>>

\* Slip: the recycled slots are not looked at.
NoSlotSkips(p) == fresh[p] = <<>>

\* Neither PopFromFreshSlot nor PopFromRecyledSlots finds a slot.
NoSlot(p) == fresh[p] = <<>> /\ recycled[p] = <<>>

\* The page is exhausted: go on to TryStealFromGlobal.
Exhausted(t) ==
    /\ At(t, "idle") /\ tls[t] # 0
    /\ NoSlot(tls[t])
    /\ Uses(t, tls[t])
    /\ Step(t, "steal", tls[t], <<>>)
    /\ UNCHANGED <<maker, tls, fresh, recycled, batches, clientVars, dropped>>

\* TryStealFromGlobal: m_globalBatchStack.Pop
TryStealFromGlobal(t) ==
    /\ At(t, "steal")
    /\ batches # <<>>
    /\ batches' = Front(batches)
    /\ Step(t, "swap", op[t].page, Last(batches))
    /\ UNCHANGED <<maker, tls, fresh, recycled, clientVars, dropped, raced>>

\* TryStealFromGlobal: the batch becomes m_freshSlots, what was there goes to
\* m_recycledStackPool with the old stack, and PopFromFreshSlot looks again.
Swap(t) ==
    LET p == op[t].page
    IN  /\ At(t, "swap")
        /\ fresh' = [fresh EXCEPT ![p] = op[t].slots]
        /\ Step(t, "pop", p, <<>>)
        /\ UNCHANGED <<maker, tls, recycled, batches, clientVars, dropped, raced>>

\* ChunkAlloc: a new current page for t, which leaves n of its slots there and
\* r as the recycled ones; the constructor sets m_allocThread of every slot.
ChunkAlloc(t, n, r) ==
    LET p == Len(maker) + 1
    IN  /\ p <= MaxPages
        /\ maker' = Append(maker, t)
        /\ tls' = [tls EXCEPT ![t] = p]
        /\ fresh' = Append(fresh, SubSeq(ChunkPage(p), 1, n))
        /\ recycled' = Append(recycled, r)
        /\ allocThread' = [s \in Slots |-> IF Owner(s) = p THEN t
                                           ELSE allocThread[s]]

\* The thread has no page yet, or nothing could be stolen: the last slot of a
\* new page.  LockFreeStack::Pop may fail with a batch on the stack too, while
\* other calls have not brought m_count up to date.
AllocFromNewChunk(t) ==
    /\ \/ At(t, "idle") /\ tls[t] = 0
       \/ At(t, "steal")
    /\ allocs < MaxAllocs
    /\ allocs' = allocs + 1
    /\ ChunkAlloc(t, SLOT_COUNT - 1, <<>>)
    /\ held' = held \union {<<Len(maker'), SLOT_COUNT>>}
    /\ op' = [op EXCEPT ![t] = Idle]
    /\ UNCHANGED <<batches, dropped, raced, moved>>

-----------------------------------------------------------------------------
(***************************************************************************)
(* FreeToChunk.  A client may free what another thread has allocated.      *)
(***************************************************************************)

\* Slip: whoever frees a slot takes it for its own.
AnyThread(t, s) == TRUE

\* ChunkPage::Free tests whether the caller allocated the slot.
SameThread(t, s) == allocThread[s] = t

Frees(t, s) ==
    /\ At(t, "idle")
    /\ s \in held
    /\ held' = held \ {s}

\* ChunkPage::Free by the thread that allocated the slot: m_freshSlots of the
\* page the slot belongs to, whichever page is current.
FreeFresh(t, s) ==
    /\ Frees(t, s)
    /\ SameThread(t, s)
    /\ Uses(t, Owner(s))
    /\ Step(t, "push", Owner(s), <<s>>)
    /\ UNCHANGED <<maker, tls, fresh, recycled, batches, allocThread, allocs,
                   dropped, moved>>

\* PointerStack::Push on m_freshSlots: a full stack refuses the slot, and
\* nobody looks at the result.
Push(t) ==
    LET p == op[t].page
    IN  /\ At(t, "push")
        /\ \/ /\ Len(fresh[p]) < SLOT_COUNT
              /\ fresh' = [fresh EXCEPT ![p] = @ \o op[t].slots]
              /\ UNCHANGED dropped
           \/ /\ Len(fresh[p]) = SLOT_COUNT
              /\ dropped' = dropped \union ToSet(op[t].slots)
              /\ UNCHANGED fresh
        /\ op' = [op EXCEPT ![t] = Idle]
        /\ UNCHANGED <<maker, tls, recycled, batches, clientVars, raced>>

\* Slip: the stack that was given to m_globalBatchStack stays in use.
AfterPushKept(r) == r

\* What m_recycledSlots is after a Push that left it as r.
AfterPush(r) == IF Len(r) = SLOT_COUNT THEN <<>> ELSE r

\* RecycledToMyLocalPool: a full stack of recycled slots becomes a batch.
RecycledToMyLocalPool(t, s) ==
    LET r == IF tls[t] = 0 THEN <<s>> ELSE Append(recycled[tls[t]], s)
    IN  /\ Frees(t, s)
        /\ ~SameThread(t, s)
        /\ \/ /\ tls[t] # 0
              /\ recycled' = [recycled EXCEPT ![tls[t]] = AfterPush(r)]
              /\ UNCHANGED <<maker, tls, fresh, allocThread>>
           \/ /\ tls[t] = 0
              /\ ChunkAlloc(t, SLOT_COUNT, AfterPush(r))
        /\ batches' = IF Len(r) = SLOT_COUNT THEN Append(batches, r) ELSE batches
        /\ UNCHANGED <<op, allocs, dropped, raced, moved>>

-----------------------------------------------------------------------------
Next ==
    \E t \in Threads :
        \/ PopFromFreshSlot(t) \/ Pop(t)
        \/ PopFromRecyledSlots(t)
        \/ Exhausted(t) \/ TryStealFromGlobal(t) \/ Swap(t)
        \/ AllocFromNewChunk(t)
        \/ \E s \in Slots : FreeFresh(t, s) \/ RecycledToMyLocalPool(t, s)
        \/ Push(t)

Spec == Init /\ [][Next]_vars

-----------------------------------------------------------------------------
\* Every stack of slots, with what tells it from the others; op[t].slots is
\* what a call has in hand.
Stacks ==
    {<<"fresh", p, fresh[p]>> : p \in Pages}
        \union {<<"recycled", p, recycled[p]>> : p \in Pages}
        \union {<<"batch", i, batches[i]>> : i \in DOMAIN batches}
        \union {<<"call", t, op[t].slots>> : t \in Threads}

Places(s) ==
    {x \in Stacks \X (1..SLOT_COUNT) : x[2] <= Len(x[1][3]) /\ x[1][3][x[2]] = s}

\* As long as no two threads were inside one m_freshSlots at once, every slot
\* of every page is in exactly one place: with one client, once on one stack
\* or batch, in the hands of one call, or refused by a full stack.
SlotsAccounted ==
    ~raced => \A s \in Slots : Owner(s) \in Pages =>
        IF s \in held \union dropped
        THEN Places(s) = {} /\ ~(s \in held /\ s \in dropped)
        ELSE Cardinality(Places(s)) = 1

\* The pages do without locks as long as slots stay at home: two threads meet
\* in one m_freshSlots only after a thread was given a slot of a page that
\* another thread made (recycled or stolen); freeing for others is not enough.
HomeSlotsSafe == raced => moved

\* A page that is no longer current for any thread is never left with recycled
\* slots: nobody would take them any more.
RetiredEmpty ==
    \A p \in Pages : (\A t \in Threads : tls[t] # p) => recycled[p] = <<>>
=============================================================================
