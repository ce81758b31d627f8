-------------------------- MODULE ObjectPoolProofs --------------------------
(***************************************************************************)
(* Proofs about ObjectPool, for any number of threads, pages and slots.    *)
(*                                                                         *)
(* Inv is about who uses which page and what a call relies on between its  *)
(* steps.  Accounted is about where the slots are; it needs Inv: a stack   *)
(* that is swapped away must be empty, and one that is popped must not be. *)
(***************************************************************************)
EXTENDS ObjectPool, SequenceTheorems, FiniteSetTheorems, TLAPS

\* The slots of the pages there are.
Known == (1..Len(maker)) \X (1..SLOT_COUNT)

Calls == [at : {"idle", "pop", "steal", "swap", "push"}, page : 0..Len(maker),
          slots : Seq(Known)]

\* The variables have the types their declarations give them.
TypeOK ==
    /\ maker \in Seq(Threads) /\ Len(maker) <= MaxPages
    /\ tls \in [Threads -> 0..Len(maker)]
    /\ fresh \in Seq(Seq(Known)) /\ Len(fresh) = Len(maker)
    /\ recycled \in Seq(Seq(Known)) /\ Len(recycled) = Len(maker)
    /\ batches \in Seq(Seq(Known))
    /\ allocThread \in [Slots -> Threads]
    /\ held \subseteq Known /\ dropped \subseteq Known
    /\ op \in [Threads -> Calls]
    /\ allocs \in Nat /\ raced \in BOOLEAN /\ moved \in BOOLEAN

\* A current page was made by its thread.  As long as no slot moved to a thread
\* that did not make its page, a thread only uses pages it made.
Homes ==
    /\ \A t \in Threads : tls[t] # 0 => maker[tls[t]] = t
    /\ ~moved => \A t \in Threads : op[t].page # 0 => maker[op[t].page] = t
    /\ ~moved => \A s \in held : allocThread[s] = maker[Owner(s)]

\* Without a race no two threads are inside one m_freshSlots.
Lone ==
    ~raced => \A t, u \in Threads : op[t].page # 0 /\ op[t].page = op[u].page => t = u

\* What a call relies on between its steps.
Relies(t) ==
    LET p == op[t].page
    IN  /\ op[t].at = "idle" => p = 0 /\ op[t].slots = <<>>
        /\ op[t].at # "idle" => p # 0
        /\ op[t].at \in {"pop", "steal", "swap"} => p = tls[t]
        /\ op[t].at \in {"pop", "steal"} => op[t].slots = <<>>
        /\ op[t].at = "pop" => fresh[p] # <<>>
        /\ op[t].at \in {"steal", "swap"} => fresh[p] = <<>> /\ recycled[p] = <<>>
        /\ op[t].at = "swap" => Len(op[t].slots) = SLOT_COUNT
        /\ op[t].at = "push" => Len(op[t].slots) = 1

\* The capacities of the stacks; every batch is full.
Sizes ==
    /\ \A p \in 1..Len(maker) : Len(fresh[p]) <= SLOT_COUNT
    /\ \A p \in 1..Len(maker) : Len(recycled[p]) < SLOT_COUNT
    /\ \A i \in 1..Len(batches) : Len(batches[i]) = SLOT_COUNT

Inv ==
    /\ TypeOK /\ Homes /\ Lone /\ (\A t \in Threads : Relies(t)) /\ Sizes
    /\ HomeSlotsSafe /\ RetiredEmpty

\* The stacks by name: the slots of a stack, of a batch or in the hands of a call.
Names ==
    ({"fresh", "recycled"} \X (1..Len(maker)))
        \union ({"batch"} \X (1..Len(batches))) \union ({"call"} \X Threads)

StackOf(n) ==
    IF n[1] = "fresh" THEN fresh[n[2]]
    ELSE IF n[1] = "recycled" THEN recycled[n[2]]
    ELSE IF n[1] = "batch" THEN batches[n[2]]
    ELSE op[n[2]].slots

Distinct(q) == \A i, j \in 1..Len(q) : q[i] = q[j] => i = j

\* Every slot is in one place.
Accounted ==
    /\ \A n \in Names : Distinct(StackOf(n))
    /\ \A n, m \in Names : n # m => ToSet(StackOf(n)) \intersect ToSet(StackOf(m)) = {}
    /\ \A n \in Names : ToSet(StackOf(n)) \intersect (held \union dropped) = {}
    /\ held \intersect dropped = {}
    /\ \A s \in Known : s \in held \/ s \in dropped \/ \E n \in Names : s \in ToSet(StackOf(n))

-----------------------------------------------------------------------------
USE PoolAssumption

(***************************************************************************)
(* Sequences                                                               *)
(***************************************************************************)

LEMMA LenFacts ==
    ASSUME NEW S, NEW q \in Seq(S)
    PROVE  /\ Len(q) \in Nat /\ DOMAIN q = 1..Len(q) /\ \A i \in 1..Len(q) : q[i] \in S
           /\ q = <<>> <=> Len(q) = 0
OBVIOUS

LEMMA AppendFacts ==
    ASSUME NEW S, NEW q \in Seq(S), NEW x \in S
    PROVE  /\ Append(q, x) \in Seq(S) /\ Len(Append(q, x)) = Len(q) + 1
           /\ \A i \in 1..Len(q) : Append(q, x)[i] = q[i]
           /\ Append(q, x)[Len(q) + 1] = x
OBVIOUS

LEMMA FrontFacts ==
    ASSUME NEW S, NEW q \in Seq(S), q # <<>>
    PROVE  /\ Front(q) \in Seq(S) /\ Len(Front(q)) = Len(q) - 1
           /\ \A i \in 1..(Len(q) - 1) : Front(q)[i] = q[i]
           /\ Last(q) = q[Len(q)] /\ Last(q) \in S /\ Len(q) \in 1..Len(q)
<1>1. Len(q) \in Nat /\ Len(q) # 0 /\ \A i \in 1..Len(q) : q[i] \in S
    OBVIOUS
<1> DEFINE n == Len(q) - 1
<1>2. n \in Nat /\ n + 1 = Len(q) /\ \A i \in 1..n : q[i] \in S
    BY <1>1
<1>3. SubSeq(q, 1, n) \in Seq(S) /\ Len(SubSeq(q, 1, n)) = n
    BY <1>2, SubSeqProperties
<1>4. \A i \in 1..n : SubSeq(q, 1, n)[i] = q[i]
    BY <1>2, SubSeqProperties
<1>5. Last(q) = q[Len(q)] /\ Last(q) \in S /\ Len(q) \in 1..Len(q)
    BY <1>1 DEF Last
<1> QED  BY <1>3, <1>4, <1>5 DEF Front

LEMMA StoreFacts ==
    ASSUME NEW S, NEW q \in Seq(S), NEW k \in 1..Len(q), NEW x \in S
    PROVE  /\ [q EXCEPT ![k] = x] \in Seq(S) /\ Len([q EXCEPT ![k] = x]) = Len(q)
           /\ [q EXCEPT ![k] = x][k] = x
           /\ \A i \in 1..Len(q) : i # k => [q EXCEPT ![k] = x][i] = q[i]
<1>1. DOMAIN q = 1..Len(q)
    OBVIOUS
<1> QED  BY <1>1, ExceptSeq

\* Adding a sequence of one element.
LEMMA ConcatOne ==
    ASSUME NEW S, NEW q \in Seq(S), NEW r \in Seq(S), Len(r) = 1
    PROVE  q \o r = Append(q, r[1])
<1>1. Len(q) \in Nat /\ r[1] \in S
    OBVIOUS
<1>2. Append(q, r[1]) \in Seq(S) /\ Len(Append(q, r[1])) = Len(q) + 1
    BY <1>1, AppendFacts
<1>0. /\ q \o r \in Seq(S) /\ Len(q \o r) = Len(q) + Len(r)
      /\ \A i \in 1..(Len(q) + Len(r)) :
            (q \o r)[i] = IF i <= Len(q) THEN q[i] ELSE r[i - Len(q)]
    BY ConcatProperties, ZenonT(30)
<1>3. q \o r \in Seq(S) /\ Len(q \o r) = Len(q) + 1
    BY <1>0
<1>4. \A i \in 1..(Len(q) + 1) : (q \o r)[i] = IF i <= Len(q) THEN q[i] ELSE r[i - Len(q)]
    BY <1>0
<1>5. \A i \in 1..(Len(q) + 1) : (q \o r)[i] = Append(q, r[1])[i]
    <2> SUFFICES ASSUME NEW i \in 1..(Len(q) + 1)
                 PROVE  (q \o r)[i] = Append(q, r[1])[i]
        OBVIOUS
    <2>1. CASE i <= Len(q)
        BY <1>1, <1>4, <2>1, AppendFacts
    <2>2. CASE ~(i <= Len(q))
        <3>1. i = Len(q) + 1 /\ i - Len(q) = 1
            BY <1>1, <2>2
        <3> QED  BY <1>1, <1>4, <2>2, <3>1, AppendFacts
    <2> QED  BY <2>1, <2>2
<1> QED  BY <1>2, <1>3, <1>5, SeqEqual

LEMMA IntervalGrows ==
    ASSUME NEW n \in Nat PROVE 1..(n + 1) = (1..n) \union {n + 1}
<1>1. 1..(n + 1) \subseteq (1..n) \union {n + 1}
    OBVIOUS
<1>2. (1..n) \union {n + 1} \subseteq 1..(n + 1)
    OBVIOUS
<1> QED  BY <1>1, <1>2

LEMMA SeqMono == ASSUME NEW S, NEW T, S \subseteq T PROVE Seq(S) \subseteq Seq(T)
OBVIOUS

\* The slots of a page.
LEMMA PageFacts ==
    ASSUME NEW p \in Nat, NEW n \in 0..SLOT_COUNT
    PROVE  /\ SubSeq(ChunkPage(p), 1, n) \in Seq({p} \X (1..SLOT_COUNT))
           /\ Len(SubSeq(ChunkPage(p), 1, n)) = n
           /\ \A i \in 1..n : SubSeq(ChunkPage(p), 1, n)[i] = <<p, i>>
<1>1. ChunkPage(p) \in Seq({p} \X (1..SLOT_COUNT)) /\ Len(ChunkPage(p)) = SLOT_COUNT
    BY DEF ChunkPage
<1>2. \A i \in 1..SLOT_COUNT : ChunkPage(p)[i] = <<p, i>>
    BY DEF ChunkPage
<1> HIDE DEF ChunkPage
<1> QED  BY <1>1, <1>2

-----------------------------------------------------------------------------
(***************************************************************************)
(* Inv                                                                     *)
(***************************************************************************)

\* What TypeOK says of the things an action reads.
LEMMA TypeFacts ==
    ASSUME TypeOK
    PROVE  /\ Len(maker) \in Nat /\ Pages = 1..Len(maker)
           /\ DOMAIN fresh = 1..Len(maker) /\ DOMAIN recycled = 1..Len(maker)
           /\ \A p \in 1..Len(maker) :
                 /\ maker[p] \in Threads
                 /\ fresh[p] \in Seq(Known) /\ recycled[p] \in Seq(Known)
                 /\ Len(fresh[p]) \in Nat /\ Len(recycled[p]) \in Nat
           /\ \A t \in Threads :
                 /\ op[t] \in Calls /\ op[t].page \in 0..Len(maker)
                 /\ op[t].slots \in Seq(Known) /\ tls[t] \in 0..Len(maker)
           /\ Known \subseteq Slots
           /\ \A s \in Known : Owner(s) \in 1..Len(maker)
<1>1. Len(maker) \in Nat /\ Pages = 1..Len(maker)
    BY LenFacts DEF TypeOK, Pages
<1>2. DOMAIN fresh = 1..Len(maker) /\ DOMAIN recycled = 1..Len(maker)
    BY LenFacts DEF TypeOK
<1>3. \A p \in 1..Len(maker) : maker[p] \in Threads
    BY LenFacts DEF TypeOK
<1>4. \A p \in 1..Len(maker) : fresh[p] \in Seq(Known) /\ recycled[p] \in Seq(Known)
    BY LenFacts DEF TypeOK
<1>5. \A p \in 1..Len(maker) : Len(fresh[p]) \in Nat /\ Len(recycled[p]) \in Nat
    BY <1>4, LenFacts
<1>6. \A t \in Threads :
        /\ op[t] \in Calls /\ op[t].page \in 0..Len(maker)
        /\ op[t].slots \in Seq(Known) /\ tls[t] \in 0..Len(maker)
    BY DEF TypeOK, Calls
<1>7. Known \subseteq Slots
    <2>1. 1..Len(maker) \subseteq 1..MaxPages
        BY <1>1 DEF TypeOK
    <2> QED  BY <2>1 DEF Known, Slots
<1>8. \A s \in Known : Owner(s) \in 1..Len(maker)
    BY DEF Known, Owner
<1> QED  BY <1>1, <1>2, <1>3, <1>4, <1>5, <1>6, <1>7, <1>8

\* A thread that begins to use the stack of a page it made finds it in use only
\* after a slot moved; without a race nobody else is there.
LEMMA UsesFacts ==
    ASSUME Inv, NEW t \in Threads, NEW p, p # 0, ~raced, Uses(t, p), ~moved => maker[p] = t
    PROVE  /\ raced' \in BOOLEAN /\ (raced' => moved)
           /\ ~raced' => \A u \in Threads : u # t => op[u].page # p
<1>1. raced' = (\E u \in Threads \ {t} : op[u].page = p)
    BY DEF Uses
<1>2. ASSUME ~moved, NEW u \in Threads \ {t}, op[u].page = p PROVE FALSE
    <2>1. maker[p] = u /\ maker[p] = t
        BY <1>2 DEF Inv, Homes
    <2> QED  BY <2>1
<1>3. raced' => moved
    BY <1>1, <1>2
<1> QED  BY <1>1, <1>3

\* What a thread relies on stays when the others leave its page alone.
LEMMA ReliesKept ==
    ASSUME NEW u \in Threads, Relies(u), op'[u] = op[u], tls'[u] = tls[u],
           op[u].page # 0 => fresh'[op[u].page] = fresh[op[u].page],
           op[u].at \in {"steal", "swap"} =>
                recycled'[op[u].page] = recycled[op[u].page]
    PROVE  Relies(u)'
BY DEF Relies

\* A call begins to use m_freshSlots of a page.
LEMMA BeginInv ==
    ASSUME Inv, NEW t \in Threads, ~raced, NEW c \in Calls, op' = [op EXCEPT ![t] = c],
           c.page # 0, Uses(t, c.page), ~moved => maker[c.page] = t, Relies(t)',
           held' \subseteq held,
           UNCHANGED <<maker, tls, fresh, recycled, batches, allocThread, allocs, dropped,
                       moved>>
    PROVE  Inv'
<1>1. /\ raced' \in BOOLEAN /\ (raced' => moved)
      /\ ~raced' => \A u \in Threads : u # t => op[u].page # c.page
    BY UsesFacts
<1>2. TypeOK /\ op \in [Threads -> Calls]
    BY DEF Inv, TypeOK
<1>3. /\ op' \in [Threads -> Calls] /\ op'[t] = c
      /\ \A u \in Threads : u # t => op'[u] = op[u]
    BY <1>2
<1>4. Known' = Known /\ Calls' = Calls
    BY DEF Known, Calls
<1>5. TypeOK'
    BY <1>1, <1>2, <1>3, <1>4 DEF TypeOK
<1>6. Homes'
    BY <1>3 DEF Inv, Homes
<1>7. Lone'
    BY <1>1, <1>3 DEF Inv, Lone
<1>8. \A u \in Threads : Relies(u)'
    BY <1>3, ReliesKept DEF Inv
<1>9. Sizes'
    BY DEF Inv, Sizes
<1>10. HomeSlotsSafe'
    BY <1>1 DEF HomeSlotsSafe
<1>11. RetiredEmpty'
    BY DEF Inv, RetiredEmpty, Pages
<1> QED  BY <1>5, <1>6, <1>7, <1>8, <1>9, <1>10, <1>11 DEF Inv

\* PopFromFreshSlot
LEMMA PopFromFreshSlotInv ==
    ASSUME Inv, NEW t \in Threads, PopFromFreshSlot(t) PROVE Inv'
<1> DEFINE p == tls[t]
           c == [at |-> "pop", page |-> p, slots |-> <<>>]
<1>1. /\ ~raced /\ op[t].at = "idle" /\ p # 0 /\ fresh[p] # <<>> /\ Uses(t, p)
      /\ op' = [op EXCEPT ![t] = c]
      /\ UNCHANGED <<maker, tls, fresh, recycled, batches, held, allocThread, allocs,
                     dropped, moved>>
    BY DEF PopFromFreshSlot, At, Step, clientVars
<1>2. p \in 0..Len(maker) /\ maker[p] = t /\ op \in [Threads -> Calls]
    BY <1>1, TypeFacts DEF Inv, Homes, TypeOK
<1>3. c \in Calls /\ c.page = p
    BY <1>2 DEF Calls
<1>4. Relies(t)'
    BY <1>1, <1>2 DEF Relies
<1> QED  BY <1>1, <1>2, <1>3, <1>4, BeginInv

\* Exhausted
LEMMA ExhaustedInv == ASSUME Inv, NEW t \in Threads, Exhausted(t) PROVE Inv'
<1> DEFINE p == tls[t]
           c == [at |-> "steal", page |-> p, slots |-> <<>>]
<1>1. /\ ~raced /\ op[t].at = "idle" /\ p # 0 /\ fresh[p] = <<>> /\ recycled[p] = <<>>
      /\ Uses(t, p) /\ op' = [op EXCEPT ![t] = c]
      /\ UNCHANGED <<maker, tls, fresh, recycled, batches, held, allocThread, allocs,
                     dropped, moved>>
    BY DEF Exhausted, NoSlot, At, Step, clientVars
<1>2. p \in 0..Len(maker) /\ maker[p] = t /\ op \in [Threads -> Calls]
    BY <1>1, TypeFacts DEF Inv, Homes, TypeOK
<1>3. c \in Calls /\ c.page = p
    BY <1>2 DEF Calls
<1>4. Relies(t)'
    BY <1>1, <1>2 DEF Relies
<1> QED  BY <1>1, <1>2, <1>3, <1>4, BeginInv

\* ChunkPage::Free by the thread that allocated the slot
LEMMA FreeFreshInv ==
    ASSUME Inv, NEW t \in Threads, NEW s \in Slots, FreeFresh(t, s) PROVE Inv'
<1> DEFINE p == Owner(s)
           c == [at |-> "push", page |-> p, slots |-> <<s>>]
<1>1. /\ ~raced /\ op[t].at = "idle" /\ s \in held /\ allocThread[s] = t
      /\ Uses(t, p) /\ op' = [op EXCEPT ![t] = c] /\ held' \subseteq held
      /\ UNCHANGED <<maker, tls, fresh, recycled, batches, allocThread, allocs, dropped,
                     moved>>
    BY DEF FreeFresh, Frees, SameThread, At, Step
<1>2. s \in Known /\ p \in 1..Len(maker) /\ op \in [Threads -> Calls]
    BY <1>1, TypeFacts DEF Inv, TypeOK
<1>3. ~moved => maker[p] = t
    BY <1>1 DEF Inv, Homes
<1>4. c \in Calls /\ c.page = p /\ p # 0 /\ Len(<<s>>) = 1
    BY <1>2 DEF Calls
<1>5. Relies(t)'
    BY <1>1, <1>2, <1>4 DEF Relies
<1> QED  BY <1>1, <1>2, <1>3, <1>4, <1>5, BeginInv

\* A call ends or goes on at its page; the others are elsewhere.  What it changes
\* is the fresh slots of the page it uses.
LEMMA WithinInv ==
    ASSUME Inv, NEW t \in Threads, ~raced, raced' = raced,
           NEW c \in Calls, op' = [op EXCEPT ![t] = c], c.page \in {0, op[t].page},
           NEW q \in Seq(Known), Len(q) <= SLOT_COUNT,
           fresh' = fresh \/ (op[t].page # 0 /\ fresh' = [fresh EXCEPT ![op[t].page] = q]),
           Relies(t)', Homes', TypeOK', Sizes',
           UNCHANGED <<maker, tls, recycled>>
    PROVE  Inv'
<1> DEFINE p == op[t].page
<1>1. /\ op'[t] = c /\ \A u \in Threads : u # t => op'[u] = op[u]
    BY DEF Inv, TypeOK
<1>2. \A u \in Threads : u # t /\ op[u].page # 0 => op[u].page # p
    BY DEF Inv, Lone
<1>3. p # 0 => p \in 1..Len(maker)
    BY TypeFacts DEF Inv
<1>4. \A k \in 1..Len(maker) : k # p => fresh'[k] = fresh[k]
    <2>1. CASE fresh' = fresh
        BY <2>1
    <2>2. CASE p # 0 /\ fresh' = [fresh EXCEPT ![p] = q]
        BY <1>3, <2>2, TypeFacts DEF Inv
    <2> QED  BY <2>1, <2>2
<1>5. \A u \in Threads : Relies(u)'
    <2> SUFFICES ASSUME NEW u \in Threads, u # t PROVE Relies(u)'
        OBVIOUS
    <2>1. op[u].page # 0 => op[u].page \in 1..Len(maker) /\ op[u].page # p
        BY <1>2, TypeFacts DEF Inv
    <2>2. Relies(u) /\ op'[u] = op[u] /\ tls'[u] = tls[u]
        BY <1>1 DEF Inv
    <2>3. op[u].page # 0 => fresh'[op[u].page] = fresh[op[u].page]
        BY <1>4, <2>1
    <2> QED  BY <2>2, <2>3, ReliesKept
<1>6. Lone'
    BY <1>1, <1>2 DEF Inv, Lone
<1>7. HomeSlotsSafe'
    BY DEF HomeSlotsSafe
<1>8. RetiredEmpty'
    BY DEF Inv, RetiredEmpty, Pages
<1> QED  BY <1>5, <1>6, <1>7, <1>8 DEF Inv

\* What Returns does to the slot and its allocating thread.
LEMMA ReturnsFacts ==
    ASSUME Inv, NEW t \in Threads, NEW s \in Known, Returns(t, s)
    PROVE  /\ allocThread' \in [Slots -> Threads] /\ held' = held \union {s}
           /\ allocs' \in Nat /\ moved' \in BOOLEAN /\ (moved => moved')
           /\ ~moved' => \A r \in held' : allocThread'[r] = maker[Owner(r)]
<1>1. /\ allocThread' = [allocThread EXCEPT ![s] = t] /\ held' = held \union {s}
      /\ allocs' = allocs + 1 /\ moved' = (moved \/ maker[Owner(s)] # t)
    BY DEF Returns
<1>2. /\ allocThread \in [Slots -> Threads] /\ allocs \in Nat /\ moved \in BOOLEAN
      /\ s \in Slots /\ held \subseteq Slots
    BY TypeFacts DEF Inv, TypeOK
<1>3. /\ allocThread' \in [Slots -> Threads] /\ allocThread'[s] = t
      /\ \A r \in Slots : r # s => allocThread'[r] = allocThread[r]
    BY <1>1, <1>2
<1>4. ~moved' => \A r \in held' : allocThread'[r] = maker[Owner(r)]
    BY <1>1, <1>2, <1>3 DEF Inv, Homes
<1> QED  BY <1>1, <1>2, <1>3, <1>4

\* The fresh stack of a page is replaced.
LEMMA StoreFresh ==
    ASSUME Inv, NEW p \in 1..Len(maker), NEW q \in Seq(Known), Len(q) <= SLOT_COUNT,
           fresh' = [fresh EXCEPT ![p] = q]
    PROVE  /\ fresh' \in Seq(Seq(Known)) /\ Len(fresh') = Len(maker) /\ fresh'[p] = q
           /\ \A k \in 1..Len(maker) : k # p => fresh'[k] = fresh[k]
           /\ \A k \in 1..Len(maker) : Len(fresh'[k]) <= SLOT_COUNT
<1>1. fresh \in Seq(Seq(Known)) /\ Len(fresh) = Len(maker)
    BY DEF Inv, TypeOK
<1>2. /\ fresh' \in Seq(Seq(Known)) /\ Len(fresh') = Len(maker) /\ fresh'[p] = q
      /\ \A k \in 1..Len(maker) : k # p => fresh'[k] = fresh[k]
    BY <1>1, StoreFacts
<1> QED  BY <1>2 DEF Inv, Sizes

LEMMA IdleFacts == Idle \in Calls /\ Idle.page = 0 /\ Idle.at = "idle" /\ Idle.slots = <<>>
<1>1. <<>> \in Seq(Known)
    OBVIOUS
<1>2. 0 \in 0..Len(maker)
    OBVIOUS
<1> QED  BY <1>1, <1>2 DEF Idle, Calls

\* The call that ends has nothing in hand any more.
LEMMA IdleRelies ==
    ASSUME TypeOK, NEW t \in Threads, op' = [op EXCEPT ![t] = Idle]
    PROVE  Relies(t)' /\ op' \in [Threads -> Calls]
<1>1. op \in [Threads -> Calls]
    BY DEF TypeOK
<1> QED  BY <1>1, IdleFacts DEF Relies

\* A call that ends or goes on with its page keeps to pages its thread made.
LEMMA OpHomes ==
    ASSUME Inv, NEW t \in Threads, NEW c, op' = [op EXCEPT ![t] = c],
           c.page \in {0, op[t].page}, UNCHANGED <<maker, tls>>, moved => moved',
           ~moved' => \A r \in held' : allocThread'[r] = maker[Owner(r)]
    PROVE  Homes'
<1>1. op'[t] = c /\ \A u \in Threads : u # t => op'[u] = op[u]
    BY DEF Inv, TypeOK
<1> QED  BY <1>1 DEF Inv, Homes

\* PointerStack::Pop: the stack still has the slot that was seen before.
LEMMA PopInv == ASSUME Inv, NEW t \in Threads, Pop(t) PROVE Inv'
<1> DEFINE p == op[t].page
           q == Front(fresh[p])
           s == Last(fresh[p])
<1>1. /\ ~raced /\ op[t].at = "pop" /\ raced' = raced
      /\ fresh' = [fresh EXCEPT ![p] = q] /\ Returns(t, s)
      /\ op' = [op EXCEPT ![t] = Idle]
      /\ UNCHANGED <<maker, tls, recycled, batches, dropped>>
    BY DEF Pop, At
<1>2. p # 0 /\ fresh[p] # <<>> /\ p \in 1..Len(maker) /\ fresh[p] \in Seq(Known)
      /\ Len(fresh[p]) <= SLOT_COUNT /\ Len(fresh[p]) \in Nat
    BY <1>1, TypeFacts DEF Inv, Relies, Sizes
<1>3. q \in Seq(Known) /\ Len(q) = Len(fresh[p]) - 1 /\ s \in Known
    BY <1>2, FrontFacts
<1> HIDE DEF q, s
<1>4. Len(q) <= SLOT_COUNT
    BY <1>2, <1>3
<1>5. /\ fresh' \in Seq(Seq(Known)) /\ Len(fresh') = Len(maker)
      /\ \A k \in 1..Len(maker) : Len(fresh'[k]) <= SLOT_COUNT
    BY <1>1, <1>2, <1>3, <1>4, StoreFresh
<1>6. Relies(t)' /\ op' \in [Threads -> Calls]
    BY <1>1, IdleRelies DEF Inv
<1>7. /\ allocThread' \in [Slots -> Threads] /\ held' = held \union {s}
      /\ allocs' \in Nat /\ moved' \in BOOLEAN /\ (moved => moved')
      /\ ~moved' => \A r \in held' : allocThread'[r] = maker[Owner(r)]
    BY <1>1, <1>3, ReturnsFacts
<1>8. Known' = Known /\ Calls' = Calls
    BY <1>1 DEF Known, Calls
<1>9. TypeOK'
    BY <1>1, <1>3, <1>5, <1>6, <1>7, <1>8 DEF Inv, TypeOK
<1>10. Homes'
    BY <1>1, <1>7, IdleFacts, OpHomes
<1>11. Sizes'
    BY <1>1, <1>5 DEF Inv, Sizes
<1> QED  BY <1>1, <1>2, <1>3, <1>4, <1>6, <1>9, <1>10, <1>11, IdleFacts, WithinInv

\* TryStealFromGlobal takes a batch.
LEMMA TryStealFromGlobalInv ==
    ASSUME Inv, NEW t \in Threads, TryStealFromGlobal(t) PROVE Inv'
<1> DEFINE p == op[t].page
           c == [at |-> "swap", page |-> p, slots |-> Last(batches)]
<1>1. /\ ~raced /\ op[t].at = "steal" /\ raced' = raced /\ batches # <<>>
      /\ batches' = Front(batches) /\ op' = [op EXCEPT ![t] = c]
      /\ UNCHANGED <<maker, tls, fresh, recycled, held, allocThread, allocs, moved, dropped>>
    BY DEF TryStealFromGlobal, At, Step, clientVars
<1>2. batches \in Seq(Seq(Known)) /\ op \in [Threads -> Calls] /\ p \in 0..Len(maker)
    BY TypeFacts DEF Inv, TypeOK
<1>3. /\ batches' \in Seq(Seq(Known)) /\ Len(batches') = Len(batches) - 1
      /\ \A i \in 1..(Len(batches) - 1) : batches'[i] = batches[i]
      /\ Last(batches) = batches[Len(batches)] /\ Len(batches) \in 1..Len(batches)
      /\ Last(batches) \in Seq(Known)
    BY <1>1, <1>2, FrontFacts
<1>4. c \in Calls /\ c.page = p /\ c.at = "swap" /\ c.slots = Last(batches)
    BY <1>2, <1>3 DEF Calls
<1>5. Len(Last(batches)) = SLOT_COUNT
    BY <1>3 DEF Inv, Sizes
<1> HIDE DEF c
<1>6. op'[t] = c /\ op' \in [Threads -> Calls]
    BY <1>1, <1>2, <1>4
<1>7. Relies(t)
    BY DEF Inv
<1>8. Relies(t)'
    BY <1>1, <1>4, <1>5, <1>6, <1>7 DEF Relies
<1>9. Known' = Known /\ Calls' = Calls
    BY <1>1 DEF Known, Calls
<1>10. TypeOK'
    BY <1>1, <1>3, <1>6, <1>9 DEF Inv, TypeOK
<1>11. Homes'
    <2>1. ~moved' => \A r \in held' : allocThread'[r] = maker[Owner(r)]
        BY <1>1 DEF Inv, Homes
    <2> QED  BY <1>1, <1>4, <2>1, OpHomes
<1>12. Sizes'
    <2>1. \A i \in 1..Len(batches') : Len(batches'[i]) = SLOT_COUNT
        BY <1>3 DEF Inv, Sizes
    <2> QED  BY <1>1, <2>1 DEF Inv, Sizes
<1>13. <<>> \in Seq(Known) /\ Len(<<>>) <= SLOT_COUNT
    OBVIOUS
<1> QED  BY <1>1, <1>4, <1>8, <1>10, <1>11, <1>12, <1>13, WithinInv

\* TryStealFromGlobal: the batch becomes m_freshSlots.
LEMMA SwapInv == ASSUME Inv, NEW t \in Threads, Swap(t) PROVE Inv'
<1> DEFINE p == op[t].page
           q == op[t].slots
           c == [at |-> "pop", page |-> p, slots |-> <<>>]
<1>1. /\ ~raced /\ op[t].at = "swap" /\ raced' = raced
      /\ fresh' = [fresh EXCEPT ![p] = q] /\ op' = [op EXCEPT ![t] = c]
      /\ UNCHANGED <<maker, tls, recycled, batches, held, allocThread, allocs, moved, dropped>>
    BY DEF Swap, At, Step, clientVars
<1>2. op \in [Threads -> Calls] /\ p \in 0..Len(maker) /\ q \in Seq(Known) /\ Relies(t)
    BY TypeFacts DEF Inv, TypeOK
<1>3. p # 0 /\ Len(q) = SLOT_COUNT /\ p = tls[t] /\ p \in 1..Len(maker)
    BY <1>1, <1>2 DEF Relies
<1>4. c \in Calls /\ c.page = p /\ c.at = "pop" /\ c.slots = <<>>
    BY <1>2 DEF Calls
<1> HIDE DEF c, q
<1>5. /\ fresh' \in Seq(Seq(Known)) /\ Len(fresh') = Len(maker) /\ fresh'[p] = q
      /\ \A k \in 1..Len(maker) : Len(fresh'[k]) <= SLOT_COUNT
    <2>1. q \in Seq(Known) /\ Len(q) <= SLOT_COUNT /\ fresh' = [fresh EXCEPT ![p] = q]
        BY <1>1, <1>2, <1>3
    <2> HIDE DEF p
    <2> QED  BY <1>3, <2>1, StoreFresh
<1>6. op'[t] = c /\ op' \in [Threads -> Calls]
    BY <1>1, <1>2, <1>4
<1>7. q # <<>> /\ Len(q) <= SLOT_COUNT
    BY <1>2, <1>3, LenFacts
<1>8. Relies(t)'
    BY <1>1, <1>3, <1>4, <1>5, <1>6, <1>7 DEF Relies
<1>9. Known' = Known /\ Calls' = Calls
    BY <1>1 DEF Known, Calls
<1>10. TypeOK'
    BY <1>1, <1>5, <1>6, <1>9 DEF Inv, TypeOK
<1>11. Homes'
    <2>1. ~moved' => \A r \in held' : allocThread'[r] = maker[Owner(r)]
        BY <1>1 DEF Inv, Homes
    <2> QED  BY <1>1, <1>4, <2>1, OpHomes
<1>12. Sizes'
    BY <1>1, <1>5 DEF Inv, Sizes
<1> QED  BY <1>1, <1>2, <1>3, <1>4, <1>7, <1>8, <1>10, <1>11, <1>12, WithinInv

\* PointerStack::Push
LEMMA PushInv == ASSUME Inv, NEW t \in Threads, Push(t) PROVE Inv'
<1> DEFINE p == op[t].page
           s == op[t].slots[1]
           q == Append(fresh[p], s)
<1>1. /\ ~raced /\ op[t].at = "push" /\ raced' = raced /\ op' = [op EXCEPT ![t] = Idle]
      /\ UNCHANGED <<maker, tls, recycled, batches, held, allocThread, allocs, moved>>
    BY DEF Push, At, clientVars
<1>2. /\ p \in 0..Len(maker) /\ op[t].slots \in Seq(Known) /\ Relies(t)
    BY TypeFacts DEF Inv
<1>3. p # 0 /\ p \in 1..Len(maker) /\ Len(op[t].slots) = 1
    BY <1>1, <1>2 DEF Relies
<1>4. s \in Known /\ ToSet(op[t].slots) = {s}
    <2>1. DOMAIN op[t].slots = {1}
        BY <1>2, <1>3, LenFacts
    <2> QED  BY <1>2, <1>3, <2>1, LenFacts DEF ToSet
<1>5. fresh[p] \in Seq(Known) /\ Len(fresh[p]) \in Nat
    BY <1>3, TypeFacts DEF Inv
<1>6. fresh[p] \o op[t].slots = q /\ q \in Seq(Known) /\ Len(q) = Len(fresh[p]) + 1
    <2>1. fresh[p] \o op[t].slots = q
        BY <1>2, <1>3, <1>5, ConcatOne
    <2> DEFINE f == fresh[p]
    <2>2. f \in Seq(Known) /\ s \in Known /\ q = Append(f, s)
        BY <1>4, <1>5
    <2> HIDE DEF f, s, q
    <2>3. q \in Seq(Known) /\ Len(q) = Len(f) + 1
        BY <2>2, AppendFacts
    <2> QED  BY <2>1, <2>3 DEF f
<1>7. Relies(t)' /\ op' \in [Threads -> Calls]
    BY <1>1, IdleRelies DEF Inv
<1>8. Known' = Known /\ Calls' = Calls
    BY <1>1 DEF Known, Calls
<1>9. Homes'
    <2>1. ~moved' => \A r \in held' : allocThread'[r] = maker[Owner(r)]
        BY <1>1 DEF Inv, Homes
    <2> QED  BY <1>1, <2>1, IdleFacts, OpHomes
<1>10. CASE Len(fresh[p]) < SLOT_COUNT /\ fresh' = [fresh EXCEPT ![p] = @ \o op[t].slots]
            /\ UNCHANGED dropped
    <2>1. fresh' = [fresh EXCEPT ![p] = q]
        BY <1>6, <1>10
    <2>2. Len(q) <= SLOT_COUNT
        BY <1>5, <1>6, <1>10
    <2> HIDE DEF q
    <2>3. /\ fresh' \in Seq(Seq(Known)) /\ Len(fresh') = Len(maker)
          /\ \A k \in 1..Len(maker) : Len(fresh'[k]) <= SLOT_COUNT
        BY <1>3, <1>6, <2>1, <2>2, StoreFresh
    <2>4. TypeOK'
        BY <1>1, <1>7, <1>8, <1>10, <2>3 DEF Inv, TypeOK
    <2>5. Sizes'
        BY <1>1, <2>3 DEF Inv, Sizes
    <2> QED  BY <1>1, <1>3, <1>6, <1>7, <1>9, <2>1, <2>2, <2>4, <2>5, IdleFacts, WithinInv
<1>11. CASE dropped' = dropped \union ToSet(op[t].slots) /\ UNCHANGED fresh
    <2>1. TypeOK'
        BY <1>1, <1>4, <1>7, <1>8, <1>11 DEF Inv, TypeOK
    <2>2. Sizes'
        BY <1>1, <1>11 DEF Inv, Sizes
    <2>3. <<>> \in Seq(Known) /\ Len(<<>>) <= SLOT_COUNT
        OBVIOUS
    <2> QED  BY <1>1, <1>7, <1>9, <1>11, <2>1, <2>2, <2>3, IdleFacts, WithinInv
<1> QED  BY <1>10, <1>11 DEF Push

\* The thread changes the recycled slots of its current page: nobody else looks
\* at them, and the page is not retired.
LEMMA RecycledInv ==
    ASSUME Inv, NEW t \in Threads, op[t].at = "idle", tls[t] # 0, ~raced,
           NEW q \in Seq(Known), Len(q) < SLOT_COUNT,
           recycled' = [recycled EXCEPT ![tls[t]] = q],
           TypeOK', Homes', HomeSlotsSafe',
           \A i \in 1..Len(batches') : Len(batches'[i]) = SLOT_COUNT,
           UNCHANGED <<maker, tls, fresh, op>>
    PROVE  Inv'
<1> DEFINE p == tls[t]
<1>1. p \in 1..Len(maker) /\ recycled \in Seq(Seq(Known)) /\ Len(recycled) = Len(maker)
    BY TypeFacts DEF Inv, TypeOK
<1>2. recycled'[p] = q /\ \A k \in 1..Len(maker) : k # p => recycled'[k] = recycled[k]
    BY <1>1, StoreFacts
<1>3. \A u \in Threads : Relies(u)'
    <2> SUFFICES ASSUME NEW u \in Threads PROVE Relies(u)'
        OBVIOUS
    <2>1. ASSUME op[u].at \in {"steal", "swap"}
          PROVE  recycled'[op[u].page] = recycled[op[u].page]
        <3>1. op[u].page = tls[u] /\ op[u].page # 0 /\ u # t
            BY <2>1 DEF Inv, Relies
        <3>2. tls[u] # p
            BY <3>1 DEF Inv, Homes
        <3>3. op[u].page \in 1..Len(maker)
            BY <3>1, TypeFacts DEF Inv
        <3> QED  BY <1>2, <3>1, <3>2, <3>3
    <2> QED  BY <2>1, ReliesKept DEF Inv
<1>4. Lone'
    BY DEF Inv, Lone
<1>5. Sizes'
    BY <1>2 DEF Inv, Sizes
<1>6. RetiredEmpty'
    <2>1. Pages = 1..Len(maker) /\ Pages' = Pages
        BY TypeFacts DEF Inv, Pages
    <2> QED  BY <1>2, <2>1 DEF Inv, RetiredEmpty
<1> QED  BY <1>3, <1>4, <1>5, <1>6 DEF Inv

\* Storing the recycled slots keeps the type.
LEMMA StoreRecycled ==
    ASSUME Inv, NEW p \in 1..Len(maker), NEW q \in Seq(Known)
    PROVE  /\ [recycled EXCEPT ![p] = q] \in Seq(Seq(Known))
           /\ Len([recycled EXCEPT ![p] = q]) = Len(maker)
<1>1. recycled \in Seq(Seq(Known)) /\ Len(recycled) = Len(maker)
    BY DEF Inv, TypeOK
<1> QED  BY <1>1, StoreFacts

\* PopFromRecyledSlots
LEMMA PopFromRecyledSlotsInv ==
    ASSUME Inv, NEW t \in Threads, PopFromRecyledSlots(t) PROVE Inv'
<1> DEFINE p == tls[t]
           q == Front(recycled[p])
           s == Last(recycled[p])
<1>1. /\ ~raced /\ op[t].at = "idle" /\ p # 0 /\ recycled[p] # <<>> /\ Uses(t, p)
      /\ recycled' = [recycled EXCEPT ![p] = q] /\ Returns(t, s)
      /\ UNCHANGED <<maker, tls, fresh, batches, op, dropped>>
    BY DEF PopFromRecyledSlots, At
<1>2. /\ p \in 1..Len(maker) /\ maker[p] = t /\ recycled[p] \in Seq(Known)
      /\ Len(recycled[p]) < SLOT_COUNT /\ Len(recycled[p]) \in Nat
    BY <1>1, TypeFacts DEF Inv, Homes, Sizes
<1>3. q \in Seq(Known) /\ Len(q) = Len(recycled[p]) - 1 /\ s \in Known
    BY <1>1, <1>2, FrontFacts
<1> HIDE DEF q, s
<1>4. Len(q) < SLOT_COUNT
    BY <1>2, <1>3
<1>5. /\ allocThread' \in [Slots -> Threads] /\ held' = held \union {s}
      /\ allocs' \in Nat /\ moved' \in BOOLEAN /\ (moved => moved')
      /\ ~moved' => \A r \in held' : allocThread'[r] = maker[Owner(r)]
    BY <1>1, <1>3, ReturnsFacts
<1>6. raced' \in BOOLEAN /\ (raced' => moved)
    BY <1>1, <1>2, UsesFacts
<1>7. Known' = Known /\ Calls' = Calls
    BY <1>1 DEF Known, Calls
<1>8. TypeOK'
    <2>1. recycled' \in Seq(Seq(Known)) /\ Len(recycled') = Len(maker)
        BY <1>1, <1>2, <1>3, StoreRecycled
    <2> QED  BY <1>1, <1>3, <1>5, <1>6, <1>7, <2>1 DEF Inv, TypeOK
<1>9. Homes'
    BY <1>1, <1>5 DEF Inv, Homes
<1>10. HomeSlotsSafe'
    BY <1>5, <1>6 DEF HomeSlotsSafe
<1>11. \A i \in 1..Len(batches') : Len(batches'[i]) = SLOT_COUNT
    BY <1>1 DEF Inv, Sizes
<1> QED  BY <1>1, <1>3, <1>4, <1>8, <1>9, <1>10, <1>11, RecycledInv

\* What ChunkAlloc does to the tables.
LEMMA ChunkAllocFacts ==
    ASSUME Inv, NEW t \in Threads, NEW n \in 0..SLOT_COUNT, NEW r \in Seq(Known'),
           ChunkAlloc(t, n, r)
    PROVE  /\ Len(maker') = Len(maker) + 1 /\ Len(maker') <= MaxPages
           /\ maker' \in Seq(Threads) /\ maker'[Len(maker')] = t
           /\ \A k \in 1..Len(maker) : maker'[k] = maker[k]
           /\ tls' \in [Threads -> 0..Len(maker')] /\ tls'[t] = Len(maker')
           /\ \A u \in Threads : u # t => tls'[u] = tls[u]
           /\ Known' = Known \union ({Len(maker')} \X (1..SLOT_COUNT))
           /\ fresh' \in Seq(Seq(Known')) /\ Len(fresh') = Len(maker')
           /\ fresh'[Len(maker')] = SubSeq(ChunkPage(Len(maker')), 1, n)
           /\ \A k \in 1..Len(maker) : fresh'[k] = fresh[k]
           /\ recycled' \in Seq(Seq(Known')) /\ Len(recycled') = Len(maker')
           /\ recycled'[Len(maker')] = r
           /\ \A k \in 1..Len(maker) : recycled'[k] = recycled[k]
           /\ allocThread' \in [Slots -> Threads]
           /\ \A s \in Slots : Owner(s) = Len(maker') => allocThread'[s] = t
           /\ \A s \in Slots : Owner(s) # Len(maker') => allocThread'[s] = allocThread[s]
<1> DEFINE p == Len(maker) + 1
<1>1. /\ p <= MaxPages /\ maker' = Append(maker, t) /\ tls' = [tls EXCEPT ![t] = p]
      /\ fresh' = Append(fresh, SubSeq(ChunkPage(p), 1, n)) /\ recycled' = Append(recycled, r)
      /\ allocThread' = [s \in Slots |-> IF Owner(s) = p THEN t ELSE allocThread[s]]
    BY DEF ChunkAlloc
<1>2. /\ maker \in Seq(Threads) /\ Len(maker) \in Nat /\ tls \in [Threads -> 0..Len(maker)]
      /\ fresh \in Seq(Seq(Known)) /\ Len(fresh) = Len(maker)
      /\ recycled \in Seq(Seq(Known)) /\ Len(recycled) = Len(maker)
      /\ allocThread \in [Slots -> Threads]
    BY TypeFacts DEF Inv, TypeOK
<1>3. /\ maker' \in Seq(Threads) /\ Len(maker') = p /\ maker'[p] = t
      /\ \A k \in 1..Len(maker) : maker'[k] = maker[k]
    BY <1>1, <1>2, AppendFacts
<1>4. Known' = Known \union ({p} \X (1..SLOT_COUNT))
    <2>1. 1..p = 1..Len(maker) \union {p}
        BY <1>2, IntervalGrows
    <2> QED  BY <1>3, <2>1 DEF Known
<1>5. Seq(Known) \subseteq Seq(Known') /\ Seq({p} \X (1..SLOT_COUNT)) \subseteq Seq(Known')
    BY <1>4, SeqMono
<1>6. Seq(Seq(Known)) \subseteq Seq(Seq(Known'))
    BY <1>5, SeqMono
<1>7. SubSeq(ChunkPage(p), 1, n) \in Seq(Known')
    <2>1. p \in Nat
        BY <1>2
    <2> HIDE DEF p
    <2> QED  BY <1>5, <2>1, PageFacts
<1> DEFINE f == SubSeq(ChunkPage(p), 1, n)
<1> HIDE DEF f
<1>8. /\ fresh' \in Seq(Seq(Known')) /\ Len(fresh') = p /\ fresh'[p] = f
      /\ \A k \in 1..Len(maker) : fresh'[k] = fresh[k]
    <2>1. fresh \in Seq(Seq(Known')) /\ f \in Seq(Known') /\ fresh' = Append(fresh, f)
        BY <1>1, <1>2, <1>6, <1>7 DEF f
    <2> QED  BY <1>2, <2>1, AppendFacts
<1>9. /\ recycled' \in Seq(Seq(Known')) /\ Len(recycled') = p /\ recycled'[p] = r
      /\ \A k \in 1..Len(maker) : recycled'[k] = recycled[k]
    <2>1. recycled \in Seq(Seq(Known')) /\ recycled' = Append(recycled, r)
        BY <1>1, <1>2, <1>6
    <2> QED  BY <1>2, <2>1, AppendFacts
<1>10. /\ tls' \in [Threads -> 0..p] /\ tls'[t] = p
       /\ \A u \in Threads : u # t => tls'[u] = tls[u]
    BY <1>1, <1>2
<1>11. /\ allocThread' \in [Slots -> Threads]
       /\ \A s \in Slots : Owner(s) = p => allocThread'[s] = t
       /\ \A s \in Slots : Owner(s) # p => allocThread'[s] = allocThread[s]
    BY <1>1, <1>2
<1> QED  BY <1>1, <1>3, <1>4, <1>8, <1>9, <1>10, <1>11 DEF f

\* A new current page for t, whose old one has no recycled slots.
LEMMA NewPageInv ==
    ASSUME Inv, NEW t \in Threads, ~raced, NEW n \in 0..SLOT_COUNT,
           NEW r \in Seq(Known'), Len(r) < SLOT_COUNT, ChunkAlloc(t, n, r),
           tls[t] # 0 => recycled[tls[t]] = <<>>,
           op' = [op EXCEPT ![t] = Idle],
           held' \subseteq held \union {<<Len(maker'), SLOT_COUNT>>},
           batches' \in Seq(Seq(Known')),
           \A i \in 1..Len(batches') : Len(batches'[i]) = SLOT_COUNT,
           allocs' \in Nat, UNCHANGED <<dropped, raced, moved>>
    PROVE  Inv'
<1> DEFINE p == Len(maker')
<1>1. /\ p = Len(maker) + 1 /\ p <= MaxPages
      /\ maker' \in Seq(Threads) /\ maker'[p] = t
      /\ \A k \in 1..Len(maker) : maker'[k] = maker[k]
      /\ tls' \in [Threads -> 0..p] /\ tls'[t] = p
      /\ \A u \in Threads : u # t => tls'[u] = tls[u]
      /\ Known' = Known \union ({p} \X (1..SLOT_COUNT))
    BY ChunkAllocFacts
<1>2. /\ fresh' \in Seq(Seq(Known')) /\ Len(fresh') = p
      /\ fresh'[p] = SubSeq(ChunkPage(p), 1, n)
      /\ \A k \in 1..Len(maker) : fresh'[k] = fresh[k]
      /\ recycled' \in Seq(Seq(Known')) /\ Len(recycled') = p /\ recycled'[p] = r
      /\ \A k \in 1..Len(maker) : recycled'[k] = recycled[k]
    BY ChunkAllocFacts
<1>3. /\ allocThread' \in [Slots -> Threads]
      /\ \A s \in Slots : Owner(s) = p => allocThread'[s] = t
      /\ \A s \in Slots : Owner(s) # p => allocThread'[s] = allocThread[s]
    BY ChunkAllocFacts
<1>4. /\ Len(maker) \in Nat /\ p \in Nat /\ op \in [Threads -> Calls]
      /\ held \subseteq Known /\ dropped \subseteq Known /\ raced \in BOOLEAN
      /\ moved \in BOOLEAN
    <2>1. Len(maker) \in Nat
        BY TypeFacts DEF Inv
    <2>2. /\ op \in [Threads -> Calls] /\ held \subseteq Known /\ dropped \subseteq Known
          /\ raced \in BOOLEAN /\ moved \in BOOLEAN
        BY DEF Inv, TypeOK
    <2>3. p \in Nat
        BY <1>1, <2>1
    <2> QED  BY <2>1, <2>2, <2>3
<1> HIDE DEF p
<1>5. Calls \subseteq Calls'
    <2>1. 0..Len(maker) \subseteq 0..p /\ Seq(Known) \subseteq Seq(Known')
        BY <1>1, <1>4, SeqMono
    <2> QED  BY <2>1 DEF Calls, p
<1>6. /\ op'[t] = Idle /\ \A u \in Threads : u # t => op'[u] = op[u]
    BY <1>4
<1>7. op' \in [Threads -> Calls']
    BY <1>4, <1>5, IdleFacts
<1>8. held' \subseteq Known'
    BY <1>1, <1>4 DEF p
<1>9. TypeOK'
    BY <1>1, <1>2, <1>3, <1>4, <1>7, <1>8 DEF TypeOK, p
<1>10. Homes'
    <2>1. \A u \in Threads : tls'[u] # 0 => maker'[tls'[u]] = u
        <3> SUFFICES ASSUME NEW u \in Threads, u # t, tls'[u] # 0
                     PROVE  maker'[tls'[u]] = u
            BY <1>1
        <3>1. tls[u] \in 1..Len(maker) /\ tls'[u] = tls[u]
            BY <1>1, TypeFacts DEF Inv
        <3>2. maker[tls[u]] = u
            BY <3>1 DEF Inv, Homes
        <3>3. \A k \in 1..Len(maker) : maker'[k] = maker[k]
            BY <1>1
        <3> QED  BY <3>1, <3>2, <3>3
    <2>2. ASSUME ~moved', NEW u \in Threads, op'[u].page # 0 PROVE maker'[op'[u].page] = u
        <3>1. u # t
            BY <1>6, <2>2, IdleFacts
        <3>2. op[u].page \in 1..Len(maker) /\ op'[u] = op[u]
            BY <1>6, <2>2, <3>1, TypeFacts DEF Inv
        <3>3. ~moved
            BY <1>4, <2>2
        <3>4. maker[op[u].page] = u
            BY <3>2, <3>3 DEF Inv, Homes
        <3>5. \A k \in 1..Len(maker) : maker'[k] = maker[k]
            BY <1>1
        <3> QED  BY <3>2, <3>4, <3>5
    <2>3. ASSUME ~moved', NEW s \in held' PROVE allocThread'[s] = maker'[Owner(s)]
        <3>1. CASE s = <<p, SLOT_COUNT>>
            <4>1. Owner(s) = p /\ s \in Slots
                BY <1>1, <1>4, <3>1 DEF Owner, Slots
            <4> QED  BY <1>1, <1>3, <4>1
        <3>2. CASE s \in held
            <4>1. s \in Slots /\ Owner(s) \in 1..Len(maker)
                BY <1>4, <3>2, TypeFacts DEF Inv
            <4>2. Owner(s) # p
                BY <1>1, <1>4, <4>1
            <4>3. allocThread[s] = maker[Owner(s)]
                BY <2>3, <3>2 DEF Inv, Homes
            <4> QED  BY <1>1, <1>3, <4>1, <4>2, <4>3
        <3> QED  BY <3>1, <3>2 DEF p
    <2> QED  BY <2>1, <2>2, <2>3 DEF Homes
<1>11. Lone'
    BY <1>6, IdleFacts DEF Inv, Lone
<1>12. \A u \in Threads : Relies(u)'
    <2>1. Relies(t)'
        BY <1>6, IdleFacts DEF Relies
    <2>2. ASSUME NEW u \in Threads, u # t PROVE Relies(u)'
        <3>1. op[u].page # 0 => op[u].page \in 1..Len(maker)
            BY TypeFacts DEF Inv
        <3>2. Relies(u) /\ op'[u] = op[u] /\ tls'[u] = tls[u]
            BY <1>1, <1>6, <2>2 DEF Inv
        <3>3. op[u].at # "idle" => op[u].page # 0
            BY <3>2 DEF Relies
        <3> QED  BY <1>2, <3>1, <3>2, <3>3, ReliesKept
    <2> QED  BY <2>1, <2>2
<1>13. Sizes'
    <2>1. \A k \in 1..p : k \in 1..Len(maker) \/ k = p
        BY <1>1, <1>4
    <2>2. Len(fresh'[p]) <= SLOT_COUNT
        <3>1. Len(fresh'[p]) = n
            BY <1>2, <1>4, PageFacts
        <3> QED  BY <3>1
    <2> QED  BY <1>2, <2>1, <2>2 DEF Inv, Sizes, p
<1>14. HomeSlotsSafe'
    BY DEF HomeSlotsSafe
<1>15. RetiredEmpty'
    <2> SUFFICES ASSUME NEW k \in Pages', \A u \in Threads : tls'[u] # k
                 PROVE  recycled'[k] = <<>>
        BY DEF RetiredEmpty
    <2>1. k \in 1..p /\ k # p /\ Pages = 1..Len(maker)
        BY <1>1, LenFacts, TypeFacts DEF Pages, Inv, p
    <2>2. k \in 1..Len(maker) /\ k # 0
        BY <1>1, <1>4, <2>1
    <2>3. CASE tls[t] = k
        BY <1>2, <2>2, <2>3
    <2>4. CASE tls[t] # k
        <3>1. \A u \in Threads : tls[u] # k
            BY <1>1, <2>4
        <3> QED  BY <1>2, <2>1, <2>2, <3>1 DEF Inv, RetiredEmpty
    <2> QED  BY <2>3, <2>4
<1> QED  BY <1>9, <1>10, <1>11, <1>12, <1>13, <1>14, <1>15 DEF Inv

\* AllocFromNewChunk
LEMMA AllocFromNewChunkInv ==
    ASSUME Inv, NEW t \in Threads, AllocFromNewChunk(t) PROVE Inv'
<1>1. /\ ~raced /\ ChunkAlloc(t, SLOT_COUNT - 1, <<>>) /\ op' = [op EXCEPT ![t] = Idle]
      /\ held' = held \union {<<Len(maker'), SLOT_COUNT>>} /\ allocs' = allocs + 1
      /\ UNCHANGED <<batches, dropped, raced, moved>>
    BY DEF AllocFromNewChunk, At
<1>2. (op[t].at = "idle" /\ tls[t] = 0) \/ op[t].at = "steal"
    BY DEF AllocFromNewChunk, At
<1>3. tls[t] # 0 => recycled[tls[t]] = <<>>
    BY <1>2 DEF Inv, Relies
<1>4. <<>> \in Seq(Known') /\ Len(<<>>) < SLOT_COUNT /\ SLOT_COUNT - 1 \in 0..SLOT_COUNT
    OBVIOUS
<1>5. allocs' \in Nat
    BY <1>1 DEF Inv, TypeOK
<1>6. batches' \in Seq(Seq(Known'))
    <2>1. Known \subseteq Known'
        BY <1>1, <1>4, ChunkAllocFacts
    <2>2. Seq(Seq(Known)) \subseteq Seq(Seq(Known'))
        BY <2>1, SeqMono
    <2> QED  BY <1>1, <2>2 DEF Inv, TypeOK
<1>7. \A i \in 1..Len(batches') : Len(batches'[i]) = SLOT_COUNT
    BY <1>1 DEF Inv, Sizes
<1> QED  BY <1>1, <1>3, <1>4, <1>5, <1>6, <1>7, NewPageInv

\* RecycledToMyLocalPool: the slot goes to the recycled slots of the current page,
\* or a full stack of them to the batches.
LEMMA RecycledToMyLocalPoolInv ==
    ASSUME Inv, NEW t \in Threads, NEW s \in Slots, RecycledToMyLocalPool(t, s) PROVE Inv'
<1> DEFINE r == IF tls[t] = 0 THEN <<s>> ELSE Append(recycled[tls[t]], s)
<1>1. /\ ~raced /\ op[t].at = "idle" /\ s \in held /\ held' = held \ {s}
      /\ batches' = IF Len(r) = SLOT_COUNT THEN Append(batches, r) ELSE batches
      /\ UNCHANGED <<op, allocs, dropped, raced, moved>>
    BY DEF RecycledToMyLocalPool, Frees, At
<1>2. /\ s \in Known /\ batches \in Seq(Seq(Known)) /\ op \in [Threads -> Calls]
      /\ tls[t] \in 0..Len(maker)
    BY <1>1, TypeFacts DEF Inv, TypeOK
<1>3. r \in Seq(Known) /\ Len(r) \in Nat /\ Len(r) <= SLOT_COUNT
    <2>1. CASE tls[t] = 0
        BY <1>2, <2>1
    <2>2. CASE tls[t] # 0
        <3> DEFINE f == recycled[tls[t]]
        <3>1. f \in Seq(Known) /\ Len(f) \in Nat /\ Len(f) < SLOT_COUNT
            BY <1>2, <2>2, TypeFacts DEF Inv, Sizes
        <3>2. r = Append(f, s)
            BY <2>2
        <3> HIDE DEF f, r
        <3> QED  BY <1>2, <3>1, <3>2, AppendFacts
    <2> QED  BY <2>1, <2>2
<1> HIDE DEF r
<1>4. AfterPush(r) \in Seq(Known) /\ Len(AfterPush(r)) < SLOT_COUNT
    <2>1. CASE Len(r) = SLOT_COUNT
        BY <2>1 DEF AfterPush
    <2>2. CASE Len(r) # SLOT_COUNT
        BY <1>3, <2>2 DEF AfterPush
    <2> QED  BY <2>1, <2>2
<1>5. /\ batches' \in Seq(Seq(Known))
      /\ \A i \in 1..Len(batches') : Len(batches'[i]) = SLOT_COUNT
    <2>1. CASE Len(r) = SLOT_COUNT
        <3>1. /\ batches' \in Seq(Seq(Known)) /\ Len(batches') = Len(batches) + 1
              /\ \A i \in 1..Len(batches) : batches'[i] = batches[i]
              /\ batches'[Len(batches) + 1] = r /\ Len(batches) \in Nat
            BY <1>1, <1>2, <1>3, <2>1, AppendFacts
        <3>2. \A i \in 1..Len(batches') : i \in 1..Len(batches) \/ i = Len(batches) + 1
            BY <3>1
        <3> QED  BY <2>1, <3>1, <3>2 DEF Inv, Sizes
    <2>2. CASE Len(r) # SLOT_COUNT
        BY <1>1, <1>2, <2>2 DEF Inv, Sizes
    <2> QED  BY <2>1, <2>2
<1> DEFINE a == AfterPush(r)
<1>6. CASE /\ tls[t] # 0 /\ recycled' = [recycled EXCEPT ![tls[t]] = a]
           /\ UNCHANGED <<maker, tls, fresh, allocThread>>
    <2> HIDE DEF a
    <2>1. a \in Seq(Known) /\ Len(a) < SLOT_COUNT
        BY <1>4 DEF a
    <2>2. tls[t] \in 1..Len(maker)
        BY <1>2, <1>6
    <2>3. Known' = Known /\ Calls' = Calls
        BY <1>6 DEF Known, Calls
    <2>4. TypeOK'
        <3>1. recycled' \in Seq(Seq(Known)) /\ Len(recycled') = Len(maker)
            BY <1>6, <2>1, <2>2, StoreRecycled
        <3>2. held' \subseteq Known
            BY <1>1 DEF Inv, TypeOK
        <3> QED  BY <1>1, <1>5, <1>6, <2>3, <3>1, <3>2 DEF Inv, TypeOK
    <2>5. Homes'
        BY <1>1, <1>6 DEF Inv, Homes
    <2>6. HomeSlotsSafe'
        BY <1>1 DEF HomeSlotsSafe
    <2> QED  BY <1>1, <1>5, <1>6, <2>1, <2>4, <2>5, <2>6, RecycledInv
<1>7. CASE tls[t] = 0 /\ ChunkAlloc(t, SLOT_COUNT, a)
    <2> HIDE DEF a
    <2>1. Len(maker') = Len(maker) + 1
        <3>1. maker' = Append(maker, t) /\ maker \in Seq(Threads)
            BY <1>7 DEF ChunkAlloc, Inv, TypeOK
        <3> QED  BY <3>1, AppendFacts
    <2>2. Known \subseteq Known'
        <3>1. 1..Len(maker) \subseteq 1..Len(maker')
            BY <2>1, TypeFacts DEF Inv
        <3> QED  BY <3>1 DEF Known
    <2>3. a \in Seq(Known') /\ Len(a) < SLOT_COUNT
        BY <1>4, <2>2, SeqMono DEF a
    <2>4. batches' \in Seq(Seq(Known'))
        <3>1. Seq(Seq(Known)) \subseteq Seq(Seq(Known'))
            BY <2>2, SeqMono
        <3> QED  BY <1>5, <3>1
    <2>5. op' = [op EXCEPT ![t] = Idle]
        <3>1. op[t].at = "idle" /\ op[t].page = 0 /\ op[t].slots = <<>> /\ op[t] \in Calls
            BY <1>1, <1>2 DEF Inv, Relies
        <3>2. op[t] = Idle
            BY <3>1 DEF Idle, Calls
        <3> QED  BY <1>1, <1>2, <3>2
    <2>6. allocs' \in Nat /\ SLOT_COUNT \in 0..SLOT_COUNT
        BY <1>1 DEF Inv, TypeOK
    <2> QED  BY <1>1, <1>5, <1>7, <2>3, <2>4, <2>5, <2>6, NewPageInv
<1> QED  BY <1>6, <1>7 DEF RecycledToMyLocalPool, r

\* The initial state.
LEMMA InvInit == Init => Inv
<1> SUFFICES ASSUME NEW t \in Threads,
                    /\ maker = <<t>>
                    /\ tls = [u \in Threads |-> IF u = t THEN 1 ELSE 0]
                    /\ fresh = <<ChunkPage(1)>>
                    /\ recycled = << <<>> >>
                    /\ batches = <<>>
                    /\ allocThread = [s \in Slots |-> t]
                    /\ held = {} /\ allocs = 0
                    /\ op = [u \in Threads |-> Idle]
                    /\ dropped = {} /\ raced = FALSE /\ moved = FALSE
             PROVE  Inv
    BY DEF Init
<1>1. Len(maker) = 1 /\ 1..Len(maker) = {1} /\ maker \in Seq(Threads) /\ Pages = {1}
    BY DEF Pages
<1>2. Known = {1} \X (1..SLOT_COUNT)
    BY <1>1 DEF Known
<1>3. ChunkPage(1) \in Seq(Known) /\ Len(ChunkPage(1)) = SLOT_COUNT
    <2>1. ChunkPage(1) \in Seq({1} \X (1..SLOT_COUNT)) /\ Len(ChunkPage(1)) = SLOT_COUNT
        BY DEF ChunkPage
    <2> QED  BY <1>2, <2>1
<1>4. TypeOK
    <2>1. fresh \in Seq(Seq(Known)) /\ Len(fresh) = 1
        BY <1>3
    <2>2. recycled \in Seq(Seq(Known)) /\ Len(recycled) = 1
        OBVIOUS
    <2>3. batches \in Seq(Seq(Known))
        OBVIOUS
    <2>4. op \in [Threads -> Calls]
        BY IdleFacts
    <2>5. tls \in [Threads -> 0..Len(maker)]
        BY <1>1
    <2>6. allocThread \in [Slots -> Threads] /\ held \subseteq Known /\ dropped \subseteq Known
        OBVIOUS
    <2>7. raced \in BOOLEAN /\ moved \in BOOLEAN
        OBVIOUS
    <2>8. allocs \in Nat /\ Len(maker) <= MaxPages
        BY <1>1
    <2> QED  BY <1>1, <2>1, <2>2, <2>3, <2>4, <2>5, <2>6, <2>7, <2>8 DEF TypeOK
<1>5. Homes /\ Lone
    BY <1>1, IdleFacts DEF Homes, Lone
<1>6. \A u \in Threads : Relies(u)
    BY IdleFacts DEF Relies
<1>7. Sizes
    <2>1. fresh[1] = ChunkPage(1) /\ recycled[1] = <<>> /\ Len(batches) = 0
        OBVIOUS
    <2> QED  BY <1>1, <1>3, <2>1 DEF Sizes
<1>8. HomeSlotsSafe /\ RetiredEmpty
    BY <1>1 DEF HomeSlotsSafe, RetiredEmpty
<1> QED  BY <1>4, <1>5, <1>6, <1>7, <1>8 DEF Inv

\* Inv is inductive.
LEMMA InvStep == Inv /\ [Next]_vars => Inv'
<1> SUFFICES ASSUME Inv, [Next]_vars PROVE Inv'
    OBVIOUS
<1>1. CASE UNCHANGED vars
    <2>1. UNCHANGED <<maker, tls, fresh, recycled, batches, allocThread, held, allocs, moved,
                      op, dropped, raced>>
        BY <1>1 DEF vars, clientVars
    <2>2. Known' = Known /\ Calls' = Calls /\ Pages' = Pages
        BY <2>1 DEF Known, Calls, Pages
    <2>3. TypeOK'
        BY <2>1, <2>2 DEF Inv, TypeOK
    <2>4. Homes' /\ Lone' /\ HomeSlotsSafe'
        BY <2>1 DEF Inv, Homes, Lone, HomeSlotsSafe
    <2>5. \A u \in Threads : Relies(u)'
        BY <2>1, ReliesKept DEF Inv
    <2>6. Sizes' /\ RetiredEmpty'
        BY <2>1, <2>2 DEF Inv, Sizes, RetiredEmpty
    <2> QED  BY <2>3, <2>4, <2>5, <2>6 DEF Inv
<1>2. CASE Next
    BY <1>2, PopFromFreshSlotInv, PopInv, PopFromRecyledSlotsInv, ExhaustedInv,
       TryStealFromGlobalInv, SwapInv, AllocFromNewChunkInv, FreeFreshInv,
       RecycledToMyLocalPoolInv, PushInv DEF Next
<1> QED  BY <1>1, <1>2

\* Two threads meet in one m_freshSlots only after a thread was given a slot of
\* a page that another thread made.
THEOREM HomeIsSafe == Spec => []HomeSlotsSafe
<1>1. Inv => HomeSlotsSafe
    BY DEF Inv
<1> QED  BY <1>1, InvInit, InvStep, PTL DEF Spec

\* A page that is no longer current has no recycled slots.
THEOREM NothingRetired == Spec => []RetiredEmpty
<1>1. Inv => RetiredEmpty
    BY DEF Inv
<1> QED  BY <1>1, InvInit, InvStep, PTL DEF Spec

-----------------------------------------------------------------------------
(***************************************************************************)
(* Accounted                                                               *)
(***************************************************************************)

LEMMA SetFacts ==
    ASSUME NEW S, NEW q \in Seq(S)
    PROVE  /\ ToSet(q) \subseteq S
           /\ \A x : x \in ToSet(q) <=> \E i \in 1..Len(q) : q[i] = x
<1>1. DOMAIN q = 1..Len(q)
    BY LenFacts
<1> QED  BY <1>1, LenFacts DEF ToSet

LEMMA SetEmpty == ToSet(<<>>) = {} /\ Distinct(<<>>)
<1>1. Len(<<>>) = 0 /\ DOMAIN <<>> = {}
    OBVIOUS
<1>2. ToSet(<<>>) = {}
    BY <1>1 DEF ToSet
<1> QED  BY <1>1, <1>2 DEF Distinct

LEMMA SetAppend ==
    ASSUME NEW S, NEW q \in Seq(S), NEW x \in S, Distinct(q), x \notin ToSet(q)
    PROVE  Distinct(Append(q, x)) /\ ToSet(Append(q, x)) = ToSet(q) \union {x}
<1> DEFINE r == Append(q, x)
           n == Len(q)
<1>1. /\ r \in Seq(S) /\ Len(r) = n + 1 /\ n \in Nat /\ r[n + 1] = x
      /\ \A i \in 1..n : r[i] = q[i]
    BY AppendFacts, LenFacts
<1>2. \A y : y \in ToSet(q) <=> \E i \in 1..n : q[i] = y
    BY SetFacts
<1> HIDE DEF r, n
<1>3. \A y : y \in ToSet(r) <=> \E i \in 1..(n + 1) : r[i] = y
    BY <1>1, SetFacts
<1>4. 1..(n + 1) = (1..n) \union {n + 1}
    BY <1>1, IntervalGrows
<1>5. \A i \in 1..n : r[i] # x
    BY <1>1, <1>2
<1>6. Distinct(r)
    BY <1>1, <1>4, <1>5 DEF Distinct, n
<1>7. ToSet(r) = ToSet(q) \union {x}
    BY <1>1, <1>2, <1>3, <1>4
<1> QED  BY <1>6, <1>7 DEF r

LEMMA SetFront ==
    ASSUME NEW S, NEW q \in Seq(S), q # <<>>, Distinct(q)
    PROVE  /\ Distinct(Front(q)) /\ ToSet(Front(q)) = ToSet(q) \ {Last(q)}
           /\ Last(q) \in ToSet(q)
<1> DEFINE r == Front(q)
           n == Len(q) - 1
<1>1. /\ r \in Seq(S) /\ Len(r) = n /\ \A i \in 1..n : r[i] = q[i]
      /\ Last(q) = q[Len(q)] /\ Len(q) \in 1..Len(q)
    BY FrontFacts
<1>2. n \in Nat /\ Len(q) = n + 1
    BY <1>1, LenFacts
<1>3. \A y : y \in ToSet(q) <=> \E i \in 1..(n + 1) : q[i] = y
    BY <1>2, SetFacts
<1>4. \A y : y \in ToSet(r) <=> \E i \in 1..n : r[i] = y
    BY <1>1, SetFacts
<1>5. Last(q) = q[n + 1] /\ \A i, j \in 1..(n + 1) : q[i] = q[j] => i = j
    BY <1>1, <1>2 DEF Distinct
<1>6. n + 1 \in 1..(n + 1) /\ n + 1 \notin 1..n /\ 1..(n + 1) = (1..n) \union {n + 1}
    BY <1>2, IntervalGrows
<1> HIDE DEF r, n
<1>7. Distinct(r)
    BY <1>1, <1>5, <1>6 DEF Distinct
<1>8. ToSet(r) = ToSet(q) \ {Last(q)}
    <2>1. ASSUME NEW y \in ToSet(r) PROVE y \in ToSet(q) /\ y # Last(q)
        <3>1. PICK i \in 1..n : r[i] = y
            BY <1>4
        <3>2. q[i] = y /\ i \in 1..(n + 1) /\ i # n + 1
            BY <1>1, <1>6, <3>1
        <3> QED  BY <1>3, <1>5, <1>6, <3>2
    <2>2. ASSUME NEW y \in ToSet(q), y # Last(q) PROVE y \in ToSet(r)
        <3>1. PICK i \in 1..(n + 1) : q[i] = y
            BY <1>3
        <3>2. i \in 1..n
            BY <1>5, <1>6, <2>2, <3>1
        <3> QED  BY <1>1, <1>4, <3>1, <3>2
    <2> QED  BY <2>1, <2>2
<1>9. Last(q) \in ToSet(q)
    BY <1>3, <1>5, <1>6
<1> QED  BY <1>7, <1>8, <1>9 DEF r

\* The first n slots of a page.
LEMMA SetPage ==
    ASSUME NEW p \in Nat, NEW n \in 0..SLOT_COUNT
    PROVE  /\ Distinct(SubSeq(ChunkPage(p), 1, n))
           /\ ToSet(SubSeq(ChunkPage(p), 1, n)) = {p} \X (1..n)
<1> DEFINE q == SubSeq(ChunkPage(p), 1, n)
<1>1. /\ q \in Seq({p} \X (1..SLOT_COUNT)) /\ Len(q) = n
      /\ \A i \in 1..n : q[i] = <<p, i>>
    BY PageFacts
<1> HIDE DEF q
<1>0. \A y : y \in ToSet(q) <=> \E i \in 1..Len(q) : q[i] = y
    BY <1>1, SetFacts
<1>2. \A y : y \in ToSet(q) <=> \E i \in 1..n : q[i] = y
    BY <1>0, <1>1
<1>3. Distinct(q)
    BY <1>1 DEF Distinct
<1>4. ToSet(q) = {p} \X (1..n)
    <2>1. \A y : y \in {p} \X (1..n) <=> \E i \in 1..n : y = <<p, i>>
        OBVIOUS
    <2>2. \A y : y \in ToSet(q) <=> \E i \in 1..n : y = <<p, i>>
        BY <1>1, <1>2
    <2> QED  BY <2>1, <2>2
<1> QED  BY <1>3, <1>4 DEF q

\* The stacks by name.
LEMMA NameFacts ==
    ASSUME TypeOK
    PROVE  /\ \A p \in 1..Len(maker) :
                 /\ <<"fresh", p>> \in Names /\ StackOf(<<"fresh", p>>) = fresh[p]
                 /\ <<"recycled", p>> \in Names /\ StackOf(<<"recycled", p>>) = recycled[p]
           /\ \A i \in 1..Len(batches) :
                 <<"batch", i>> \in Names /\ StackOf(<<"batch", i>>) = batches[i]
           /\ \A t \in Threads :
                 <<"call", t>> \in Names /\ StackOf(<<"call", t>>) = op[t].slots
           /\ \A n \in Names : \/ \E p \in 1..Len(maker) : n = <<"fresh", p>>
                               \/ \E p \in 1..Len(maker) : n = <<"recycled", p>>
                               \/ \E i \in 1..Len(batches) : n = <<"batch", i>>
                               \/ \E t \in Threads : n = <<"call", t>>
           /\ \A n \in Names : StackOf(n) \in Seq(Known)
<1>1. \A n \in Names : \/ \E p \in 1..Len(maker) : n = <<"fresh", p>>
                       \/ \E p \in 1..Len(maker) : n = <<"recycled", p>>
                       \/ \E i \in 1..Len(batches) : n = <<"batch", i>>
                       \/ \E t \in Threads : n = <<"call", t>>
    BY DEF Names
<1>2. \A p \in 1..Len(maker) :
        /\ <<"fresh", p>> \in Names /\ StackOf(<<"fresh", p>>) = fresh[p]
        /\ <<"recycled", p>> \in Names /\ StackOf(<<"recycled", p>>) = recycled[p]
    BY DEF Names, StackOf
<1>3. \A i \in 1..Len(batches) :
        <<"batch", i>> \in Names /\ StackOf(<<"batch", i>>) = batches[i]
    BY DEF Names, StackOf
<1>4. \A t \in Threads : <<"call", t>> \in Names /\ StackOf(<<"call", t>>) = op[t].slots
    BY DEF Names, StackOf
<1>5. \A i \in 1..Len(batches) : batches[i] \in Seq(Known)
    BY LenFacts DEF TypeOK
<1>7. /\ \A p \in 1..Len(maker) : fresh[p] \in Seq(Known) /\ recycled[p] \in Seq(Known)
      /\ \A t \in Threads : op[t].slots \in Seq(Known)
    BY TypeFacts
<1>6. ASSUME NEW n \in Names PROVE StackOf(n) \in Seq(Known)
    <2>1. CASE \E p \in 1..Len(maker) : n = <<"fresh", p>>
        BY <1>2, <1>7, <2>1
    <2>2. CASE \E p \in 1..Len(maker) : n = <<"recycled", p>>
        BY <1>2, <1>7, <2>2
    <2>3. CASE \E i \in 1..Len(batches) : n = <<"batch", i>>
        BY <1>3, <1>5, <2>3
    <2>4. CASE \E t \in Threads : n = <<"call", t>>
        BY <1>4, <1>7, <2>4
    <2> QED  BY <1>1, <2>1, <2>2, <2>3, <2>4
<1> QED  BY <1>1, <1>2, <1>3, <1>4, <1>6

\* The slots that a step may put elsewhere when it disturbs the stacks of D.
Loose(D, s) ==
    s \in held \/ s \in dropped \/ \E n \in Names \intersect D : s \in ToSet(StackOf(n))

\* A step that leaves all stacks but those of D alone, and puts each loose slot
\* and each new one in one place.
LEMMA AccountedStep ==
    ASSUME TypeOK, Accounted, TypeOK', Known \subseteq Known', NEW D,
           \A n \in Names' : n \in D \/ (n \in Names /\ StackOf(n)' = StackOf(n)),
           \A n \in Names : n \in D \/ n \in Names',
           \A n \in Names' \intersect D : Distinct(StackOf(n)'),
           \A n \in Names' \intersect D : \A s \in ToSet(StackOf(n)') :
                Loose(D, s) \/ s \in Known' \ Known,
           \A s \in held' \union dropped' : Loose(D, s) \/ s \in Known' \ Known,
           \A n, m \in Names' \intersect D :
                n # m => ToSet(StackOf(n)') \intersect ToSet(StackOf(m)') = {},
           \A n \in Names' \intersect D :
                ToSet(StackOf(n)') \intersect (held' \union dropped') = {},
           held' \intersect dropped' = {},
           \A s \in Known' : Loose(D, s) \/ s \notin Known =>
                \/ s \in held' \union dropped'
                \/ \E n \in Names' \intersect D : s \in ToSet(StackOf(n)')
    PROVE  Accounted'
<1>1. \A n \in Names' : Distinct(StackOf(n))'
    <2> SUFFICES ASSUME NEW n \in Names' PROVE Distinct(StackOf(n)')
        BY DEF Distinct
    <2> QED  BY DEF Accounted
<1>2. \A n \in Names : ToSet(StackOf(n)) \subseteq Known
    BY NameFacts, SetFacts
<1>3. ASSUME NEW n \in Names', n \notin D, NEW s \in ToSet(StackOf(n)')
      PROVE  n \in Names /\ s \in ToSet(StackOf(n)) /\ s \in Known /\ ~Loose(D, s)
    <2>1. n \in Names /\ s \in ToSet(StackOf(n))
        BY <1>3
    <2>2. s \notin held /\ s \notin dropped
        BY <2>1 DEF Accounted
    <2>3. \A m \in Names \intersect D : s \notin ToSet(StackOf(m))
        BY <1>3, <2>1 DEF Accounted
    <2> QED  BY <1>2, <2>1, <2>2, <2>3 DEF Loose
<1>4. ASSUME NEW n \in Names', NEW m \in Names', n # m,
             NEW s \in ToSet(StackOf(n)'), s \in ToSet(StackOf(m)')
      PROVE  FALSE
    <2>1. CASE n \in D /\ m \in D
        BY <1>4, <2>1
    <2>2. CASE n \notin D /\ m \in D
        BY <1>3, <1>4, <2>2
    <2>3. CASE n \in D /\ m \notin D
        BY <1>3, <1>4, <2>3
    <2>4. CASE n \notin D /\ m \notin D
        <3>1. n \in Names /\ m \in Names /\ s \in ToSet(StackOf(n)) /\ s \in ToSet(StackOf(m))
            BY <1>3, <1>4, <2>4
        <3> QED  BY <1>4, <3>1 DEF Accounted
    <2> QED  BY <2>1, <2>2, <2>3, <2>4
<1>5. ASSUME NEW n \in Names', NEW s \in ToSet(StackOf(n)') PROVE s \notin held' \union dropped'
    <2>1. CASE n \in D
        BY <2>1
    <2>2. CASE n \notin D
        BY <1>3, <2>2
    <2> QED  BY <2>1, <2>2
<1>6. ASSUME NEW s \in Known'
      PROVE  s \in held' \/ s \in dropped' \/ \E n \in Names' : s \in ToSet(StackOf(n)')
    <2>1. CASE Loose(D, s) \/ s \notin Known
        BY <2>1
    <2>2. CASE s \in Known /\ ~Loose(D, s)
        <3>1. PICK n \in Names : s \in ToSet(StackOf(n))
            BY <2>2 DEF Accounted, Loose
        <3>2. n \notin D
            BY <2>2, <3>1 DEF Loose
        <3> QED  BY <3>1, <3>2
    <2> QED  BY <2>1, <2>2
<1> QED  BY <1>1, <1>4, <1>5, <1>6 DEF Accounted

\* Which stacks a step leaves alone.
LEMMA Undisturbed ==
    ASSUME TypeOK, TypeOK', Len(maker) <= Len(maker'), NEW D,
           \A p \in 1..Len(maker') :
                <<"fresh", p>> \in D \/ (p \in 1..Len(maker) /\ fresh'[p] = fresh[p]),
           \A p \in 1..Len(maker') :
                <<"recycled", p>> \in D \/ (p \in 1..Len(maker) /\ recycled'[p] = recycled[p]),
           \A i \in 1..Len(batches') :
                <<"batch", i>> \in D \/ (i \in 1..Len(batches) /\ batches'[i] = batches[i]),
           \A i \in 1..Len(batches) : <<"batch", i>> \in D \/ i \in 1..Len(batches'),
           \A u \in Threads : <<"call", u>> \in D \/ op'[u].slots = op[u].slots
    PROVE  /\ \A n \in Names' : n \in D \/ (n \in Names /\ StackOf(n)' = StackOf(n))
           /\ \A n \in Names : n \in D \/ n \in Names'
           /\ Known \subseteq Known'
<1>1. 1..Len(maker) \subseteq 1..Len(maker')
    BY TypeFacts DEF TypeOK
<1>2. Known \subseteq Known'
    BY <1>1 DEF Known
<1>3. ASSUME NEW n \in Names' PROVE n \in D \/ (n \in Names /\ StackOf(n)' = StackOf(n))
    <2>1. \/ \E p \in 1..Len(maker') : n = <<"fresh", p>>
          \/ \E p \in 1..Len(maker') : n = <<"recycled", p>>
          \/ \E i \in 1..Len(batches') : n = <<"batch", i>>
          \/ \E t \in Threads : n = <<"call", t>>
        BY DEF Names
    <2>2. ASSUME NEW p \in 1..Len(maker'), n = <<"fresh", p>>
          PROVE  n \in D \/ (n \in Names /\ StackOf(n)' = StackOf(n))
        BY <2>2 DEF Names, StackOf
    <2>3. ASSUME NEW p \in 1..Len(maker'), n = <<"recycled", p>>
          PROVE  n \in D \/ (n \in Names /\ StackOf(n)' = StackOf(n))
        BY <2>3 DEF Names, StackOf
    <2>4. ASSUME NEW i \in 1..Len(batches'), n = <<"batch", i>>
          PROVE  n \in D \/ (n \in Names /\ StackOf(n)' = StackOf(n))
        BY <2>4 DEF Names, StackOf
    <2>5. ASSUME NEW t \in Threads, n = <<"call", t>>
          PROVE  n \in D \/ (n \in Names /\ StackOf(n)' = StackOf(n))
        BY <2>5 DEF Names, StackOf
    <2> QED  BY <2>1, <2>2, <2>3, <2>4, <2>5
<1>4. ASSUME NEW n \in Names PROVE n \in D \/ n \in Names'
    <2>1. \/ \E p \in 1..Len(maker) : n = <<"fresh", p>>
          \/ \E p \in 1..Len(maker) : n = <<"recycled", p>>
          \/ \E i \in 1..Len(batches) : n = <<"batch", i>>
          \/ \E t \in Threads : n = <<"call", t>>
        BY DEF Names
    <2> QED  BY <1>1, <2>1 DEF Names
<1> QED  BY <1>2, <1>3, <1>4

\* No stack changes.
LEMMA SameAccounted ==
    ASSUME TypeOK, Accounted, TypeOK', UNCHANGED <<maker, fresh, recycled, batches>>,
           \A u \in Threads : op'[u].slots = op[u].slots,
           UNCHANGED <<held, dropped>>
    PROVE  Accounted'
<1> DEFINE D == {}
<1>1. Len(maker) \in Nat /\ Len(maker) <= Len(maker') /\ Known' = Known
    BY TypeFacts DEF Known
<1>0. /\ \A p \in 1..Len(maker') : p \in 1..Len(maker) /\ fresh'[p] = fresh[p]
                                                     /\ recycled'[p] = recycled[p]
      /\ \A i \in 1..Len(batches') : i \in 1..Len(batches) /\ batches'[i] = batches[i]
      /\ \A i \in 1..Len(batches) : i \in 1..Len(batches')
    OBVIOUS
<1>3. \A s \in Known' : Loose(D, s) => s \in held' \union dropped'
    BY DEF Loose
<1> HIDE DEF D
<1>2. /\ \A n \in Names' : n \in D \/ (n \in Names /\ StackOf(n)' = StackOf(n))
      /\ \A n \in Names : n \in D \/ n \in Names'
    BY <1>0, <1>1, Undisturbed
<1>4. \A s \in held' \union dropped' : Loose(D, s)
    BY DEF Loose
<1>5. held' \intersect dropped' = {}
    BY DEF Accounted
<1>6. Names' \intersect D = {}
    BY DEF D
<1> QED  BY <1>1, <1>2, <1>3, <1>4, <1>5, <1>6, AccountedStep

\* A client takes the top of a stack.
LEMMA TakeAccounted ==
    ASSUME TypeOK, Accounted, TypeOK', Known' = Known, NEW a \in Names, a \in Names',
           \A n \in Names' : n \in {a} \/ (n \in Names /\ StackOf(n)' = StackOf(n)),
           \A n \in Names : n \in {a} \/ n \in Names',
           StackOf(a) # <<>>, StackOf(a)' = Front(StackOf(a)),
           held' = held \union {Last(StackOf(a))}, dropped' = dropped
    PROVE  Accounted'
<1> DEFINE q == StackOf(a)
           x == Last(StackOf(a))
<1>1. q \in Seq(Known) /\ Distinct(q)
    BY NameFacts DEF Accounted
<1>2. /\ Distinct(StackOf(a)') /\ ToSet(StackOf(a)') = ToSet(q) \ {x} /\ x \in ToSet(q)
    BY <1>1, SetFront
<1>3. ToSet(q) \intersect (held \union dropped) = {} /\ held \intersect dropped = {}
    BY DEF Accounted
<1>4. \A s : Loose({a}, s) <=> s \in held \/ s \in dropped \/ s \in ToSet(q)
    BY DEF Loose
<1> HIDE DEF q, x
<1>5. held' = held \union {x}
    BY DEF x
<1>6. \A s \in ToSet(StackOf(a)') : Loose({a}, s)
    BY <1>2, <1>4
<1>7. \A s \in held' \union dropped' : Loose({a}, s)
    BY <1>2, <1>4, <1>5
<1>8. ToSet(StackOf(a)') \intersect (held' \union dropped') = {}
    BY <1>2, <1>3, <1>5
<1>9. held' \intersect dropped' = {}
    BY <1>2, <1>3, <1>5
<1>10. \A s : Loose({a}, s) => s \in held' \union dropped' \/ s \in ToSet(StackOf(a)')
    BY <1>2, <1>4, <1>5
<1> QED  BY <1>2, <1>6, <1>7, <1>8, <1>9, <1>10, AccountedStep

\* A client puts a slot on a stack.
LEMMA PutAccounted ==
    ASSUME TypeOK, Accounted, TypeOK', Known' = Known, NEW a \in Names, a \in Names',
           \A n \in Names' : n \in {a} \/ (n \in Names /\ StackOf(n)' = StackOf(n)),
           \A n \in Names : n \in {a} \/ n \in Names',
           NEW x \in held, StackOf(a)' = Append(StackOf(a), x),
           held' = held \ {x}, dropped' = dropped
    PROVE  Accounted'
<1> DEFINE q == StackOf(a)
<1>1. q \in Seq(Known) /\ Distinct(q) /\ x \in Known
    BY NameFacts DEF Accounted, TypeOK
<1>2. ToSet(q) \intersect (held \union dropped) = {} /\ held \intersect dropped = {}
    BY DEF Accounted
<1>3. Distinct(StackOf(a)') /\ ToSet(StackOf(a)') = ToSet(q) \union {x}
    BY <1>1, <1>2, SetAppend
<1>4. \A s : Loose({a}, s) <=> s \in held \/ s \in dropped \/ s \in ToSet(q)
    BY DEF Loose
<1> HIDE DEF q
<1>6. \A s \in ToSet(StackOf(a)') : Loose({a}, s)
    BY <1>3, <1>4
<1>7. \A s \in held' \union dropped' : Loose({a}, s)
    BY <1>4
<1>8. ToSet(StackOf(a)') \intersect (held' \union dropped') = {}
    BY <1>2, <1>3
<1>9. held' \intersect dropped' = {}
    BY <1>2
<1>10. \A s : Loose({a}, s) => s \in held' \union dropped' \/ s \in ToSet(StackOf(a)')
    BY <1>3, <1>4
<1> QED  BY <1>3, <1>6, <1>7, <1>8, <1>9, <1>10, AccountedStep

\* The slots of stack a go to stack b.
LEMMA PassAccounted ==
    ASSUME TypeOK, Accounted, TypeOK', Known' = Known, NEW a \in Names, NEW b \in Names,
           a # b, b \in Names',
           \A n \in Names' : n \in {a, b} \/ (n \in Names /\ StackOf(n)' = StackOf(n)),
           \A n \in Names : n \in {a, b} \/ n \in Names',
           Distinct(StackOf(b)'),
           ToSet(StackOf(b)') = ToSet(StackOf(a)) \union ToSet(StackOf(b)),
           a \in Names' => StackOf(a)' = <<>>, UNCHANGED <<held, dropped>>
    PROVE  Accounted'
<1> DEFINE A == ToSet(StackOf(a))
           B == ToSet(StackOf(b))
<1>1. A \intersect (held \union dropped) = {} /\ B \intersect (held \union dropped) = {}
      /\ held \intersect dropped = {}
    BY DEF Accounted
<1>2. \A s : Loose({a, b}, s) <=> s \in held \/ s \in dropped \/ s \in A \/ s \in B
    BY DEF Loose
<1>3. ToSet(StackOf(b)') = A \union B
    OBVIOUS
<1> HIDE DEF A, B
<1>4. a \in Names' => Distinct(StackOf(a)') /\ ToSet(StackOf(a)') = {}
    BY SetEmpty
<1>5. \A n \in Names' \intersect {a, b} : n = b \/ (n = a /\ a \in Names')
    OBVIOUS
<1>6. \A n \in Names' \intersect {a, b} : Distinct(StackOf(n)')
    BY <1>4, <1>5
<1>7. \A n \in Names' \intersect {a, b} : \A s \in ToSet(StackOf(n)') : Loose({a, b}, s)
    BY <1>2, <1>3, <1>4, <1>5
<1>8. \A s \in held' \union dropped' : Loose({a, b}, s)
    BY <1>2
<1>9. \A n, m \in Names' \intersect {a, b} :
        n # m => ToSet(StackOf(n)') \intersect ToSet(StackOf(m)') = {}
    BY <1>4, <1>5
<1>10. \A n \in Names' \intersect {a, b} :
        ToSet(StackOf(n)') \intersect (held' \union dropped') = {}
    BY <1>1, <1>3, <1>4, <1>5
<1>11. held' \intersect dropped' = {}
    BY <1>1
<1>12. \A s : Loose({a, b}, s) => s \in held' \union dropped' \/ s \in ToSet(StackOf(b)')
    BY <1>2, <1>3
<1> QED  BY <1>6, <1>7, <1>8, <1>9, <1>10, <1>11, <1>12, AccountedStep

\* Beginning a call that has nothing in hand.
LEMMA BeginAccounted ==
    ASSUME Inv, Inv', Accounted, NEW t \in Threads, PopFromFreshSlot(t) \/ Exhausted(t)
    PROVE  Accounted'
<1>1. /\ op[t].at = "idle"
      /\ UNCHANGED <<maker, fresh, recycled, batches, held, dropped>>
    BY DEF PopFromFreshSlot, Exhausted, At, clientVars
<1>2. PICK at, p : op' = [op EXCEPT ![t] = [at |-> at, page |-> p, slots |-> <<>>]]
    BY DEF PopFromFreshSlot, Exhausted, Step
<1>3. \A u \in Threads : op'[u].slots = op[u].slots
    BY <1>1, <1>2 DEF Inv, Relies, TypeOK
<1> QED  BY <1>1, <1>3, SameAccounted DEF Inv

\* The stacks after a step, by name.
LEMMA NextNames ==
    /\ \A p \in 1..Len(maker') :
          /\ <<"fresh", p>> \in Names' /\ StackOf(<<"fresh", p>>)' = fresh'[p]
          /\ <<"recycled", p>> \in Names' /\ StackOf(<<"recycled", p>>)' = recycled'[p]
    /\ \A i \in 1..Len(batches') :
          <<"batch", i>> \in Names' /\ StackOf(<<"batch", i>>)' = batches'[i]
    /\ \A u \in Threads :
          <<"call", u>> \in Names' /\ StackOf(<<"call", u>>)' = op'[u].slots
BY DEF Names, StackOf

\* PointerStack::Pop
LEMMA PopAccounted ==
    ASSUME Inv, Inv', Accounted, NEW t \in Threads, Pop(t) PROVE Accounted'
<1>0. PICK p : p = op[t].page
    OBVIOUS
<1> DEFINE a == <<"fresh", p>>
<1>1. /\ op[t].at = "pop" /\ fresh' = [fresh EXCEPT ![p] = Front(fresh[p])]
      /\ held' = held \union {Last(fresh[p])} /\ op' = [op EXCEPT ![t] = Idle]
      /\ UNCHANGED <<maker, recycled, batches, dropped>>
    BY <1>0 DEF Pop, At, Returns
<1>2. TypeOK /\ TypeOK' /\ Relies(t) /\ op \in [Threads -> Calls]
    BY DEF Inv, TypeOK
<1>3. p \in 1..Len(maker) /\ fresh[p] # <<>> /\ op[t].slots = <<>>
    BY <1>0, <1>1, <1>2, TypeFacts DEF Relies
<1>4. fresh'[p] = Front(fresh[p]) /\ \A k \in 1..Len(maker) : k # p => fresh'[k] = fresh[k]
    BY <1>1, <1>2, <1>3, TypeFacts
<1>5. \A u \in Threads : op'[u].slots = op[u].slots
    BY <1>1, <1>2, <1>3, IdleFacts
<1>6. Len(maker) <= Len(maker') /\ Known' = Known
    BY <1>1, <1>2, TypeFacts DEF Known
<1>7. /\ \A n \in Names' : n \in {a} \/ (n \in Names /\ StackOf(n)' = StackOf(n))
      /\ \A n \in Names : n \in {a} \/ n \in Names'
    BY <1>1, <1>2, <1>4, <1>5, <1>6, Undisturbed
<1>8. a \in Names /\ StackOf(a) = fresh[p]
    BY <1>2, <1>3, NameFacts
<1>9. a \in Names' /\ StackOf(a)' = fresh'[p]
    BY <1>1, <1>3, NextNames
<1> HIDE DEF a
<1> QED  BY <1>1, <1>2, <1>3, <1>4, <1>6, <1>7, <1>8, <1>9, TakeAccounted

\* PopFromRecyledSlots
LEMMA PopFromRecyledSlotsAccounted ==
    ASSUME Inv, Inv', Accounted, NEW t \in Threads, PopFromRecyledSlots(t) PROVE Accounted'
<1>0. PICK p : p = tls[t]
    OBVIOUS
<1> DEFINE a == <<"recycled", p>>
<1>1. /\ p # 0 /\ recycled[p] # <<>>
      /\ recycled' = [recycled EXCEPT ![p] = Front(recycled[p])]
      /\ held' = held \union {Last(recycled[p])}
      /\ UNCHANGED <<maker, fresh, batches, dropped, op>>
    BY <1>0 DEF PopFromRecyledSlots, Returns
<1>2. TypeOK /\ TypeOK'
    BY DEF Inv
<1>3. p \in 1..Len(maker)
    BY <1>0, <1>1, <1>2, TypeFacts
<1>4. /\ recycled'[p] = Front(recycled[p])
      /\ \A k \in 1..Len(maker) : k # p => recycled'[k] = recycled[k]
    BY <1>1, <1>2, <1>3, TypeFacts
<1>5. \A u \in Threads : op'[u].slots = op[u].slots
    BY <1>1
<1>6. Len(maker) <= Len(maker') /\ Known' = Known
    BY <1>1, <1>2, TypeFacts DEF Known
<1>7. /\ \A n \in Names' : n \in {a} \/ (n \in Names /\ StackOf(n)' = StackOf(n))
      /\ \A n \in Names : n \in {a} \/ n \in Names'
    BY <1>1, <1>2, <1>4, <1>5, <1>6, Undisturbed
<1>8. a \in Names /\ StackOf(a) = recycled[p]
    BY <1>2, <1>3, NameFacts
<1>9. a \in Names' /\ StackOf(a)' = recycled'[p]
    BY <1>1, <1>3, NextNames
<1> HIDE DEF a
<1> QED  BY <1>1, <1>2, <1>4, <1>6, <1>7, <1>8, <1>9, TakeAccounted

\* TryStealFromGlobal: the last batch is in the hands of the call.
LEMMA TryStealFromGlobalAccounted ==
    ASSUME Inv, Inv', Accounted, NEW t \in Threads, TryStealFromGlobal(t) PROVE Accounted'
<1>0. PICK k : k = Len(batches)
    OBVIOUS
<1> DEFINE a == <<"batch", k>>
           b == <<"call", t>>
           c == [at |-> "swap", page |-> op[t].page, slots |-> Last(batches)]
<1>1. /\ op[t].at = "steal" /\ batches # <<>> /\ batches' = Front(batches)
      /\ op' = [op EXCEPT ![t] = c]
      /\ UNCHANGED <<maker, fresh, recycled, held, dropped>>
    BY DEF TryStealFromGlobal, At, Step, clientVars
<1>2. TypeOK /\ TypeOK' /\ Relies(t) /\ op \in [Threads -> Calls]
      /\ batches \in Seq(Seq(Known))
    BY DEF Inv, TypeOK
<1>3. op[t].slots = <<>>
    BY <1>1, <1>2 DEF Relies
<1>4. /\ Len(batches') = k - 1 /\ k \in 1..k /\ Last(batches) = batches[k] /\ k \in Nat
      /\ \A i \in 1..(k - 1) : batches'[i] = batches[i]
    BY <1>0, <1>1, <1>2, FrontFacts, LenFacts
<1>5. op'[t].slots = batches[k] /\ \A u \in Threads : u # t => op'[u].slots = op[u].slots
    BY <1>1, <1>2, <1>4
<1>6. Len(maker) <= Len(maker') /\ Known' = Known
    BY <1>1, <1>2, TypeFacts DEF Known
<1>7. \A i \in 1..k : i = k \/ i \in 1..(k - 1)
    BY <1>4
<1>8. \A i \in 1..(k - 1) : i \in 1..k
    BY <1>4
<1>9. /\ \A n \in Names' : n \in {a, b} \/ (n \in Names /\ StackOf(n)' = StackOf(n))
      /\ \A n \in Names : n \in {a, b} \/ n \in Names'
    BY <1>0, <1>1, <1>2, <1>4, <1>5, <1>6, <1>7, <1>8, Undisturbed
<1>10. a \in Names /\ StackOf(a) = batches[k] /\ b \in Names /\ StackOf(b) = <<>>
    BY <1>0, <1>2, <1>3, <1>4, NameFacts
<1>11. b \in Names' /\ StackOf(b)' = batches[k]
    BY <1>5, NextNames
<1>12. a \notin Names' /\ a # b
    <2>1. k \notin 1..Len(batches')
        BY <1>4
    <2> QED  BY <2>1 DEF Names
<1> HIDE DEF a, b, c
<1>13. Distinct(StackOf(b)') /\ ToSet(StackOf(b)') = ToSet(StackOf(a)) \union ToSet(StackOf(b))
    BY <1>10, <1>11, SetEmpty DEF Accounted
<1> QED  BY <1>1, <1>2, <1>6, <1>9, <1>10, <1>11, <1>12, <1>13, PassAccounted

\* TryStealFromGlobal: the stack that is replaced is empty.
LEMMA SwapAccounted ==
    ASSUME Inv, Inv', Accounted, NEW t \in Threads, Swap(t) PROVE Accounted'
<1>0. PICK p, q : p = op[t].page /\ q = op[t].slots
    OBVIOUS
<1> DEFINE a == <<"call", t>>
           b == <<"fresh", p>>
<1>1. /\ op[t].at = "swap" /\ fresh' = [fresh EXCEPT ![p] = q]
      /\ op' = [op EXCEPT ![t] = [at |-> "pop", page |-> p, slots |-> <<>>]]
      /\ UNCHANGED <<maker, recycled, batches, held, dropped>>
    BY <1>0 DEF Swap, At, Step, clientVars
<1>2. TypeOK /\ TypeOK' /\ Relies(t) /\ op \in [Threads -> Calls]
    BY DEF Inv, TypeOK
<1>3. p \in 1..Len(maker) /\ fresh[p] = <<>>
    BY <1>0, <1>1, <1>2, TypeFacts DEF Relies
<1>4. fresh'[p] = q /\ \A k \in 1..Len(maker) : k # p => fresh'[k] = fresh[k]
    BY <1>1, <1>2, <1>3, TypeFacts
<1>5. op'[t].slots = <<>> /\ \A u \in Threads : u # t => op'[u].slots = op[u].slots
    BY <1>1, <1>2
<1>6. Len(maker) <= Len(maker') /\ Known' = Known
    BY <1>1, <1>2, TypeFacts DEF Known
<1>7. /\ \A n \in Names' : n \in {a, b} \/ (n \in Names /\ StackOf(n)' = StackOf(n))
      /\ \A n \in Names : n \in {a, b} \/ n \in Names'
    BY <1>1, <1>2, <1>4, <1>5, <1>6, Undisturbed
<1>8. a \in Names /\ StackOf(a) = q /\ b \in Names /\ StackOf(b) = <<>>
    BY <1>0, <1>2, <1>3, NameFacts
<1>9. b \in Names' /\ StackOf(b)' = q /\ StackOf(a)' = <<>> /\ a # b
    BY <1>1, <1>3, <1>4, <1>5, NextNames
<1> HIDE DEF a, b
<1>10. Distinct(StackOf(b)') /\ ToSet(StackOf(b)') = ToSet(StackOf(a)) \union ToSet(StackOf(b))
    BY <1>8, <1>9, SetEmpty DEF Accounted
<1> QED  BY <1>1, <1>2, <1>6, <1>7, <1>8, <1>9, <1>10, PassAccounted

\* ChunkPage::Free by the thread that allocated the slot: the call has it in hand.
LEMMA FreeFreshAccounted ==
    ASSUME Inv, Inv', Accounted, NEW t \in Threads, NEW s \in Slots, FreeFresh(t, s)
    PROVE  Accounted'
<1> DEFINE a == <<"call", t>>
<1>1. /\ op[t].at = "idle" /\ s \in held /\ held' = held \ {s}
      /\ op' = [op EXCEPT ![t] = [at |-> "push", page |-> Owner(s), slots |-> <<s>>]]
      /\ UNCHANGED <<maker, fresh, recycled, batches, dropped>>
    BY DEF FreeFresh, Frees, At, Step
<1>2. TypeOK /\ TypeOK' /\ Relies(t) /\ op \in [Threads -> Calls]
    BY DEF Inv, TypeOK
<1>3. op[t].slots = <<>>
    BY <1>1, <1>2 DEF Relies
<1>4. op'[t].slots = <<s>> /\ \A u \in Threads : u # t => op'[u].slots = op[u].slots
    BY <1>1, <1>2
<1>5. Len(maker) <= Len(maker') /\ Known' = Known
    BY <1>1, <1>2, TypeFacts DEF Known
<1>6. /\ \A n \in Names' : n \in {a} \/ (n \in Names /\ StackOf(n)' = StackOf(n))
      /\ \A n \in Names : n \in {a} \/ n \in Names'
    BY <1>1, <1>2, <1>4, <1>5, Undisturbed
<1>7. a \in Names /\ StackOf(a) = <<>>
    BY <1>2, <1>3, NameFacts
<1>8. a \in Names' /\ StackOf(a)' = Append(<<>>, s)
    <2>1. <<s>> = Append(<<>>, s)
        OBVIOUS
    <2> QED  BY <1>4, <2>1, NextNames
<1> HIDE DEF a
<1> QED  BY <1>1, <1>2, <1>5, <1>6, <1>7, <1>8, PutAccounted

\* A stack of one slot.
LEMMA SetOne ==
    ASSUME NEW S, NEW q \in Seq(S), Len(q) = 1
    PROVE  ToSet(q) = {q[1]} /\ q[1] \in S /\ Distinct(q)
<1>1. 1..Len(q) = {1}
    OBVIOUS
<1>2. \A x : x \in ToSet(q) <=> x = q[1]
    BY <1>1, SetFacts
<1>3. q[1] \in S
    BY <1>1, LenFacts
<1> QED  BY <1>1, <1>2, <1>3 DEF Distinct

\* A full stack refuses the slots of stack a.
LEMMA DropAccounted ==
    ASSUME TypeOK, Accounted, TypeOK', Known' = Known, NEW a \in Names, a \in Names',
           \A n \in Names' : n \in {a} \/ (n \in Names /\ StackOf(n)' = StackOf(n)),
           \A n \in Names : n \in {a} \/ n \in Names',
           StackOf(a)' = <<>>, held' = held, dropped' = dropped \union ToSet(StackOf(a))
    PROVE  Accounted'
<1> DEFINE A == ToSet(StackOf(a))
<1>1. A \intersect (held \union dropped) = {} /\ held \intersect dropped = {}
    BY DEF Accounted
<1>2. \A s : Loose({a}, s) <=> s \in held \/ s \in dropped \/ s \in A
    BY DEF Loose
<1>3. Distinct(StackOf(a)') /\ ToSet(StackOf(a)') = {}
    BY SetEmpty
<1>4. dropped' = dropped \union A
    OBVIOUS
<1> HIDE DEF A
<1>5. \A s \in held' \union dropped' : Loose({a}, s)
    BY <1>2, <1>4
<1>6. held' \intersect dropped' = {}
    BY <1>1, <1>4
<1>7. \A s : Loose({a}, s) => s \in held' \union dropped'
    BY <1>2, <1>4
<1> QED  BY <1>3, <1>5, <1>6, <1>7, AccountedStep

\* PointerStack::Push
LEMMA PushAccounted ==
    ASSUME Inv, Inv', Accounted, NEW t \in Threads, Push(t) PROVE Accounted'
<1>0. PICK p, q : p = op[t].page /\ q = op[t].slots
    OBVIOUS
<1> DEFINE a == <<"call", t>>
           b == <<"fresh", p>>
<1>1. /\ op[t].at = "push" /\ op' = [op EXCEPT ![t] = Idle]
      /\ UNCHANGED <<maker, recycled, batches, held>>
    BY DEF Push, At, clientVars
<1>2. TypeOK /\ TypeOK' /\ Relies(t) /\ op \in [Threads -> Calls]
    BY DEF Inv, TypeOK
<1>3. p \in 1..Len(maker) /\ q \in Seq(Known) /\ Len(q) = 1 /\ fresh[p] \in Seq(Known)
    BY <1>0, <1>1, <1>2, TypeFacts DEF Relies
<1>4. op'[t].slots = <<>> /\ \A u \in Threads : u # t => op'[u].slots = op[u].slots
    BY <1>1, <1>2, IdleFacts
<1>5. Len(maker) <= Len(maker') /\ Known' = Known
    BY <1>1, <1>2, TypeFacts DEF Known
<1>6. a \in Names /\ StackOf(a) = q /\ b \in Names /\ StackOf(b) = fresh[p]
    BY <1>0, <1>2, <1>3, NameFacts
<1>7. ToSet(q) = {q[1]} /\ q[1] \in Known
    BY <1>3, SetOne
<1>8. a \in Names' /\ StackOf(a)' = <<>> /\ b \in Names' /\ StackOf(b)' = fresh'[p] /\ a # b
    BY <1>1, <1>3, <1>4, NextNames
<1>9. CASE fresh' = [fresh EXCEPT ![p] = @ \o q] /\ UNCHANGED dropped
    <2>1. /\ fresh'[p] = fresh[p] \o q
          /\ \A k \in 1..Len(maker) : k # p => fresh'[k] = fresh[k]
        BY <1>2, <1>3, <1>9, TypeFacts
    <2>2. /\ \A n \in Names' : n \in {a, b} \/ (n \in Names /\ StackOf(n)' = StackOf(n))
          /\ \A n \in Names : n \in {a, b} \/ n \in Names'
        BY <1>1, <1>2, <1>4, <1>5, <2>1, Undisturbed
    <2> HIDE DEF a, b
    <2>3. Distinct(fresh[p]) /\ q[1] \notin ToSet(fresh[p])
        BY <1>6, <1>7, <1>8 DEF Accounted
    <2>4. StackOf(b)' = Append(fresh[p], q[1])
        BY <1>3, <1>8, <2>1, ConcatOne
    <2>5. /\ Distinct(StackOf(b)')
          /\ ToSet(StackOf(b)') = ToSet(StackOf(a)) \union ToSet(StackOf(b))
        BY <1>3, <1>6, <1>7, <2>3, <2>4, SetAppend
    <2> QED  BY <1>1, <1>2, <1>5, <1>6, <1>8, <1>9, <2>2, <2>5, PassAccounted
<1>10. CASE fresh' = fresh /\ dropped' = dropped \union ToSet(q)
    <2>1. /\ \A n \in Names' : n \in {a} \/ (n \in Names /\ StackOf(n)' = StackOf(n))
          /\ \A n \in Names : n \in {a} \/ n \in Names'
        BY <1>1, <1>2, <1>4, <1>5, <1>10, Undisturbed
    <2> HIDE DEF a
    <2> QED  BY <1>1, <1>2, <1>5, <1>6, <1>8, <1>10, <2>1, DropAccounted
<1>11. \/ fresh' = [fresh EXCEPT ![p] = @ \o q] /\ UNCHANGED dropped
       \/ fresh' = fresh /\ dropped' = dropped \union ToSet(q)
    BY <1>0 DEF Push
<1> QED  BY <1>9, <1>10, <1>11

\* New stacks: f takes the new slots G, r and perhaps c take slots of clients.
LEMMA NewAccounted ==
    ASSUME TypeOK, Accounted, TypeOK', Known \subseteq Known',
           NEW f \in Names', NEW r \in Names', NEW c, f # r, f # c, r # c,
           f \notin Names, r \notin Names, c \notin Names,
           \A n \in Names' : n \in {f, r, c} \/ (n \in Names /\ StackOf(n)' = StackOf(n)),
           \A n \in Names : n \in {f, r, c} \/ n \in Names',
           ToSet(StackOf(f)') \subseteq Known' \ Known, NEW C,
           ToSet(StackOf(r)') \intersect C = {}, ToSet(StackOf(r)') \union C \subseteq held,
           Distinct(StackOf(f)'), Distinct(StackOf(r)'),
           c \in Names' => Distinct(StackOf(c)') /\ ToSet(StackOf(c)') = C,
           c \notin Names' => C = {},
           held' = (held \ (ToSet(StackOf(r)') \union C))
                     \union ((Known' \ Known) \ ToSet(StackOf(f)')),
           dropped' = dropped
    PROVE  Accounted'
<1> DEFINE D == {f, r, c}
           G == ToSet(StackOf(f)')
           R == ToSet(StackOf(r)')
<1>1. held \intersect dropped = {} /\ held \subseteq Known /\ dropped \subseteq Known
    BY DEF Accounted, TypeOK
<1>2. \A s : Loose(D, s) <=> s \in held \/ s \in dropped
    BY DEF Loose
<1>3. \A n \in Names' \intersect D : n = f \/ n = r \/ (n = c /\ c \in Names')
    OBVIOUS
<1>4. f \in Names' \intersect D /\ r \in Names' \intersect D
      /\ (c \in Names' => c \in Names' \intersect D)
    OBVIOUS
<1>0. /\ \A n \in Names' : n \in D \/ (n \in Names /\ StackOf(n)' = StackOf(n))
      /\ \A n \in Names : n \in D \/ n \in Names'
    OBVIOUS
<1>00. /\ ToSet(StackOf(f)') = G /\ ToSet(StackOf(r)') = R
       /\ G \subseteq Known' \ Known /\ R \intersect C = {} /\ R \union C \subseteq held
       /\ held' = (held \ (R \union C)) \union ((Known' \ Known) \ G)
    OBVIOUS
<1> HIDE DEF D, G, R
<1>5. \A n \in Names' \intersect D : Distinct(StackOf(n)')
    BY <1>00, <1>3
<1>6. \A n \in Names' \intersect D : \A s \in ToSet(StackOf(n)') :
        Loose(D, s) \/ s \in Known' \ Known
    BY <1>00, <1>2, <1>3
<1>7. \A s \in held' \union dropped' : Loose(D, s) \/ s \in Known' \ Known
    BY <1>00, <1>2
<1>8. G \intersect (R \union C) = {}
    BY <1>00, <1>1
<1>9. \A n, m \in Names' \intersect D :
        n # m => ToSet(StackOf(n)') \intersect ToSet(StackOf(m)') = {}
    BY <1>00, <1>3, <1>8
<1>10. (G \union R \union C) \intersect (held' \union dropped') = {}
    BY <1>00, <1>1
<1>11. \A n \in Names' \intersect D : ToSet(StackOf(n)') \intersect (held' \union dropped') = {}
    BY <1>00, <1>3, <1>10
<1>12. held' \intersect dropped' = {}
    BY <1>00, <1>1
<1>13. ASSUME NEW s \in Known', Loose(D, s) \/ s \notin Known
       PROVE  \/ s \in held' \union dropped'
              \/ \E n \in Names' \intersect D : s \in ToSet(StackOf(n)')
    <2>1. s \in held' \union dropped' \/ s \in G \/ s \in R \/ s \in C
        BY <1>00, <1>2, <1>13
    <2>2. s \in C => c \in Names'
        OBVIOUS
    <2> QED  BY <1>00, <1>4, <2>1, <2>2
<1> QED  BY <1>0, <1>5, <1>6, <1>7, <1>9, <1>11, <1>12, <1>13, AccountedStep

\* ChunkAlloc: the slots r of clients go to the new page, those of C to a batch.
LEMMA ChunkAccounted ==
    ASSUME Inv, Inv', Accounted, NEW t \in Threads, NEW n \in 0..SLOT_COUNT,
           NEW r \in Seq(Known'), ChunkAlloc(t, n, r), Distinct(r), NEW C,
           \/ batches' = batches /\ C = {}
           \/ \E b \in Seq(Known) :
                 batches' = Append(batches, b) /\ Distinct(b) /\ ToSet(b) = C,
           ToSet(r) \intersect C = {}, ToSet(r) \union C \subseteq held,
           held' = (held \ (ToSet(r) \union C))
                     \union (({Len(maker')} \X (1..SLOT_COUNT)) \ ({Len(maker')} \X (1..n))),
           dropped' = dropped, \A u \in Threads : op'[u].slots = op[u].slots
    PROVE  Accounted'
<1>0. PICK p, k : p = Len(maker) + 1 /\ k = Len(batches) + 1
    OBVIOUS
<1> DEFINE f == <<"fresh", p>>
           e == <<"recycled", p>>
           c == <<"batch", k>>
           G == {p} \X (1..n)
           N == {p} \X (1..SLOT_COUNT)
<1>1. TypeOK /\ TypeOK' /\ Len(maker) \in Nat /\ batches \in Seq(Seq(Known))
      /\ Len(batches) \in Nat
    BY TypeFacts, LenFacts DEF Inv, TypeOK
<1>2. /\ Len(maker') = p /\ Known' = Known \union N
      /\ fresh'[p] = SubSeq(ChunkPage(p), 1, n) /\ recycled'[p] = r
      /\ \A i \in 1..Len(maker) : fresh'[i] = fresh[i] /\ recycled'[i] = recycled[i]
    BY <1>0, ChunkAllocFacts
<1>3. Known \intersect N = {} /\ G \subseteq N
    <2>1. p \notin 1..Len(maker)
        BY <1>0, <1>1
    <2> QED  BY <2>1 DEF Known
<1>4. Distinct(fresh'[p]) /\ ToSet(fresh'[p]) = G
    <2>1. p \in Nat
        BY <1>0, <1>1
    <2> QED  BY <1>2, <2>1, SetPage
<1>5. \A i \in 1..p : i = p \/ i \in 1..Len(maker)
    BY <1>0, <1>1
<1>6. \/ batches' = batches /\ C = {}
      \/ /\ Len(batches') = k /\ \A i \in 1..Len(batches) : batches'[i] = batches[i]
         /\ Distinct(batches'[k]) /\ ToSet(batches'[k]) = C
    <2>1. ASSUME NEW b \in Seq(Known), batches' = Append(batches, b), Distinct(b), ToSet(b) = C
          PROVE  /\ Len(batches') = k /\ \A i \in 1..Len(batches) : batches'[i] = batches[i]
                 /\ Distinct(batches'[k]) /\ ToSet(batches'[k]) = C
        BY <1>0, <1>1, <2>1, AppendFacts
    <2> QED  BY <2>1
<1>7. \A i \in 1..Len(batches') : i = k \/ (i \in 1..Len(batches) /\ batches'[i] = batches[i])
    <2>1. \A i \in 1..k : i = k \/ i \in 1..Len(batches)
        BY <1>0, <1>1
    <2> QED  BY <1>6, <2>1
<1>8. \A i \in 1..Len(batches) : i \in 1..Len(batches')
    BY <1>0, <1>1, <1>6
<1>9. Len(maker) <= Len(maker')
    BY <1>0, <1>1, <1>2
<1>10. /\ \A m \in Names' : m \in {f, e, c} \/ (m \in Names /\ StackOf(m)' = StackOf(m))
       /\ \A m \in Names : m \in {f, e, c} \/ m \in Names'
    <2> DEFINE D == {f, e, c}
    <2>1. \A i \in 1..Len(maker') : /\ <<"fresh", i>> \in D
                                        \/ (i \in 1..Len(maker) /\ fresh'[i] = fresh[i])
                                    /\ <<"recycled", i>> \in D
                                        \/ (i \in 1..Len(maker) /\ recycled'[i] = recycled[i])
        BY <1>2, <1>5
    <2>2. /\ \A i \in 1..Len(batches') :
                <<"batch", i>> \in D \/ (i \in 1..Len(batches) /\ batches'[i] = batches[i])
          /\ \A i \in 1..Len(batches) : <<"batch", i>> \in D \/ i \in 1..Len(batches')
        BY <1>7, <1>8
    <2> HIDE DEF D
    <2>3. /\ \A m \in Names' : m \in D \/ (m \in Names /\ StackOf(m)' = StackOf(m))
          /\ \A m \in Names : m \in D \/ m \in Names'
        BY <1>1, <1>9, <2>1, <2>2, Undisturbed
    <2> QED  BY <2>3 DEF D
<1>11. p \in 1..Len(maker')
    BY <1>0, <1>1, <1>2
<1>12. /\ f \in Names' /\ StackOf(f)' = fresh'[p] /\ e \in Names' /\ StackOf(e)' = r
    BY <1>2, <1>11, NextNames
<1>13. c \in Names' <=> k \in 1..Len(batches')
    BY DEF Names
<1>14. k \in 1..Len(batches') => StackOf(c)' = batches'[k] /\ Distinct(StackOf(c)')
                                 /\ ToSet(StackOf(c)') = C
    <2>1. k \in 1..Len(batches') => batches' # batches
        BY <1>0, <1>1
    <2>2. k \in 1..Len(batches') => Distinct(batches'[k]) /\ ToSet(batches'[k]) = C
        BY <1>6, <2>1
    <2> QED  BY <2>2, NextNames
<1>15. k \notin 1..Len(batches') => C = {}
    <2>1. Len(batches') = k => k \in 1..Len(batches')
        BY <1>0, <1>1
    <2> QED  BY <1>6, <2>1
<1>16. f \notin Names /\ e \notin Names /\ c \notin Names
    <2>1. p \notin 1..Len(maker) /\ k \notin 1..Len(batches)
        BY <1>0, <1>1
    <2> QED  BY <2>1 DEF Names
<1>17. f # e /\ f # c /\ e # c
    OBVIOUS
<1>18. Known' \ Known = N /\ Known \subseteq Known' /\ G \subseteq Known' \ Known
    BY <1>2, <1>3
<1> HIDE DEF f, e, c, G, N
<1>19. held' = (held \ (ToSet(r) \union C)) \union ((Known' \ Known) \ G)
    BY <1>2, <1>18 DEF G, N
<1>21. Distinct(StackOf(f)') /\ ToSet(StackOf(f)') = G
    BY <1>4, <1>12
<1>20. /\ Distinct(StackOf(e)') /\ ToSet(StackOf(e)') \intersect C = {}
       /\ ToSet(StackOf(e)') \union C \subseteq held
       /\ ToSet(StackOf(f)') \subseteq Known' \ Known
       /\ held' = (held \ (ToSet(StackOf(e)') \union C))
                     \union ((Known' \ Known) \ ToSet(StackOf(f)'))
    BY <1>12, <1>18, <1>19, <1>21
<1>22. /\ c \in Names' => Distinct(StackOf(c)') /\ ToSet(StackOf(c)') = C
       /\ c \notin Names' => C = {}
    BY <1>13, <1>14, <1>15
<1> QED  BY <1>1, <1>10, <1>12, <1>16, <1>17, <1>18, <1>20, <1>21, <1>22, NewAccounted

\* AllocFromNewChunk: the client has the last slot of the new page.
LEMMA AllocFromNewChunkAccounted ==
    ASSUME Inv, Inv', Accounted, NEW t \in Threads, AllocFromNewChunk(t) PROVE Accounted'
<1> DEFINE n == SLOT_COUNT - 1
           r == <<>>
           C == {}
<1>1. /\ ChunkAlloc(t, n, r) /\ op' = [op EXCEPT ![t] = Idle]
      /\ held' = held \union {<<Len(maker'), SLOT_COUNT>>}
      /\ UNCHANGED <<batches, dropped>>
    BY DEF AllocFromNewChunk
<1>2. op[t].at \in {"idle", "steal"}
    BY DEF AllocFromNewChunk, At
<1>3. op[t].slots = <<>>
    BY <1>2 DEF Inv, Relies
<1>4. \A u \in Threads : op'[u].slots = op[u].slots
    BY <1>1, <1>3, IdleFacts DEF Inv, TypeOK
<1>5. r \in Seq(Known') /\ Distinct(r) /\ ToSet(r) = {} /\ n \in 0..SLOT_COUNT
    BY SetEmpty
<1>6. 1..SLOT_COUNT = (1..n) \union {SLOT_COUNT} /\ SLOT_COUNT \notin 1..n
    <2>1. n \in Nat /\ n + 1 = SLOT_COUNT
        OBVIOUS
    <2> HIDE DEF n
    <2>2. 1..(n + 1) = (1..n) \union {n + 1} /\ n + 1 \notin 1..n
        BY <2>1, IntervalGrows
    <2> QED  BY <2>1, <2>2
<1> HIDE DEF n
<1>7. ({Len(maker')} \X (1..SLOT_COUNT)) \ ({Len(maker')} \X (1..n))
        = {<<Len(maker'), SLOT_COUNT>>}
    BY <1>6
<1> HIDE DEF r
<1>8. held' = (held \ (ToSet(r) \union C))
                \union (({Len(maker')} \X (1..SLOT_COUNT)) \ ({Len(maker')} \X (1..n)))
    BY <1>1, <1>5, <1>7
<1>9. ToSet(r) \intersect C = {} /\ ToSet(r) \union C \subseteq held
    BY <1>5
<1> QED  BY <1>1, <1>4, <1>5, <1>8, <1>9, ChunkAccounted

\* RecycledToMyLocalPool: stack a is full with x and becomes batch c.
LEMMA BatchAccounted ==
    ASSUME TypeOK, Accounted, TypeOK', Known' = Known, NEW a \in Names, a \in Names',
           NEW c \in Names', c \notin Names,
           \A n \in Names' : n \in {a, c} \/ (n \in Names /\ StackOf(n)' = StackOf(n)),
           \A n \in Names : n \in {a, c} \/ n \in Names',
           NEW x \in held, StackOf(a)' = <<>>, StackOf(c)' = Append(StackOf(a), x),
           held' = held \ {x}, dropped' = dropped
    PROVE  Accounted'
<1> DEFINE q == StackOf(a)
           D == {a, c}
<1>1. q \in Seq(Known) /\ Distinct(q) /\ x \in Known
    BY NameFacts DEF Accounted, TypeOK
<1>2. ToSet(q) \intersect (held \union dropped) = {} /\ held \intersect dropped = {}
    BY DEF Accounted
<1>3. Distinct(StackOf(c)') /\ ToSet(StackOf(c)') = ToSet(q) \union {x}
    BY <1>1, <1>2, SetAppend
<1>4. \A s : Loose(D, s) <=> s \in held \/ s \in dropped \/ s \in ToSet(q)
    BY DEF Loose
<1>5. Distinct(StackOf(a)') /\ ToSet(StackOf(a)') = {}
    BY SetEmpty
<1>6. \A n \in Names' \intersect D : n = a \/ n = c
    OBVIOUS
<1>7. /\ \A n \in Names' : n \in D \/ (n \in Names /\ StackOf(n)' = StackOf(n))
      /\ \A n \in Names : n \in D \/ n \in Names'
      /\ c \in Names' \intersect D
    OBVIOUS
<1> HIDE DEF q, D
<1>8. \A n \in Names' \intersect D : Distinct(StackOf(n)')
    BY <1>3, <1>5, <1>6
<1>9. \A n \in Names' \intersect D : \A s \in ToSet(StackOf(n)') : Loose(D, s)
    BY <1>3, <1>4, <1>5, <1>6
<1>10. \A s \in held' \union dropped' : Loose(D, s)
    BY <1>4
<1>11. \A n, m \in Names' \intersect D :
        n # m => ToSet(StackOf(n)') \intersect ToSet(StackOf(m)') = {}
    BY <1>5, <1>6
<1>12. \A n \in Names' \intersect D : ToSet(StackOf(n)') \intersect (held' \union dropped') = {}
    <2>1. ToSet(StackOf(c)') \intersect (held' \union dropped') = {}
        BY <1>2, <1>3
    <2>2. ToSet(StackOf(a)') \intersect (held' \union dropped') = {}
        BY <1>5
    <2> QED  BY <1>6, <2>1, <2>2
<1>13. held' \intersect dropped' = {}
    BY <1>2
<1>14. \A s : Loose(D, s) => s \in held' \union dropped' \/ s \in ToSet(StackOf(c)')
    BY <1>3, <1>4
<1> QED  BY <1>7, <1>8, <1>9, <1>10, <1>11, <1>12, <1>13, <1>14, AccountedStep

\* RecycledToMyLocalPool with a current page.
LEMMA RecycledHereAccounted ==
    ASSUME Inv, Inv', Accounted, NEW t \in Threads, NEW s \in held, tls[t] # 0,
           NEW r, r = Append(recycled[tls[t]], s), held' = held \ {s},
           recycled' = [recycled EXCEPT ![tls[t]] = AfterPush(r)],
           batches' = IF Len(r) = SLOT_COUNT THEN Append(batches, r) ELSE batches,
           UNCHANGED <<maker, fresh, op, dropped>>
    PROVE  Accounted'
<1>0. PICK p, k : p = tls[t] /\ k = Len(batches) + 1
    OBVIOUS
<1> DEFINE a == <<"recycled", p>>
           c == <<"batch", k>>
<1>1. TypeOK /\ TypeOK' /\ batches \in Seq(Seq(Known)) /\ Len(batches) \in Nat
    BY LenFacts DEF Inv, TypeOK
<1>2. p \in 1..Len(maker) /\ recycled[p] \in Seq(Known) /\ s \in Known
    BY <1>0, <1>1, TypeFacts DEF TypeOK
<1>3. r = Append(recycled[p], s) /\ r \in Seq(Known)
    BY <1>0, <1>2, AppendFacts
<1>4. /\ recycled'[p] = AfterPush(r)
      /\ \A i \in 1..Len(maker) : i # p => recycled'[i] = recycled[i]
    BY <1>0, <1>1, <1>2, TypeFacts
<1>5. Len(maker) <= Len(maker') /\ Known' = Known
    BY <1>1, TypeFacts DEF Known
<1>6. a \in Names /\ StackOf(a) = recycled[p] /\ a \in Names' /\ StackOf(a)' = recycled'[p]
    BY <1>1, <1>2, NameFacts, NextNames
<1>7. CASE Len(r) # SLOT_COUNT
    <2>1. batches' = batches /\ recycled'[p] = r
        BY <1>4, <1>7 DEF AfterPush
    <2>2. /\ \A n \in Names' : n \in {a} \/ (n \in Names /\ StackOf(n)' = StackOf(n))
          /\ \A n \in Names : n \in {a} \/ n \in Names'
        BY <1>1, <1>4, <1>5, <2>1, Undisturbed
    <2>3. StackOf(a)' = Append(StackOf(a), s)
        BY <1>3, <1>6, <2>1
    <2> HIDE DEF a
    <2> QED  BY <1>1, <1>5, <1>6, <2>2, <2>3, PutAccounted
<1>8. CASE Len(r) = SLOT_COUNT
    <2>1. recycled'[p] = <<>> /\ batches' = Append(batches, r)
        BY <1>4, <1>8 DEF AfterPush
    <2>2. /\ Len(batches') = k /\ batches'[k] = r
          /\ \A i \in 1..Len(batches) : batches'[i] = batches[i]
        BY <1>0, <1>1, <1>3, <2>1, AppendFacts
    <2>3. /\ \A i \in 1..k : i = k \/ i \in 1..Len(batches)
          /\ \A i \in 1..Len(batches) : i \in 1..k
          /\ k \in 1..k /\ k \notin 1..Len(batches)
        BY <1>0, <1>1
    <2>4. /\ \A n \in Names' : n \in {a, c} \/ (n \in Names /\ StackOf(n)' = StackOf(n))
          /\ \A n \in Names : n \in {a, c} \/ n \in Names'
        <3> DEFINE D == {a, c}
        <3>1. \A i \in 1..Len(maker') : /\ i \in 1..Len(maker) /\ fresh'[i] = fresh[i]
                                        /\ <<"recycled", i>> \in D \/ recycled'[i] = recycled[i]
            BY <1>4
        <3>2. /\ \A i \in 1..Len(batches') :
                    <<"batch", i>> \in D \/ (i \in 1..Len(batches) /\ batches'[i] = batches[i])
              /\ \A i \in 1..Len(batches) : <<"batch", i>> \in D \/ i \in 1..Len(batches')
            BY <2>2, <2>3
        <3> HIDE DEF D
        <3>3. /\ \A n \in Names' : n \in D \/ (n \in Names /\ StackOf(n)' = StackOf(n))
              /\ \A n \in Names : n \in D \/ n \in Names'
            BY <1>1, <1>5, <3>1, <3>2, Undisturbed
        <3> QED  BY <3>3 DEF D
    <2>5. c \in Names' /\ StackOf(c)' = r
        BY <2>2, <2>3, NextNames
    <2>6. c \notin Names
        BY <2>3 DEF Names
    <2>7. StackOf(a)' = <<>> /\ StackOf(c)' = Append(StackOf(a), s)
        BY <1>3, <1>6, <2>1, <2>5
    <2> HIDE DEF a, c
    <2> QED  BY <1>1, <1>5, <1>6, <2>4, <2>5, <2>6, <2>7, BatchAccounted
<1> QED  BY <1>7, <1>8

\* RecycledToMyLocalPool
LEMMA RecycledToMyLocalPoolAccounted ==
    ASSUME Inv, Inv', Accounted, NEW t \in Threads, NEW s \in Slots,
           RecycledToMyLocalPool(t, s)
    PROVE  Accounted'
<1>0. PICK r : r = IF tls[t] = 0 THEN <<s>> ELSE Append(recycled[tls[t]], s)
    OBVIOUS
<1>1. /\ s \in held /\ held' = held \ {s} /\ UNCHANGED <<op, dropped>>
      /\ batches' = IF Len(r) = SLOT_COUNT THEN Append(batches, r) ELSE batches
      /\ \/ /\ tls[t] # 0 /\ recycled' = [recycled EXCEPT ![tls[t]] = AfterPush(r)]
            /\ UNCHANGED <<maker, fresh>>
         \/ tls[t] = 0 /\ ChunkAlloc(t, SLOT_COUNT, AfterPush(r))
    BY <1>0 DEF RecycledToMyLocalPool, Frees
<1>2. CASE tls[t] # 0 /\ recycled' = [recycled EXCEPT ![tls[t]] = AfterPush(r)]
           /\ UNCHANGED <<maker, fresh>>
    <2>1. r = Append(recycled[tls[t]], s)
        BY <1>0, <1>2
    <2> QED  BY <1>1, <1>2, <2>1, RecycledHereAccounted
<1>3. CASE tls[t] = 0 /\ ChunkAlloc(t, SLOT_COUNT, AfterPush(r))
    <2>1. r = <<s>> /\ s \in Known
        BY <1>0, <1>1, <1>3 DEF Inv, TypeOK
    <2>2. r \in Seq(Known) /\ Len(r) = 1 /\ r[1] = s
        BY <2>1
    <2>3. ToSet(r) = {s} /\ Distinct(r)
        BY <2>2, SetOne
    <2>4. Known \subseteq Known'
        <3>1. maker' = Append(maker, t) /\ maker \in Seq(Threads)
            BY <1>3 DEF ChunkAlloc, Inv, TypeOK
        <3>2. Len(maker) \in Nat /\ Len(maker') = Len(maker) + 1
            BY <3>1, AppendFacts, LenFacts
        <3>3. 1..Len(maker) \subseteq 1..Len(maker')
            BY <3>2
        <3> QED  BY <3>3 DEF Known
    <2>5. ({Len(maker')} \X (1..SLOT_COUNT)) \ ({Len(maker')} \X (1..SLOT_COUNT)) = {}
          /\ SLOT_COUNT \in 0..SLOT_COUNT /\ \A u \in Threads : op'[u].slots = op[u].slots
        BY <1>1
    <2>6. CASE Len(r) # SLOT_COUNT
        <3> DEFINE C == {}
        <3>1. AfterPush(r) = r /\ batches' = batches
            BY <1>1, <2>6 DEF AfterPush
        <3>2. r \in Seq(Known')
            BY <2>2, <2>4, SeqMono
        <3>3. ToSet(r) \intersect C = {} /\ ToSet(r) \union C \subseteq held
              /\ held' = (held \ (ToSet(r) \union C))
                     \union (({Len(maker')} \X (1..SLOT_COUNT)) \ ({Len(maker')} \X (1..SLOT_COUNT)))
            BY <1>1, <2>3, <2>5
        <3>4. batches' = batches /\ C = {}
            BY <3>1
        <3>5. ChunkAlloc(t, SLOT_COUNT, r)
            BY <1>3, <3>1
        <3> HIDE DEF C
        <3> QED  BY <1>1, <2>3, <2>5, <3>2, <3>3, <3>4, <3>5, ChunkAccounted
    <2>7. CASE Len(r) = SLOT_COUNT
        <3> DEFINE C == ToSet(r)
                   e == <<>>
        <3>1. AfterPush(r) = e /\ batches' = Append(batches, r)
            BY <1>1, <2>7 DEF AfterPush
        <3>2. e \in Seq(Known') /\ Distinct(e) /\ ToSet(e) = {}
            BY SetEmpty
        <3> HIDE DEF e
        <3>3. ToSet(e) \intersect C = {} /\ ToSet(e) \union C \subseteq held
              /\ held' = (held \ (ToSet(e) \union C))
                     \union (({Len(maker')} \X (1..SLOT_COUNT)) \ ({Len(maker')} \X (1..SLOT_COUNT)))
            BY <1>1, <2>3, <2>5, <3>2
        <3>4. \E b \in Seq(Known) : batches' = Append(batches, b) /\ Distinct(b) /\ ToSet(b) = C
            BY <2>2, <2>3, <3>1
        <3>5. ChunkAlloc(t, SLOT_COUNT, e)
            BY <1>3, <3>1
        <3> HIDE DEF C
        <3> QED  BY <1>1, <2>5, <3>2, <3>3, <3>4, <3>5, ChunkAccounted
    <2> QED  BY <2>6, <2>7
<1> QED  BY <1>1, <1>2, <1>3

\* The initial state.
LEMMA AccountedInit == Init => Accounted
<1> SUFFICES ASSUME Init, Inv PROVE Accounted
    BY InvInit
<1>1. PICK t \in Threads : /\ maker = <<t>> /\ fresh = <<ChunkPage(1)>>
                           /\ recycled = << <<>> >> /\ batches = <<>>
                           /\ held = {} /\ dropped = {} /\ op = [u \in Threads |-> Idle]
    BY DEF Init
<1>2. Len(maker) = 1 /\ 1..Len(maker) = {1} /\ 1..Len(batches) = {}
    BY <1>1
<1> DEFINE f == <<"fresh", 1>>
<1>3. /\ f \in Names /\ StackOf(f) = ChunkPage(1)
      /\ \A n \in Names : n = f \/ StackOf(n) = <<>>
    <2>1. fresh[1] = ChunkPage(1) /\ recycled[1] = <<>>
        BY <1>1
    <2>2. \A u \in Threads : op[u].slots = <<>>
        BY <1>1, IdleFacts
    <2>3. f \in Names /\ StackOf(f) = fresh[1]
        BY <1>2, NameFacts DEF Inv
    <2>4. ASSUME NEW n \in Names PROVE n = f \/ StackOf(n) = <<>>
        <3>1. \/ n = f
              \/ n = <<"recycled", 1>>
              \/ \E u \in Threads : n = <<"call", u>>
            BY <1>2, NameFacts DEF Inv
        <3>2. StackOf(<<"recycled", 1>>) = <<>>
            BY <1>2, <2>1, NameFacts DEF Inv
        <3>3. \A u \in Threads : StackOf(<<"call", u>>) = <<>>
            BY <2>2, NameFacts DEF Inv
        <3> QED  BY <3>1, <3>2, <3>3
    <2> QED  BY <2>1, <2>3, <2>4
<1>4. Distinct(ChunkPage(1)) /\ ToSet(ChunkPage(1)) = {1} \X (1..SLOT_COUNT)
    <2>1. ChunkPage(1) \in Seq({1} \X (1..SLOT_COUNT)) /\ Len(ChunkPage(1)) = SLOT_COUNT
          /\ \A i \in 1..SLOT_COUNT : ChunkPage(1)[i] = <<1, i>>
        BY DEF ChunkPage
    <2> HIDE DEF ChunkPage
    <2>2. Distinct(ChunkPage(1))
        BY <2>1 DEF Distinct
    <2>5. \A x : x \in ToSet(ChunkPage(1))
                    <=> \E i \in 1..Len(ChunkPage(1)) : ChunkPage(1)[i] = x
        BY <2>1, SetFacts
    <2>3. \A x : x \in ToSet(ChunkPage(1)) <=> \E i \in 1..SLOT_COUNT : x = <<1, i>>
        BY <2>1, <2>5
    <2>4. \A x : x \in {1} \X (1..SLOT_COUNT) <=> \E i \in 1..SLOT_COUNT : x = <<1, i>>
        OBVIOUS
    <2> QED  BY <2>2, <2>3, <2>4
<1>5. Known = {1} \X (1..SLOT_COUNT)
    BY <1>2 DEF Known
<1> HIDE DEF f
<1>6. \A n \in Names : Distinct(StackOf(n)) /\ (n = f \/ ToSet(StackOf(n)) = {})
    BY <1>3, <1>4, SetEmpty
<1>7. ToSet(StackOf(f)) = Known
    BY <1>3, <1>4, <1>5
<1>8. held \union dropped = {} /\ held \intersect dropped = {}
    BY <1>1
<1>9. \A n, m \in Names : n # m => ToSet(StackOf(n)) \intersect ToSet(StackOf(m)) = {}
    BY <1>6
<1> QED  BY <1>3, <1>6, <1>7, <1>8, <1>9 DEF Accounted

\* Every step keeps every slot in one place.
LEMMA AccountedNext == Inv /\ Inv' /\ Accounted /\ [Next]_vars => Accounted'
<1> SUFFICES ASSUME Inv, Inv', Accounted, [Next]_vars PROVE Accounted'
    OBVIOUS
<1>1. CASE UNCHANGED vars
    <2>1. UNCHANGED <<maker, fresh, recycled, batches, held, op, dropped>>
        BY <1>1 DEF vars, clientVars
    <2>2. \A u \in Threads : op'[u].slots = op[u].slots
        BY <2>1
    <2> QED  BY <2>1, <2>2, SameAccounted DEF Inv
<1>2. CASE Next
    BY <1>2, BeginAccounted, PopAccounted, PopFromRecyledSlotsAccounted,
       TryStealFromGlobalAccounted, SwapAccounted, AllocFromNewChunkAccounted,
       FreeFreshAccounted, RecycledToMyLocalPoolAccounted, PushAccounted DEF Next
<1> QED  BY <1>1, <1>2

\* No stack is longer than the array of a PointerStack.
LEMMA Fits == ASSUME Inv, NEW n \in Names PROVE Len(StackOf(n)) <= SLOT_COUNT
<1>1. TypeOK /\ Sizes
    BY DEF Inv
<1>2. ASSUME NEW t \in Threads PROVE Len(op[t].slots) <= SLOT_COUNT
    <2>1. Relies(t) /\ op[t].at \in {"idle", "pop", "steal", "swap", "push"}
        BY <1>1, TypeFacts DEF Inv, Calls
    <2>2. op[t].slots = <<>> \/ Len(op[t].slots) = SLOT_COUNT \/ Len(op[t].slots) = 1
        BY <2>1 DEF Relies
    <2>3. Len(<<>>) <= SLOT_COUNT /\ 1 <= SLOT_COUNT /\ SLOT_COUNT <= SLOT_COUNT
        OBVIOUS
    <2> QED  BY <2>2, <2>3
<1>3. \A p \in 1..Len(maker) : Len(recycled[p]) <= SLOT_COUNT
    <2> SUFFICES ASSUME NEW p \in 1..Len(maker) PROVE Len(recycled[p]) <= SLOT_COUNT
        OBVIOUS
    <2>1. Len(recycled[p]) \in Nat /\ Len(recycled[p]) < SLOT_COUNT
        BY <1>1, TypeFacts DEF Sizes
    <2> QED  BY <2>1
<1>4. \A i \in 1..Len(batches) : Len(batches[i]) <= SLOT_COUNT
    BY <1>1 DEF Sizes
<1>5. \A p \in 1..Len(maker) : Len(fresh[p]) <= SLOT_COUNT
    BY <1>1 DEF Sizes
<1>6. \/ \E p \in 1..Len(maker) : StackOf(n) = fresh[p]
      \/ \E p \in 1..Len(maker) : StackOf(n) = recycled[p]
      \/ \E i \in 1..Len(batches) : StackOf(n) = batches[i]
      \/ \E t \in Threads : StackOf(n) = op[t].slots
    <2>1. /\ \A p \in 1..Len(maker) : /\ StackOf(<<"fresh", p>>) = fresh[p]
                                      /\ StackOf(<<"recycled", p>>) = recycled[p]
          /\ \A i \in 1..Len(batches) : StackOf(<<"batch", i>>) = batches[i]
          /\ \A t \in Threads : StackOf(<<"call", t>>) = op[t].slots
        BY <1>1, NameFacts
    <2>2. \/ \E p \in 1..Len(maker) : n = <<"fresh", p>>
          \/ \E p \in 1..Len(maker) : n = <<"recycled", p>>
          \/ \E i \in 1..Len(batches) : n = <<"batch", i>>
          \/ \E t \in Threads : n = <<"call", t>>
        BY <1>1, NameFacts
    <2> QED  BY <2>1, <2>2
<1> QED  BY <1>2, <1>3, <1>4, <1>5, <1>6

\* The members of Stacks are the named stacks.
LEMMA StacksNamed ==
    ASSUME TypeOK
    PROVE  /\ \A n \in Names : <<n[1], n[2], StackOf(n)>> \in Stacks
           /\ \A z \in Stacks : \E n \in Names : z = <<n[1], n[2], StackOf(n)>>
<1>1. Pages = 1..Len(maker) /\ DOMAIN batches = 1..Len(batches)
    BY TypeFacts, LenFacts DEF TypeOK
<1>2. ASSUME NEW n \in Names PROVE <<n[1], n[2], StackOf(n)>> \in Stacks
    <2>1. ASSUME NEW p \in 1..Len(maker), n = <<"fresh", p>>
          PROVE  <<n[1], n[2], StackOf(n)>> \in Stacks
        BY <1>1, <2>1, NameFacts DEF Stacks
    <2>2. ASSUME NEW p \in 1..Len(maker), n = <<"recycled", p>>
          PROVE  <<n[1], n[2], StackOf(n)>> \in Stacks
        BY <1>1, <2>2, NameFacts DEF Stacks
    <2>3. ASSUME NEW i \in 1..Len(batches), n = <<"batch", i>>
          PROVE  <<n[1], n[2], StackOf(n)>> \in Stacks
        BY <1>1, <2>3, NameFacts DEF Stacks
    <2>4. ASSUME NEW t \in Threads, n = <<"call", t>>
          PROVE  <<n[1], n[2], StackOf(n)>> \in Stacks
        BY <1>1, <2>4, NameFacts DEF Stacks
    <2> QED  BY <2>1, <2>2, <2>3, <2>4, NameFacts
<1>3. ASSUME NEW z \in Stacks PROVE \E n \in Names : z = <<n[1], n[2], StackOf(n)>>
    <2>1. \/ \E p \in 1..Len(maker) : z = <<"fresh", p, fresh[p]>>
          \/ \E p \in 1..Len(maker) : z = <<"recycled", p, recycled[p]>>
          \/ \E i \in 1..Len(batches) : z = <<"batch", i, batches[i]>>
          \/ \E t \in Threads : z = <<"call", t, op[t].slots>>
        BY <1>1 DEF Stacks
    <2>2. ASSUME NEW p \in 1..Len(maker), z = <<"fresh", p, fresh[p]>>
          PROVE  \E n \in Names : z = <<n[1], n[2], StackOf(n)>>
        <3> DEFINE n == <<"fresh", p>>
        <3>1. n \in Names /\ z = <<n[1], n[2], StackOf(n)>>
            BY <2>2, NameFacts
        <3> QED  BY <3>1
    <2>3. ASSUME NEW p \in 1..Len(maker), z = <<"recycled", p, recycled[p]>>
          PROVE  \E n \in Names : z = <<n[1], n[2], StackOf(n)>>
        <3> DEFINE n == <<"recycled", p>>
        <3>1. n \in Names /\ z = <<n[1], n[2], StackOf(n)>>
            BY <2>3, NameFacts
        <3> QED  BY <3>1
    <2>4. ASSUME NEW i \in 1..Len(batches), z = <<"batch", i, batches[i]>>
          PROVE  \E n \in Names : z = <<n[1], n[2], StackOf(n)>>
        <3> DEFINE n == <<"batch", i>>
        <3>1. n \in Names /\ z = <<n[1], n[2], StackOf(n)>>
            BY <2>4, NameFacts
        <3> QED  BY <3>1
    <2>5. ASSUME NEW t \in Threads, z = <<"call", t, op[t].slots>>
          PROVE  \E n \in Names : z = <<n[1], n[2], StackOf(n)>>
        <3> DEFINE n == <<"call", t>>
        <3>1. n \in Names /\ z = <<n[1], n[2], StackOf(n)>>
            BY <2>5, NameFacts
        <3> QED  BY <3>1
    <2> QED  BY <2>1, <2>2, <2>3, <2>4, <2>5
<1> QED  BY <1>2, <1>3

\* A place of a slot is a position on a named stack.
LEMMA PlacesNamed ==
    ASSUME Inv, NEW s, NEW x \in Places(s)
    PROVE  \E n \in Names : \E i \in 1..Len(StackOf(n)) :
                /\ StackOf(n)[i] = s /\ s \in ToSet(StackOf(n))
                /\ x = << <<n[1], n[2], StackOf(n)>>, i>>
<1>1. /\ x \in Stacks \X (1..SLOT_COUNT) /\ x[2] <= Len(x[1][3]) /\ x[1][3][x[2]] = s
    BY DEF Places
<1>2. PICK z \in Stacks, i \in 1..SLOT_COUNT : x = <<z, i>>
    BY <1>1
<1>3. i <= Len(z[3]) /\ z[3][i] = s
    BY <1>1, <1>2
<1>4. PICK n \in Names : z = <<n[1], n[2], StackOf(n)>>
    BY StacksNamed DEF Inv
<1>5. StackOf(n) \in Seq(Known) /\ i <= Len(StackOf(n)) /\ StackOf(n)[i] = s
    BY <1>3, <1>4, NameFacts DEF Inv
<1>6. i \in 1..Len(StackOf(n))
    BY <1>5, LenFacts
<1>7. s \in ToSet(StackOf(n))
    BY <1>5, <1>6, SetFacts
<1> QED  BY <1>2, <1>4, <1>5, <1>6, <1>7

\* Accounted is what SlotsAccounted counts.
LEMMA AccountedCounts == Inv /\ Accounted => SlotsAccounted
<1> SUFFICES ASSUME Inv, Accounted, NEW s \in Slots, Owner(s) \in Pages
             PROVE  IF s \in held \union dropped
                    THEN Places(s) = {} /\ ~(s \in held /\ s \in dropped)
                    ELSE Cardinality(Places(s)) = 1
    BY DEF SlotsAccounted
<1>1. s \in Known
    BY TypeFacts DEF Inv, Slots, Owner, Known
<1>2. CASE s \in held \union dropped
    <2>1. ASSUME NEW x \in Places(s) PROVE FALSE
        <3>1. PICK n \in Names : s \in ToSet(StackOf(n))
            BY PlacesNamed
        <3> QED  BY <1>2, <3>1 DEF Accounted
    <2> QED  BY <1>2, <2>1 DEF Accounted
<1>3. CASE s \notin held \union dropped
    <2>1. PICK n \in Names : s \in ToSet(StackOf(n))
        BY <1>1, <1>3 DEF Accounted
    <2>2. StackOf(n) \in Seq(Known) /\ Len(StackOf(n)) \in Nat /\ Len(StackOf(n)) <= SLOT_COUNT
        BY NameFacts, LenFacts, Fits DEF Inv
    <2>3. PICK i \in 1..Len(StackOf(n)) : StackOf(n)[i] = s
        BY <2>1, <2>2, SetFacts
    <2> DEFINE z == <<n[1], n[2], StackOf(n)>>
               x == <<z, i>>
    <2>4. x \in Places(s)
        <3>1. i \in 1..SLOT_COUNT /\ i <= Len(StackOf(n))
            BY <2>2
        <3>2. z \in Stacks /\ z[3] = StackOf(n)
            BY StacksNamed DEF Inv
        <3> HIDE DEF z
        <3>3. x \in Stacks \X (1..SLOT_COUNT) /\ x[2] = i /\ x[1] = z
            BY <3>1, <3>2
        <3> QED  BY <2>3, <3>1, <3>2, <3>3 DEF Places
    <2>5. ASSUME NEW y \in Places(s) PROVE y = x
        <3>0. PICK m \in Names : \E j \in 1..Len(StackOf(m)) :
                /\ StackOf(m)[j] = s /\ s \in ToSet(StackOf(m))
                /\ y = << <<m[1], m[2], StackOf(m)>>, j>>
            BY PlacesNamed
        <3>1. PICK j \in 1..Len(StackOf(m)) :
                /\ StackOf(m)[j] = s /\ s \in ToSet(StackOf(m))
                /\ y = << <<m[1], m[2], StackOf(m)>>, j>>
            BY <3>0
        <3>2. m = n
            BY <2>1, <3>1 DEF Accounted
        <3>3. Distinct(StackOf(n))
            BY DEF Accounted
        <3>4. j = i
            BY <2>3, <3>1, <3>2, <3>3 DEF Distinct
        <3> QED  BY <3>1, <3>2, <3>4
    <2> HIDE DEF x
    <2>6. Places(s) = {x}
        BY <2>4, <2>5
    <2> QED  BY <1>3, <2>6, FS_Singleton
<1> QED  BY <1>2, <1>3

\* As long as no two threads were inside one m_freshSlots at once, every slot
\* of every page is with one client, once on one stack, in the hands of one
\* call, or was refused by a full stack.
THEOREM EverySlotOnce == Spec => []SlotsAccounted
<1>1. Inv /\ Accounted /\ [Next]_vars => (Inv /\ Accounted)'
    BY InvStep, AccountedNext
<1> QED  BY <1>1, InvInit, AccountedInit, AccountedCounts, PTL DEF Spec



=============================================================================
