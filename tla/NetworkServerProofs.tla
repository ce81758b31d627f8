------------------------ MODULE NetworkServerProofs -------------------------
(***************************************************************************)
(* Proofs about NetworkServer and BotManager, for any number of handles,   *)
(* peers, bots and calls.                                                  *)
(*                                                                         *)
(* BaseInv holds whatever the application does: TypeOK, Bounded and        *)
(* OneStarter.  ServerInv adds what holds in a program that only listens:  *)
(* sockets have one holder, a session or a task.  BotInv adds what the     *)
(* bots know of the sessions.                                              *)
(***************************************************************************)
EXTENDS BotManager, FiniteSetTheorems, SequenceTheorems, TLAPS

Kinds == {"Listen", "AcceptIO", "NewUser", "Connect", "ConnectIO", "ReceiveIO",
          "Send"}
Points == {"posted", "running", "pending", "kept"}
ConnStates == {"fresh", "listening", "connecting", "connected", "gone", "closed"}
HandleOrNone == Handles \union {NoSocket}
NetworkTask == [kind : Kinds, owner : Nat, socket : HandleOrNone, at : Points, on : Nat]

\* The variables have the types their declarations give them.
TypeOK ==
    /\ lastSessionID \in Nat \ {0}
    /\ sessions \subseteq IDs /\ \A s \in sessions : s < lastSessionID
    /\ socket \in [IDs -> HandleOrNone]
    /\ kernel \in [Handles -> 0..Len(conn)]
    /\ conn \in Seq(ConnStates)
    /\ tasks \subseteq NetworkTask
    /\ backlog \in Nat /\ arrived \in Nat /\ failed \in BOOLEAN
    /\ calls \in [listen : Nat, connect : Nat, send : Nat]
    /\ mine \in [IDs -> 0..Len(conn)]
    /\ receivers \in [IDs -> Nat]

\* The tasks that will create a session.
Waiting == {t \in tasks : t.kind \in {"Listen", "NewUser", "Connect"} /\ t.at = "posted"}

\* There are not more sessions than calls and peers that lead to one.
Bounded ==
    /\ calls.listen <= 1 /\ calls.connect <= MaxConnects /\ arrived <= MaxPeers
    /\ IsFiniteSet(Waiting)
    /\ lastSessionID + backlog + Cardinality(Waiting)
            <= 1 + calls.listen + calls.connect + arrived

\* The tasks of a session that does not have its receive task yet.
Starter(t) == \/ t.kind \in {"Listen", "NewUser", "Connect"} /\ t.at = "running"
              \/ t.kind = "ConnectIO"

\* A session has one such task or has had it.
OneStarter ==
    /\ \A t \in tasks : Starter(t) =>
          t.owner \in IDs /\ t.owner < lastSessionID /\ receivers[t.owner] = 0
    /\ \A t, u \in tasks : Starter(t) /\ Starter(u) /\ t.owner = u.owner => t = u
    /\ \A s \in IDs : s >= lastSessionID => receivers[s] = 0

\* What holds whatever the application does.
BaseInv == TypeOK /\ Bounded /\ OneStarter /\ OneReceiver

\* The tasks that have a socket in hand that is no session's yet.
Holding(t) == \/ t.kind = "AcceptIO" /\ t.at = "pending"
              \/ t.kind = "NewUser"

\* Every open socket has at most one holder: the session that SetSocket gave it
\* to, which still has its handle, or a task.
OneHolder ==
    /\ \A h, g \in Handles : kernel[h] # 0 /\ kernel[h] = kernel[g] => h = g
    /\ \A s \in sessions : mine[s] # 0 =>
          socket[s] \in Handles /\ kernel[socket[s]] = mine[s]
    /\ \A s, r \in sessions : mine[s] # 0 /\ mine[s] = mine[r] => s = r
    /\ \A t \in tasks : Holding(t) =>
          /\ t.socket \in Handles /\ kernel[t.socket] # 0
          /\ \A s \in sessions : mine[s] # kernel[t.socket]
    /\ \A t, u \in tasks : Holding(t) /\ Holding(u) /\ t.socket = u.socket => t = u

\* A session is registered without a socket until its task has set one, and has
\* one when its receive task is created.  An accept task has no socket in hand
\* before Start.
SocketOnce ==
    /\ \A t \in tasks : t.kind \notin {"Connect", "ConnectIO"}
    /\ \A t \in tasks : Starter(t) => t.owner \in sessions /\ mine[t.owner] = 0
    /\ \A s \in IDs : s >= lastSessionID => mine[s] = 0
    /\ \A t \in tasks : t.kind = "ReceiveIO" => t.owner \in IDs /\ mine[t.owner] # 0
    /\ \A t \in tasks : t.kind = "AcceptIO" => t.at = "pending" \/ t.socket = NoSocket

\* What holds in a program that only listens.
ServerInv == BaseInv /\ OneHolder /\ SocketOnce /\ SocketsOwned

-----------------------------------------------------------------------------
USE ServerAssumption

\* Storing into a sequence, at an index of it or not.
LEMMA StoreFacts ==
    ASSUME NEW S, NEW q \in Seq(S), NEW k, NEW x \in S
    PROVE  [q EXCEPT ![k] = x] \in Seq(S) /\ Len([q EXCEPT ![k] = x]) = Len(q)
<1>1. CASE k \in 1..Len(q)
    BY <1>1, ExceptSeq
<1>2. CASE k \notin 1..Len(q)
    <2>1. DOMAIN q = 1..Len(q)
        BY LenProperties
    <2>2. [q EXCEPT ![k] = x] = q
        BY <1>2, <2>1
    <2> QED  BY <2>2
<1> QED  BY <1>1, <1>2

\* Adding an element to a sequence.
LEMMA AppendFacts ==
    ASSUME NEW S, NEW q \in Seq(S), NEW x \in S
    PROVE  /\ Append(q, x) \in Seq(S) /\ Len(Append(q, x)) = Len(q) + 1
           /\ Len(q) \in Nat
OBVIOUS

\* Numbers of sessions are numbers.
LEMMA IDFacts == IDs \subseteq Nat /\ 0 \notin IDs
BY DEF IDs

\* A new socket has a number that no socket had before.
LEMMA WSASocketFacts ==
    ASSUME TypeOK, NEW h \in Handles, NEW state \in ConnStates, WSASocket(h, state)
    PROVE  /\ conn' \in Seq(ConnStates) /\ Len(conn') = Len(conn) + 1
           /\ NewSocket = Len(conn) + 1 /\ Len(conn) \in Nat
           /\ kernel' \in [Handles -> 0..Len(conn')]
           /\ mine \in [IDs -> 0..Len(conn')]
           /\ NewSocket \in 0..Len(conn')
<1>1. /\ conn' \in Seq(ConnStates) /\ Len(conn') = Len(conn) + 1 /\ Len(conn) \in Nat
      /\ NewSocket = Len(conn) + 1
    BY AppendFacts DEF TypeOK, WSASocket, NewSocket
<1>2. 0..Len(conn) \subseteq 0..Len(conn') /\ NewSocket \in 0..Len(conn')
    BY <1>1
<1>3. kernel' = [kernel EXCEPT ![h] = NewSocket]
    BY DEF WSASocket
<1> QED  BY <1>1, <1>2, <1>3 DEF TypeOK

\* Closing a handle, whatever it stands for.
LEMMA closesocketFacts ==
    ASSUME TypeOK, NEW h, closesocket(h)
    PROVE  /\ conn' \in Seq(ConnStates) /\ Len(conn') = Len(conn)
           /\ kernel' \in [Handles -> 0..Len(conn')]
           /\ kernel' = [g \in Handles |-> IF g = h THEN 0 ELSE kernel[g]]
<1>1. CASE SocketAt(h) = 0
    <2>1. kernel' = kernel /\ conn' = conn
        BY <1>1 DEF closesocket
    <2>2. h \in Handles => kernel[h] = 0
        BY <1>1 DEF SocketAt
    <2> QED  BY <2>1, <2>2 DEF TypeOK
<1>2. CASE SocketAt(h) # 0
    <2>1. /\ kernel' = [kernel EXCEPT ![h] = 0]
          /\ conn' = [conn EXCEPT ![SocketAt(h)] = "closed"]
        BY <1>2 DEF closesocket
    <2>2. conn \in Seq(ConnStates) /\ "closed" \in ConnStates
        BY DEF TypeOK, ConnStates
    <2>3. conn' \in Seq(ConnStates) /\ Len(conn') = Len(conn)
        BY <2>1, <2>2, StoreFacts
    <2>4. Len(conn) \in Nat
        BY <2>2
    <2>5. kernel \in [Handles -> 0..Len(conn)]
        BY DEF TypeOK
    <2>6. kernel' = [g \in Handles |-> IF g = h THEN 0 ELSE kernel[g]]
        BY <2>1, <2>5
    <2>7. kernel' \in [Handles -> 0..Len(conn)]
        BY <2>4, <2>5, <2>6
    <2> QED  BY <2>3, <2>6, <2>7
<1> QED  BY <1>1, <1>2

\* RemoveSession closes the handle of a registered session and of no other.
LEMMA RemoveSessionFacts ==
    ASSUME TypeOK, NEW s, RemoveSession(s)
    PROVE  /\ conn' \in Seq(ConnStates) /\ Len(conn') = Len(conn)
           /\ kernel' \in [Handles -> 0..Len(conn')]
           /\ sessions' = sessions \ {s}
           /\ s \in sessions =>
                 kernel' = [g \in Handles |-> IF g = socket[s] THEN 0 ELSE kernel[g]]
           /\ s \notin sessions => kernel' = kernel
<1>1. CASE s \in sessions
    BY <1>1, closesocketFacts DEF RemoveSession
<1>2. CASE s \notin sessions
    BY <1>2 DEF RemoveSession, TypeOK
<1> QED  BY <1>1, <1>2

-----------------------------------------------------------------------------
(***************************************************************************)
(* BaseInv: what holds whatever the application does.                      *)
(***************************************************************************)

\* new may take the place of t without a word to the sessions: none of its tasks
\* waits to create a session, and at most one is a starter, in t's place.
Quiet(t, new) ==
    /\ new \subseteq NetworkTask
    /\ \A u \in new : u.at = "posted" => u.kind \notin {"Listen", "NewUser", "Connect"}
    /\ \A u \in new : Starter(u) => Starter(t) /\ u.owner = t.owner
    /\ \A u, v \in new : Starter(u) /\ Starter(v) => u = v

\* A step that only replaces t by such tasks, as far as sessions are concerned.
QuietStep(t) ==
    /\ \E new \in SUBSET NetworkTask : Becomes(t, new) /\ Quiet(t, new)
    /\ backlog' \in Nat /\ backlog' <= backlog
    /\ UNCHANGED <<lastSessionID, calls, arrived, receivers>>

\* Such a step preserves BaseInv.
LEMMA QuietInv ==
    ASSUME BaseInv, NEW t \in tasks, QuietStep(t), TypeOK'
    PROVE  BaseInv'
<1> USE DEF BaseInv
<1>1. PICK new \in SUBSET NetworkTask : Becomes(t, new) /\ Quiet(t, new)
    BY DEF QuietStep
<1>2. Bounded'
    <2>1. Waiting' \subseteq Waiting
        BY <1>1 DEF Waiting, Becomes, Quiet
    <2>2. /\ IsFiniteSet(Waiting') /\ Cardinality(Waiting') <= Cardinality(Waiting)
          /\ Cardinality(Waiting) \in Nat /\ Cardinality(Waiting') \in Nat
        BY <2>1, FS_Subset, FS_CardinalityType DEF Bounded
    <2>3. /\ lastSessionID \in Nat /\ backlog \in Nat /\ calls.listen \in Nat
          /\ calls.connect \in Nat /\ arrived \in Nat
        BY DEF TypeOK
    <2>4. /\ lastSessionID' = lastSessionID /\ calls' = calls /\ arrived' = arrived
          /\ backlog' <= backlog /\ backlog' \in Nat
        BY DEF QuietStep
    <2>5. /\ calls.listen <= 1 /\ calls.connect <= MaxConnects /\ arrived <= MaxPeers
          /\ lastSessionID + backlog + Cardinality(Waiting)
                <= 1 + calls.listen + calls.connect + arrived
        BY DEF Bounded
    <2> HIDE DEF BaseInv
    <2>6. lastSessionID + backlog' + Cardinality(Waiting')
                <= 1 + calls.listen + calls.connect + arrived
        BY <2>2, <2>3, <2>4, <2>5
    <2> QED  BY <2>2, <2>4, <2>5, <2>6 DEF Bounded
<1>3. OneStarter'
    <2>1. \A u \in tasks' : Starter(u) =>
            (u \in tasks /\ u # t) \/ (u \in new /\ Starter(t) /\ u.owner = t.owner)
        BY <1>1 DEF Becomes, Quiet
    <2>2. lastSessionID' = lastSessionID /\ receivers' = receivers
        BY DEF QuietStep
    <2>3. \A u \in tasks' : Starter(u) =>
            u.owner \in IDs /\ u.owner < lastSessionID' /\ receivers'[u.owner] = 0
        BY <2>1, <2>2 DEF OneStarter
    <2>4. ASSUME NEW u \in tasks', NEW v \in tasks', Starter(u), Starter(v),
                 u.owner = v.owner
          PROVE  u = v
        <3>1. CASE u \in tasks /\ u # t
            BY <2>1, <2>4, <3>1 DEF OneStarter
        <3>2. CASE u \in new /\ Starter(t) /\ u.owner = t.owner
            BY <1>1, <2>1, <2>4, <3>2 DEF OneStarter, Quiet
        <3> QED  BY <2>1, <2>4, <3>1, <3>2
    <2>5. \A u \in tasks' : Starter(u)' = Starter(u)
        BY DEF Starter
    <2> QED  BY <2>2, <2>3, <2>4, <2>5 DEF OneStarter
<1>4. OneReceiver'
    BY DEF OneReceiver, QuietStep
<1> QED  BY <1>2, <1>3, <1>4

\* The initial state.
LEMMA BaseInit == Init => BaseInv
<1> SUFFICES ASSUME Init PROVE BaseInv
    OBVIOUS
<1>1. TypeOK
    <2>1. conn = <<>> /\ conn \in Seq(ConnStates) /\ Len(conn) = 0
        BY DEF Init
    <2>2. failed \in BOOLEAN /\ calls \in [listen : Nat, connect : Nat, send : Nat]
        BY DEF Init
    <2> QED  BY <2>1, <2>2 DEF Init, TypeOK, HandleOrNone
<1>2. Waiting = {} /\ IsFiniteSet(Waiting) /\ Cardinality(Waiting) = 0
    BY FS_EmptySet DEF Init, Waiting
<1>3. Bounded
    <2>1. /\ lastSessionID = 1 /\ backlog = 0 /\ arrived = 0
          /\ calls.listen = 0 /\ calls.connect = 0
        BY DEF Init
    <2> QED  BY <1>2, <2>1 DEF Bounded
<1>4. OneStarter /\ OneReceiver
    BY DEF Init, OneStarter, OneReceiver
<1> QED  BY <1>1, <1>3, <1>4 DEF BaseInv

\* Steps that leave the sessions and the sockets alone keep the types.
LEMMA FrameTypes ==
    ASSUME TypeOK, UNCHANGED <<lastSessionID, sessions, socket, kernel, conn, calls,
                               arrived, mine, receivers>>,
           tasks' \subseteq NetworkTask, backlog' \in Nat, failed' \in BOOLEAN
    PROVE  TypeOK'
BY DEF TypeOK

\* What a step that replaces a task by tasks has to show of the new ones.
LEMMA QuietIntro ==
    ASSUME NEW t, NEW new, Quiet(t, new), Becomes(t, new),
           backlog' \in Nat, backlog' <= backlog,
           UNCHANGED <<lastSessionID, calls, arrived, receivers>>
    PROVE  QuietStep(t)
BY DEF QuietStep, Quiet

\* The new tasks are tasks.
LEMMA BecomesType ==
    ASSUME TypeOK, NEW t, NEW new, Becomes(t, new), Quiet(t, new)
    PROVE  tasks' \subseteq NetworkTask
BY DEF Becomes, Quiet, TypeOK

\* The end of a task is quiet ...
LEMMA QuietEnd == ASSUME NEW t PROVE Quiet(t, {})
BY DEF Quiet

\* ... and so is a task that goes on as one of the same kind and owner, or a new
\* accept, receive or send task.
LEMMA QuietOne ==
    ASSUME NEW t, NEW u \in NetworkTask,
           u.at = "posted" => u.kind \notin {"Listen", "NewUser", "Connect"},
           Starter(u) => Starter(t) /\ u.owner = t.owner
    PROVE  Quiet(t, {u})
BY DEF Quiet

\* NetworkSession::Listen
LEMMA SessionListenBase ==
    ASSUME BaseInv, NEW t \in tasks, SessionListen(t) PROVE BaseInv'
<1> USE DEF BaseInv
<1>0. TypeOK /\ t \in NetworkTask /\ backlog' = backlog /\ backlog \in Nat
      /\ backlog' <= backlog
      /\ UNCHANGED <<lastSessionID, sessions, backlog, calls, arrived, receivers>>
    BY DEF SessionListen, TypeOK
<1> HIDE DEF BaseInv
<1>1. ASSUME NEW h \in Handles, NEW state \in ConnStates, NEW new,
             SetSocket(t.owner, h, NewSocket), WSASocket(h, state), Quiet(t, new),
             Becomes(t, new), failed' \in BOOLEAN
      PROVE  BaseInv'
    <2>1. TypeOK'
        <3>1. /\ conn' \in Seq(ConnStates) /\ kernel' \in [Handles -> 0..Len(conn')]
              /\ mine \in [IDs -> 0..Len(conn')] /\ NewSocket \in 0..Len(conn')
            BY <1>0, <1>1, WSASocketFacts
        <3>2. mine' \in [IDs -> 0..Len(conn')] /\ socket' \in [IDs -> HandleOrNone]
            BY <1>0, <1>1, <3>1 DEF SetSocket, TypeOK, HandleOrNone
        <3>3. tasks' \subseteq NetworkTask
            BY <1>0, <1>1, BecomesType
        <3> QED  BY <1>0, <1>1, <3>1, <3>2, <3>3 DEF TypeOK
    <2>2. QuietStep(t)
        BY <1>0, <1>1, QuietIntro
    <2> QED  BY <2>1, <2>2, QuietInv
<1>2. Quiet(t, {Task("AcceptIO", t.owner, NoSocket)}) /\ Quiet(t, {})
    <2>1. Task("AcceptIO", t.owner, NoSocket) \in NetworkTask
        BY <1>0 DEF Task, NetworkTask, Kinds, Points, HandleOrNone
    <2> QED  BY <2>1, QuietOne, QuietEnd DEF Task, Starter
<1>3. CASE \E h \in Handles :
             /\ SetSocket(t.owner, h, NewSocket)
             /\ \/ /\ WSASocket(h, "listening")
                   /\ Becomes(t, {Task("AcceptIO", t.owner, NoSocket)})
                   /\ UNCHANGED failed \/ Fails
                \/ Fails /\ WSASocket(h, "fresh") /\ Becomes(t, {})
    BY <1>0, <1>1, <1>2, <1>3 DEF ConnStates, Fails, TypeOK
<1>4. CASE Fails /\ Becomes(t, {}) /\ UNCHANGED <<kernel, conn, socket, mine>>
    <2>1. TypeOK'
        BY <1>0, <1>2, <1>4, BecomesType, FrameTypes DEF Fails
    <2>2. QuietStep(t)
        BY <1>0, <1>2, <1>4, QuietIntro
    <2> QED  BY <2>1, <2>2, QuietInv
<1> QED  BY <1>3, <1>4 DEF SessionListen

\* NetworkTaskAcceptIO::Start
LEMMA AcceptStartBase ==
    ASSUME BaseInv, NEW t \in tasks, AcceptStart(t) PROVE BaseInv'
<1>a. TypeOK /\ t \in NetworkTask /\ backlog \in Nat
    BY DEF BaseInv, TypeOK
<1>b. /\ UNCHANGED <<lastSessionID, sessions, socket, backlog, calls, arrived, mine,
                     receivers>>
      /\ t.kind = "AcceptIO"
    BY DEF AcceptStart
<1>0. TypeOK /\ t \in NetworkTask /\ backlog' \in Nat /\ backlog' <= backlog
    BY <1>a, <1>b
<1>1. ASSUME NEW h \in Handles, NEW new, WSASocket(h, "fresh"), Quiet(t, new),
             Becomes(t, new), failed' \in BOOLEAN
      PROVE  BaseInv'
    <2>1. TypeOK'
        <3>1. /\ conn' \in Seq(ConnStates) /\ kernel' \in [Handles -> 0..Len(conn')]
              /\ mine \in [IDs -> 0..Len(conn')]
            BY <1>0, <1>b, <1>1, WSASocketFacts DEF ConnStates
        <3>2. tasks' \subseteq NetworkTask
            BY <1>0, <1>b, <1>1, BecomesType
        <3> QED  BY <1>0, <1>b, <1>1, <3>1, <3>2 DEF TypeOK
    <2>2. QuietStep(t)
        BY <1>0, <1>b, <1>1, QuietIntro
    <2> QED  BY <2>1, <2>2, QuietInv
<1>2. ASSUME NEW h \in Handles
      PROVE  Quiet(t, {[t EXCEPT !.at = "pending", !.socket = h,
                                 !.on = SocketAt(socket[t.owner])]})
    <2>1. SocketAt(socket[t.owner]) \in Nat
        BY <1>0, <1>b DEF SocketAt, TypeOK
    <2>2. [t EXCEPT !.at = "pending", !.socket = h,
                    !.on = SocketAt(socket[t.owner])] \in NetworkTask
        BY <1>0, <1>b, <2>1 DEF NetworkTask, Kinds, Points, HandleOrNone
    <2> QED  BY <1>0, <1>b, <2>2, QuietOne DEF NetworkTask, Starter
<1>3. CASE \E h \in Handles :
             /\ WSASocket(h, "fresh")
             /\ \/ /\ StateAt(socket[t.owner]) = "listening"
                   /\ Becomes(t, {[t EXCEPT !.at = "pending", !.socket = h,
                                            !.on = SocketAt(socket[t.owner])]})
                   /\ UNCHANGED failed
                \/ Fails /\ Becomes(t, {})
    <2>1. PICK h \in Handles :
             /\ WSASocket(h, "fresh")
             /\ \/ /\ Becomes(t, {[t EXCEPT !.at = "pending", !.socket = h,
                                            !.on = SocketAt(socket[t.owner])]})
                   /\ UNCHANGED failed
                \/ Fails /\ Becomes(t, {})
        BY <1>3
    <2>2. CASE Fails /\ Becomes(t, {})
        BY <1>1, <2>1, <2>2, QuietEnd DEF Fails
    <2>3. CASE /\ Becomes(t, {[t EXCEPT !.at = "pending", !.socket = h,
                                       !.on = SocketAt(socket[t.owner])]})
               /\ UNCHANGED failed
        <3>1. failed' \in BOOLEAN
            BY <1>0, <1>b, <2>3 DEF TypeOK
        <3> QED  BY <1>1, <1>2, <2>1, <2>3, <3>1
    <2> QED  BY <2>1, <2>2, <2>3
<1>4. CASE Fails /\ Becomes(t, {}) /\ UNCHANGED <<kernel, conn>>
    <2>1. TypeOK'
        BY <1>0, <1>b, <1>4, QuietEnd, BecomesType, FrameTypes DEF Fails
    <2>2. QuietStep(t)
        BY <1>0, <1>b, <1>4, QuietEnd, QuietIntro
    <2> QED  BY <2>1, <2>2, QuietInv
<1> QED  BY <1>3, <1>4 DEF AcceptStart

\* NetworkTaskAcceptIO::Complete of a failed accept
LEMMA AcceptFailedBase ==
    ASSUME BaseInv, NEW t \in tasks, AcceptFailed(t) PROVE BaseInv'
<1>a. TypeOK /\ t \in NetworkTask /\ backlog \in Nat
    BY DEF BaseInv, TypeOK
<1>b. /\ UNCHANGED <<lastSessionID, sessions, socket, calls, arrived, failed, mine,
                     receivers>>
      /\ t.kind = "AcceptIO" /\ backlog > 0 /\ backlog' = backlog - 1
      /\ closesocket(t.socket) /\ Becomes(t, {Again(t)})
    BY DEF AcceptFailed, TurnAway
<1>c. backlog' \in Nat /\ backlog' <= backlog
    BY <1>a, <1>b
<1>1. Quiet(t, {Again(t)})
    <2>1. Again(t) \in NetworkTask
        BY <1>a DEF Again, NetworkTask, Points, HandleOrNone
    <2> QED  BY <1>a, <1>b, <2>1, QuietOne DEF Again, NetworkTask, Starter
<1>2. TypeOK'
    <2>1. /\ conn' \in Seq(ConnStates) /\ Len(conn') = Len(conn)
          /\ kernel' \in [Handles -> 0..Len(conn')]
        BY <1>a, <1>b, closesocketFacts
    <2>2. tasks' \subseteq NetworkTask
        BY <1>a, <1>b, <1>1, BecomesType
    <2> QED  BY <1>a, <1>b, <1>c, <2>1, <2>2 DEF TypeOK
<1>3. QuietStep(t)
    BY <1>b, <1>c, <1>1, QuietIntro
<1> QED  BY <1>2, <1>3, QuietInv

\* NetworkSession::Connect
LEMMA SessionConnectBase ==
    ASSUME BaseInv, NEW t \in tasks, SessionConnect(t) PROVE BaseInv'
<1> DEFINE kept == [t EXCEPT !.at = "kept"]
           io == Task("ConnectIO", t.owner, NoSocket)
<1>a. TypeOK /\ t \in NetworkTask /\ backlog \in Nat /\ failed \in BOOLEAN
    BY DEF BaseInv, TypeOK
<1>b. /\ UNCHANGED <<lastSessionID, sessions, socket, kernel, conn, backlog, calls,
                     arrived, failed, mine, receivers>>
      /\ t.kind = "Connect" /\ t.at = "running" /\ Becomes(t, {kept, io})
    BY DEF SessionConnect, appVars
<1>1. Quiet(t, {kept, io})
    <2>1. kept \in NetworkTask /\ kept.kind = "Connect" /\ kept.at = "kept"
        BY <1>a, <1>b DEF NetworkTask, Points
    <2>2. io \in NetworkTask /\ io.kind = "ConnectIO" /\ io.owner = t.owner
        BY <1>a DEF Task, NetworkTask, Kinds, Points, HandleOrNone
    <2>3. Starter(t)
        BY <1>b DEF Starter
    <2> HIDE DEF kept, io
    <2> QED  BY <2>1, <2>2, <2>3 DEF Quiet, Starter
<1> HIDE DEF kept, io
<1>2. TypeOK'
    <2>1. tasks' \subseteq NetworkTask
        BY <1>a, <1>b, <1>1, BecomesType
    <2> QED  BY <1>a, <1>b, <2>1, FrameTypes
<1>3. QuietStep(t)
    BY <1>a, <1>b, <1>1, QuietIntro
<1> QED  BY <1>2, <1>3, QuietInv

\* NetworkTaskConnectIO::Start as far as SetSocket
LEMMA ConnectStartBase ==
    ASSUME BaseInv, NEW t \in tasks, ConnectStart(t) PROVE BaseInv'
<1> DEFINE run == [t EXCEPT !.at = "running"]
<1>a. TypeOK /\ t \in NetworkTask /\ backlog \in Nat /\ failed \in BOOLEAN
    BY DEF BaseInv, TypeOK
<1>b. /\ UNCHANGED <<lastSessionID, sessions, backlog, calls, arrived, receivers>>
      /\ t.kind = "ConnectIO"
    BY DEF ConnectStart
<1>1. Quiet(t, {run})
    <2>1. run \in NetworkTask /\ run.kind = "ConnectIO" /\ run.owner = t.owner
        BY <1>a, <1>b DEF NetworkTask, Points
    <2> QED  BY <1>b, <2>1, QuietOne DEF Starter
<1>2. CASE \E h \in Handles :
             /\ WSASocket(h, "fresh")
             /\ SetSocket(t.owner, h, NewSocket)
             /\ Becomes(t, {run})
             /\ UNCHANGED failed
    <2> HIDE DEF run
    <2>1. PICK h \in Handles : /\ WSASocket(h, "fresh")
                               /\ SetSocket(t.owner, h, NewSocket)
        BY <1>2
    <2>2. Becomes(t, {run}) /\ failed' = failed
        BY <1>2
    <2>3. /\ conn' \in Seq(ConnStates) /\ kernel' \in [Handles -> 0..Len(conn')]
          /\ mine \in [IDs -> 0..Len(conn')] /\ NewSocket \in 0..Len(conn')
        BY <1>a, <2>1, WSASocketFacts DEF ConnStates
    <2>4. mine' \in [IDs -> 0..Len(conn')] /\ socket' \in [IDs -> HandleOrNone]
        BY <1>a, <2>1, <2>3 DEF SetSocket, TypeOK, HandleOrNone
    <2>5. tasks' \subseteq NetworkTask
        BY <1>a, <1>1, <2>2, BecomesType
    <2>6. TypeOK'
        BY <1>a, <1>b, <2>2, <2>3, <2>4, <2>5 DEF TypeOK
    <2>7. QuietStep(t)
        BY <1>a, <1>b, <1>1, <2>2, QuietIntro
    <2> QED  BY <2>6, <2>7, QuietInv
<1>3. CASE Fails /\ Becomes(t, {}) /\ UNCHANGED <<kernel, conn, socket, mine>>
    <2>1. failed' \in BOOLEAN
        BY <1>3 DEF Fails
    <2>2. TypeOK'
        BY <1>a, <1>b, <1>3, <2>1, QuietEnd, BecomesType, FrameTypes
    <2>3. QuietStep(t)
        BY <1>a, <1>b, <1>3, QuietEnd, QuietIntro
    <2> QED  BY <2>2, <2>3, QuietInv
<1> QED  BY <1>2, <1>3 DEF ConnectStart

\* A step that ends t or sends it to another point with its socket's state.
LEMMA OnBase ==
    ASSUME BaseInv, NEW t \in tasks, NEW new, Quiet(t, new), Becomes(t, new),
           conn' \in Seq(ConnStates), Len(conn') = Len(conn), failed' \in BOOLEAN,
           UNCHANGED <<lastSessionID, sessions, socket, kernel, backlog, calls,
                       arrived, mine, receivers>>
    PROVE  BaseInv'
<1>1. TypeOK /\ backlog \in Nat
    BY DEF BaseInv, TypeOK
<1>2. tasks' \subseteq NetworkTask
    BY <1>1, BecomesType
<1>3. TypeOK'
    BY <1>1, <1>2 DEF TypeOK
<1>4. QuietStep(t)
    BY <1>1, QuietIntro
<1> QED  BY <1>3, <1>4, QuietInv

\* A task other than one that creates a session goes on at another point.
LEMMA QuietMove ==
    ASSUME TypeOK, NEW t \in NetworkTask, NEW p \in Points, NEW n \in Nat,
           t.kind \notin {"Listen", "NewUser", "Connect"}
    PROVE  Quiet(t, {[t EXCEPT !.at = p, !.on = n]})
<1> DEFINE u == [t EXCEPT !.at = p, !.on = n]
<1>1. u \in NetworkTask /\ u.kind = t.kind /\ u.owner = t.owner
    BY DEF NetworkTask
<1> HIDE DEF u
<1>2. Quiet(t, {u})
    BY <1>1, QuietOne DEF Starter
<1> QED  BY <1>2 DEF u

\* NetworkTaskConnectIO::Start: ConnectEx
LEMMA ConnectExBase == ASSUME BaseInv, NEW t \in tasks, ConnectEx(t) PROVE BaseInv'
<1> DEFINE h == socket[t.owner]
<1>a. TypeOK /\ t \in NetworkTask /\ failed \in BOOLEAN /\ conn \in Seq(ConnStates)
    BY DEF BaseInv, TypeOK
<1>b. /\ UNCHANGED <<lastSessionID, sessions, socket, kernel, backlog, calls, arrived,
                     mine, receivers>>
      /\ t.kind = "ConnectIO"
    BY DEF ConnectEx
<1>c. SocketAt(h) \in Nat
    BY <1>a DEF SocketAt, TypeOK
<1>1. CASE /\ conn' = [conn EXCEPT ![SocketAt(h)] = "connecting"]
           /\ Becomes(t, {[t EXCEPT !.at = "pending", !.on = SocketAt(h)]})
           /\ UNCHANGED failed
    <2>1. conn' \in Seq(ConnStates) /\ Len(conn') = Len(conn)
        BY <1>a, <1>1, StoreFacts DEF ConnStates
    <2>2. Quiet(t, {[t EXCEPT !.at = "pending", !.on = SocketAt(h)]})
        BY <1>a, <1>b, <1>c, QuietMove DEF Points
    <2> HIDE DEF h
    <2> QED  BY <1>a, <1>b, <1>1, <2>1, <2>2, OnBase
<1>2. CASE /\ failed' = (failed \/ StateAt(h) = "fresh")
           /\ Becomes(t, {}) /\ UNCHANGED conn
    <2>1. failed' \in BOOLEAN
        BY <1>2
    <2> QED  BY <1>a, <1>b, <1>2, <2>1, QuietEnd, OnBase
<1> QED  BY <1>1, <1>2 DEF ConnectEx

\* NetworkTaskConnectIO::Complete of a connection that failed
LEMMA ConnectFailedBase ==
    ASSUME BaseInv, NEW t \in tasks, ConnectFailed(t) PROVE BaseInv'
<1>a. TypeOK /\ t \in NetworkTask /\ failed \in BOOLEAN /\ conn \in Seq(ConnStates)
    BY DEF BaseInv, TypeOK
<1>b. /\ UNCHANGED <<lastSessionID, sessions, socket, kernel, backlog, calls, arrived,
                     failed, mine, receivers>>
      /\ Becomes(t, {})
    BY DEF ConnectFailed, appVars
<1>1. PICK state \in ConnStates : conn' = [conn EXCEPT ![t.on] = state]
    <2>1. CASE conn[t.on] = "connecting"
        BY <2>1 DEF ConnectFailed, ConnStates
    <2>2. CASE conn[t.on] = "closed"
        BY <2>2 DEF ConnectFailed, ConnStates
    <2> QED  BY <2>1, <2>2 DEF ConnectFailed
<1>2. conn' \in Seq(ConnStates) /\ Len(conn') = Len(conn)
    BY <1>a, <1>1, StoreFacts
<1> QED  BY <1>a, <1>b, <1>2, QuietEnd, OnBase

\* WSARecv or WSASend of a receive or send task
LEMMA StartIOBase ==
    ASSUME BaseInv, NEW t \in tasks, StartIO(t), t.kind \in {"ReceiveIO", "Send"},
           UNCHANGED <<lastSessionID, sessions, socket, kernel, conn, backlog, calls,
                       arrived, mine, receivers>>
    PROVE  BaseInv'
<1> DEFINE h == socket[t.owner]
<1>a. TypeOK /\ t \in NetworkTask /\ failed \in BOOLEAN /\ conn \in Seq(ConnStates)
    BY DEF BaseInv, TypeOK
<1>b. SocketAt(h) \in Nat
    BY <1>a DEF SocketAt, TypeOK
<1>1. CASE /\ Becomes(t, {[t EXCEPT !.at = "pending", !.on = SocketAt(h)]})
           /\ UNCHANGED failed
    <2>1. Quiet(t, {[t EXCEPT !.at = "pending", !.on = SocketAt(h)]})
        BY <1>a, <1>b, QuietMove DEF Points
    <2> HIDE DEF h
    <2> QED  BY <1>a, <1>1, <2>1, OnBase
<1>2. CASE /\ failed' = (failed \/ StateAt(h) = "connected")
           /\ Becomes(t, {})
    <2>1. failed' \in BOOLEAN
        BY <1>2
    <2> QED  BY <1>a, <1>2, <2>1, QuietEnd, OnBase
<1> QED  BY <1>1, <1>2 DEF StartIO

\* NetworkTaskReceiveIO::Complete with data
LEMMA ReceiveCompleteBase ==
    ASSUME BaseInv, NEW t \in tasks, ReceiveComplete(t) PROVE BaseInv'
<1>a. TypeOK /\ t \in NetworkTask /\ failed \in BOOLEAN /\ conn \in Seq(ConnStates)
    BY DEF BaseInv, TypeOK
<1>b. /\ UNCHANGED <<lastSessionID, sessions, socket, kernel, conn, backlog, calls,
                     arrived, failed, mine, receivers>>
      /\ t.kind = "ReceiveIO" /\ Becomes(t, {[t EXCEPT !.at = "running", !.on = 0]})
    BY DEF ReceiveComplete, appVars
<1>1. Quiet(t, {[t EXCEPT !.at = "running", !.on = 0]})
    BY <1>a, <1>b, QuietMove DEF Points
<1> QED  BY <1>a, <1>b, <1>1, OnBase

\* NetworkTaskReceiveIO::Complete with a failure
LEMMA ReceiveFailedBase ==
    ASSUME BaseInv, NEW t \in tasks, ReceiveFailed(t) PROVE BaseInv'
<1>a. TypeOK /\ backlog \in Nat
    BY DEF BaseInv, TypeOK
<1>b. /\ UNCHANGED <<lastSessionID, socket, backlog, calls, arrived, failed, mine,
                     receivers>>
      /\ RemoveSession(t.owner) /\ Becomes(t, {})
    BY DEF ReceiveFailed, DropSession, appVars
<1>1. TypeOK'
    <2>1. /\ conn' \in Seq(ConnStates) /\ Len(conn') = Len(conn)
          /\ kernel' \in [Handles -> 0..Len(conn')] /\ sessions' = sessions \ {t.owner}
        BY <1>a, <1>b, RemoveSessionFacts
    <2>2. tasks' \subseteq NetworkTask
        BY <1>a, <1>b, QuietEnd, BecomesType
    <2> QED  BY <1>a, <1>b, <2>1, <2>2 DEF TypeOK
<1>2. QuietStep(t)
    BY <1>a, <1>b, QuietEnd, QuietIntro
<1> QED  BY <1>1, <1>2, QuietInv

\* NetworkTaskSend::Complete
LEMMA SendCompleteBase ==
    ASSUME BaseInv, NEW t \in tasks, SendComplete(t) PROVE BaseInv'
<1>a. TypeOK /\ failed \in BOOLEAN /\ conn \in Seq(ConnStates)
    BY DEF BaseInv, TypeOK
<1>b. /\ UNCHANGED <<lastSessionID, sessions, socket, kernel, conn, backlog, calls,
                     arrived, failed, mine, receivers>>
      /\ Becomes(t, {})
    BY DEF SendComplete, appVars
<1> QED  BY <1>a, <1>b, QuietEnd, OnBase

\* A starter gives way to the receive task of its session.
LEMMA StartedBase ==
    ASSUME BaseInv, NEW t \in tasks, Starter(t), NEW new, new \subseteq NetworkTask,
           \A u \in new : u.kind \in {"Send", "ReceiveIO"}, Becomes(t, new),
           PostReceive(t.owner), conn' \in Seq(ConnStates), Len(conn') = Len(conn),
           socket' \in [IDs -> HandleOrNone], mine' \in [IDs -> 0..Len(conn)],
           UNCHANGED <<lastSessionID, sessions, kernel, backlog, calls, arrived, failed>>
    PROVE  BaseInv'
<1> USE DEF BaseInv
<1>1. t.owner \in IDs /\ receivers[t.owner] = 0 /\ receivers \in [IDs -> Nat]
    BY DEF OneStarter, TypeOK
<1>2. receivers' = [receivers EXCEPT ![t.owner] = 1]
    BY <1>1 DEF PostReceive
<1>3. TypeOK'
    <2>1. tasks' \subseteq NetworkTask
        BY DEF Becomes, TypeOK
    <2> QED  BY <1>1, <1>2, <2>1 DEF TypeOK
<1>4. Bounded'
    <2>1. Waiting' \subseteq Waiting
        BY DEF Waiting, Becomes
    <2>2. /\ IsFiniteSet(Waiting') /\ Cardinality(Waiting') <= Cardinality(Waiting)
          /\ Cardinality(Waiting) \in Nat /\ Cardinality(Waiting') \in Nat
        BY <2>1, FS_Subset, FS_CardinalityType DEF Bounded
    <2>3. /\ lastSessionID \in Nat /\ backlog \in Nat /\ calls.listen \in Nat
          /\ calls.connect \in Nat /\ arrived \in Nat
        BY DEF TypeOK
    <2>4. /\ calls.listen <= 1 /\ calls.connect <= MaxConnects /\ arrived <= MaxPeers
          /\ lastSessionID + backlog + Cardinality(Waiting)
                <= 1 + calls.listen + calls.connect + arrived
        BY DEF Bounded
    <2> HIDE DEF BaseInv
    <2>5. lastSessionID + backlog + Cardinality(Waiting')
                <= 1 + calls.listen + calls.connect + arrived
        BY <2>2, <2>3, <2>4
    <2> QED  BY <2>2, <2>4, <2>5 DEF Bounded
<1>5. OneStarter'
    <2>1. \A u \in tasks' : Starter(u)' = Starter(u)
        BY DEF Starter
    <2>2. \A u \in tasks' : Starter(u) => u \in tasks /\ u.owner # t.owner
        BY DEF Becomes, Starter, OneStarter
    <2>3. \A s \in IDs : s >= lastSessionID => s # t.owner
        BY IDFacts DEF OneStarter, TypeOK
    <2> QED  BY <1>1, <1>2, <2>1, <2>2, <2>3 DEF OneStarter
<1>6. OneReceiver'
    BY <1>1, <1>2 DEF OneReceiver
<1> QED  BY <1>3, <1>4, <1>5, <1>6

\* NetworkTaskNewUser: OnAccept
LEMMA OnAcceptBase == ASSUME BaseInv, NEW t \in tasks, OnAccept(t) PROVE BaseInv'
<1> DEFINE new == {Task("Send", t.owner, NoSocket), Task("ReceiveIO", t.owner, NoSocket)}
<1>a. TypeOK /\ t \in NetworkTask /\ conn \in Seq(ConnStates) /\ Len(conn) \in Nat
    BY DEF BaseInv, TypeOK
<1>b. /\ t.kind = "NewUser" /\ t.at = "running"
      /\ SetSocket(t.owner, t.socket, SocketAt(t.socket))
      /\ PostReceive(t.owner) /\ Becomes(t, new)
      /\ UNCHANGED <<lastSessionID, sessions, kernel, conn, backlog, calls, arrived,
                     failed>>
    BY DEF OnAccept, appVars
<1>1. Starter(t)
    BY <1>b DEF Starter
<1>2. new \subseteq NetworkTask /\ \A u \in new : u.kind \in {"Send", "ReceiveIO"}
    BY <1>a DEF Task, NetworkTask, Kinds, Points, HandleOrNone
<1>3. SocketAt(t.socket) \in 0..Len(conn) /\ t.socket \in HandleOrNone
    BY <1>a DEF SocketAt, TypeOK, NetworkTask
<1>4. socket' \in [IDs -> HandleOrNone] /\ mine' \in [IDs -> 0..Len(conn)]
    BY <1>a, <1>b, <1>3 DEF SetSocket, TypeOK
<1> HIDE DEF new
<1> QED  BY <1>a, <1>b, <1>1, <1>2, <1>4, StartedBase

\* NetworkTaskConnectIO::Complete: OnConnected
LEMMA ConnectCompleteBase ==
    ASSUME BaseInv, NEW t \in tasks, ConnectComplete(t) PROVE BaseInv'
<1> DEFINE new == {Task("ReceiveIO", t.owner, NoSocket)}
<1>a. /\ TypeOK /\ t \in NetworkTask /\ conn \in Seq(ConnStates)
      /\ socket \in [IDs -> HandleOrNone] /\ mine \in [IDs -> 0..Len(conn)]
    BY DEF BaseInv, TypeOK
<1>b. /\ t.kind = "ConnectIO" /\ PostReceive(t.owner) /\ Becomes(t, new)
      /\ conn' = [conn EXCEPT ![t.on] = "connected"]
      /\ UNCHANGED <<lastSessionID, sessions, socket, kernel, backlog, calls, arrived,
                     failed, mine>>
    BY DEF ConnectComplete, appVars
<1>1. Starter(t)
    BY <1>b DEF Starter
<1>2. new \subseteq NetworkTask /\ \A u \in new : u.kind \in {"Send", "ReceiveIO"}
    BY <1>a DEF Task, NetworkTask, Kinds, Points, HandleOrNone
<1>3. conn' \in Seq(ConnStates) /\ Len(conn') = Len(conn)
    <2>1. "connected" \in ConnStates
        BY DEF ConnStates
    <2> DEFINE k == t.on
    <2>2. conn \in Seq(ConnStates) /\ conn' = [conn EXCEPT ![k] = "connected"]
        BY <1>a, <1>b
    <2> HIDE DEF k, new
    <2> QED  BY <2>1, <2>2, StoreFacts
<1> HIDE DEF new
<1> QED  BY <1>a, <1>b, <1>1, <1>2, <1>3, StartedBase

\* NetworkServer::CreateNewSession: there is a number left for the session.
LEMMA CreateNewSessionBase ==
    ASSUME BaseInv, NEW t \in tasks, CreateNewSession(t) PROVE BaseInv'
<1> DEFINE s == lastSessionID
           u == [t EXCEPT !.at = "running", !.owner = s, !.on = 0]
<1>a. /\ TypeOK /\ t \in NetworkTask /\ s \in Nat /\ backlog \in Nat /\ s > 0
      /\ calls.listen \in Nat /\ calls.connect \in Nat /\ arrived \in Nat
    BY DEF BaseInv, TypeOK
<1>b. /\ t.kind \in {"Listen", "NewUser", "Connect"} /\ t.at = "posted"
      /\ lastSessionID' = s + 1 /\ sessions' = sessions \union {s}
      /\ Becomes(t, {u})
      /\ UNCHANGED <<kernel, conn, backlog, calls, arrived, failed, mine, receivers>>
    BY DEF CreateNewSession, appVars
<1>c. PICK h \in Handles \union {NoSocket} : socket' = [socket EXCEPT ![s] = h]
    BY DEF CreateNewSession
<1>d. u \in NetworkTask /\ u.kind = t.kind /\ u.at = "running" /\ u.owner = s
    BY <1>a, <1>b DEF NetworkTask, Points
<1> HIDE DEF u
<1>1. /\ IsFiniteSet(Waiting') /\ Cardinality(Waiting) \in Nat
      /\ Cardinality(Waiting) > 0 /\ Cardinality(Waiting') = Cardinality(Waiting) - 1
    <2>1. IsFiniteSet(Waiting) /\ Cardinality(Waiting) \in Nat /\ t \in Waiting
        BY <1>b, FS_CardinalityType DEF BaseInv, Bounded, Waiting
    <2>2. Waiting' = Waiting \ {t}
        BY <1>b, <1>d DEF Becomes, Waiting
    <2>3. IsFiniteSet(Waiting') /\ Cardinality(Waiting') = Cardinality(Waiting) - 1
        BY <2>1, <2>2, FS_RemoveElement
    <2>4. Cardinality(Waiting') \in Nat
        BY <2>3, FS_CardinalityType
    <2> QED  BY <2>1, <2>3, <2>4
<1>2. /\ calls.listen <= 1 /\ calls.connect <= MaxConnects /\ arrived <= MaxPeers
      /\ s + backlog + Cardinality(Waiting)
            <= 1 + calls.listen + calls.connect + arrived
    BY DEF BaseInv, Bounded
<1>3. Bounded'
    <2>1. (s + 1) + backlog + (Cardinality(Waiting) - 1)
            <= 1 + calls.listen + calls.connect + arrived
        BY <1>a, <1>1, <1>2
    <2> QED  BY <1>b, <1>1, <1>2, <2>1 DEF Bounded
<1>4. s \in IDs
    <2>1. s >= 1 /\ s <= MaxPeers + MaxConnects + 1
        BY <1>a, <1>1, <1>2
    <2> QED  BY <1>a, <2>1 DEF IDs
<1>5. TypeOK'
    <2>1. tasks' \subseteq NetworkTask
        BY <1>a, <1>b, <1>d DEF Becomes, TypeOK
    <2>2. socket' \in [IDs -> HandleOrNone]
        BY <1>a, <1>c DEF TypeOK, HandleOrNone
    <2>3. sessions' \subseteq IDs /\ \A r \in sessions' : r < s + 1
        BY <1>a, <1>b, <1>4, IDFacts DEF TypeOK
    <2> QED  BY <1>a, <1>b, <2>1, <2>2, <2>3 DEF TypeOK
<1>6. OneStarter'
    <2>1. \A v \in tasks' : Starter(v)' = Starter(v)
        BY DEF Starter
    <2>2. \A v \in tasks' : Starter(v) => v = u \/ (v \in tasks /\ v.owner < s)
        BY <1>b DEF Becomes, BaseInv, OneStarter
    <2>3. receivers[s] = 0
        BY <1>a, <1>4 DEF BaseInv, OneStarter
    <2>4. \A v \in tasks' : Starter(v) =>
            v.owner \in IDs /\ v.owner < s + 1 /\ receivers[v.owner] = 0
        <3>1. ASSUME NEW v \in tasks, Starter(v)
              PROVE  v.owner \in IDs /\ v.owner < s + 1 /\ receivers[v.owner] = 0
            <4>1. v.owner \in IDs /\ v.owner < s /\ receivers[v.owner] = 0
                BY <3>1 DEF BaseInv, OneStarter
            <4>2. v.owner \in Nat
                BY <4>1, IDFacts
            <4> QED  BY <1>a, <4>1, <4>2
        <3>2. u.owner \in IDs /\ u.owner < s + 1 /\ receivers[u.owner] = 0
            BY <1>a, <1>4, <1>d, <2>3
        <3> QED  BY <2>2, <3>1, <3>2
    <2>5. \A v, w \in tasks' : Starter(v) /\ Starter(w) /\ v.owner = w.owner => v = w
        BY <1>a, <1>d, <2>2 DEF BaseInv, OneStarter
    <2>6. \A r \in IDs : r >= s + 1 => receivers[r] = 0
        BY <1>a, IDFacts DEF BaseInv, OneStarter
    <2> QED  BY <1>b, <2>1, <2>4, <2>5, <2>6 DEF OneStarter
<1>7. OneReceiver'
    BY <1>b DEF BaseInv, OneReceiver
<1> QED  BY <1>3, <1>5, <1>6, <1>7 DEF BaseInv

\* One more task may wait for a session.
LEMMA AddWaiting ==
    ASSUME IsFiniteSet(Waiting), NEW u, Waiting' \subseteq Waiting \union {u}
    PROVE  /\ IsFiniteSet(Waiting') /\ Cardinality(Waiting') \in Nat
           /\ Cardinality(Waiting) \in Nat
           /\ Cardinality(Waiting') <= Cardinality(Waiting) + 1
<1>1. /\ IsFiniteSet(Waiting \union {u}) /\ Cardinality(Waiting \union {u}) \in Nat
      /\ Cardinality(Waiting) \in Nat
    BY FS_AddElement, FS_CardinalityType
<1>2. Cardinality(Waiting \union {u}) <= Cardinality(Waiting) + 1
    <2>1. CASE u \in Waiting
        <3>1. Waiting \union {u} = Waiting
            BY <2>1
        <3> QED  BY <1>1, <3>1
    <2>2. CASE u \notin Waiting
        BY <1>1, <2>2, FS_AddElement
    <2> QED  BY <2>1, <2>2
<1>3. /\ IsFiniteSet(Waiting') /\ Cardinality(Waiting') <= Cardinality(Waiting \union {u})
      /\ Cardinality(Waiting') \in Nat
    BY <1>1, FS_Subset, FS_CardinalityType
<1> QED  BY <1>1, <1>2, <1>3

\* A step that makes no starter.
LEMMA OtherBase ==
    ASSUME BaseInv, TypeOK', Bounded', UNCHANGED <<lastSessionID, receivers>>,
           \A u \in tasks' : Starter(u) => u \in tasks
    PROVE  BaseInv'
<1>1. \A u \in tasks' : Starter(u)' = Starter(u)
    BY DEF Starter
<1>2. OneStarter'
    BY <1>1 DEF BaseInv, OneStarter
<1>3. OneReceiver'
    BY DEF BaseInv, OneReceiver
<1> QED  BY <1>2, <1>3 DEF BaseInv

\* The terms of Bounded are numbers, and Bounded itself.
LEMMA BoundedFacts ==
    ASSUME BaseInv
    PROVE  /\ lastSessionID \in Nat /\ backlog \in Nat /\ arrived \in Nat
           /\ calls.listen \in Nat /\ calls.connect \in Nat
           /\ calls.listen <= 1 /\ calls.connect <= MaxConnects /\ arrived <= MaxPeers
           /\ IsFiniteSet(Waiting) /\ Cardinality(Waiting) \in Nat
           /\ lastSessionID + backlog + Cardinality(Waiting)
                <= 1 + calls.listen + calls.connect + arrived
<1>1. /\ lastSessionID \in Nat /\ backlog \in Nat /\ arrived \in Nat
      /\ calls.listen \in Nat /\ calls.connect \in Nat
    BY DEF BaseInv, TypeOK
<1>2. Bounded /\ IsFiniteSet(Waiting)
    BY DEF BaseInv, Bounded
<1>3. Cardinality(Waiting) \in Nat
    BY <1>2, FS_CardinalityType
<1> QED  BY <1>1, <1>2, <1>3 DEF Bounded

\* NetworkTaskAcceptIO::Complete for a peer that connected: the peer is no longer
\* in the backlog and has a task that waits to create its session.
LEMMA AcceptCompleteBase ==
    ASSUME BaseInv, NEW t \in tasks, AcceptComplete(t) PROVE BaseInv'
<1> DEFINE n == Task("NewUser", 0, t.socket)
<1>a. TypeOK /\ t \in NetworkTask /\ conn \in Seq(ConnStates) /\ failed \in BOOLEAN
    BY DEF BaseInv, TypeOK
<1>b. /\ UNCHANGED <<lastSessionID, sessions, socket, kernel, calls, arrived, mine,
                     receivers>>
      /\ t.kind = "AcceptIO" /\ backlog > 0 /\ backlog' = backlog - 1
      /\ conn' = [conn EXCEPT ![SocketAt(t.socket)] = "connected"]
    BY DEF AcceptComplete
<1>c. backlog \in Nat /\ backlog' \in Nat /\ backlog' <= backlog
    BY <1>b, BoundedFacts
<1>d. conn' \in Seq(ConnStates) /\ Len(conn') = Len(conn)
    <2>1. "connected" \in ConnStates
        BY DEF ConnStates
    <2> QED  BY <1>a, <1>b, <2>1, StoreFacts
<1>e. Again(t) \in NetworkTask /\ Again(t).kind = "AcceptIO"
    BY <1>a, <1>b DEF Again, NetworkTask, Points, HandleOrNone
<1>1. CASE Becomes(t, {Again(t), n}) /\ UNCHANGED failed
    <2>1. n \in NetworkTask /\ n.kind = "NewUser" /\ n.at = "posted"
        BY <1>a DEF Task, NetworkTask, Kinds, Points
    <2> HIDE DEF n
    <2>2. TypeOK'
        <3>1. tasks' \subseteq NetworkTask
            BY <1>a, <1>e, <1>1, <2>1 DEF Becomes, TypeOK
        <3>2. failed' \in BOOLEAN
            BY <1>a, <1>1
        <3> QED  BY <1>a, <1>b, <1>c, <1>d, <3>1, <3>2 DEF TypeOK
    <2>3. Bounded'
        <3>1. Waiting' \subseteq Waiting \union {n}
            BY <1>e, <1>1 DEF Becomes, Waiting
        <3>2. /\ IsFiniteSet(Waiting') /\ Cardinality(Waiting') \in Nat
              /\ Cardinality(Waiting') <= Cardinality(Waiting) + 1
            BY <3>1, BoundedFacts, AddWaiting
        <3>3. lastSessionID + (backlog - 1) + Cardinality(Waiting')
                <= 1 + calls.listen + calls.connect + arrived
            BY <1>b, <3>2, BoundedFacts
        <3> QED  BY <1>b, <3>2, <3>3, BoundedFacts DEF Bounded
    <2>4. \A u \in tasks' : Starter(u) => u \in tasks
        BY <1>e, <1>1, <2>1 DEF Becomes, Starter
    <2> QED  BY <1>b, <2>2, <2>3, <2>4, OtherBase
<1>2. CASE Becomes(t, {Again(t)}) /\ Fails
    <2>1. Quiet(t, {Again(t)})
        BY <1>e, QuietOne DEF Starter
    <2>2. QuietStep(t)
        BY <1>b, <1>c, <1>2, <2>1, QuietIntro
    <2>3. tasks' \subseteq NetworkTask /\ failed' \in BOOLEAN
        BY <1>a, <1>2, <2>1, BecomesType DEF Fails
    <2>4. TypeOK'
        BY <1>a, <1>b, <1>c, <1>d, <2>3 DEF TypeOK
    <2> QED  BY <2>2, <2>4, QuietInv
<1> QED  BY <1>1, <1>2 DEF AcceptComplete

\* What the workers do with a task preserves BaseInv.
LEMMA TaskBase == ASSUME BaseInv, NEW t \in tasks, TaskStep(t) PROVE BaseInv'
<1>1. CASE ReceiveStart(t)
    <2>1. /\ t.kind \in {"ReceiveIO", "Send"} /\ StartIO(t)
          /\ UNCHANGED <<lastSessionID, sessions, socket, kernel, conn, backlog, calls,
                         arrived, mine, receivers>>
        BY <1>1 DEF ReceiveStart
    <2> QED  BY <2>1, StartIOBase
<1>2. CASE SendStart(t)
    <2>1. /\ t.kind \in {"ReceiveIO", "Send"} /\ StartIO(t)
          /\ UNCHANGED <<lastSessionID, sessions, socket, kernel, conn, backlog, calls,
                         arrived, mine, receivers>>
        BY <1>2 DEF SendStart
    <2> QED  BY <2>1, StartIOBase
<1>3. CASE CreateNewSession(t) \/ SessionListen(t) \/ AcceptStart(t) \/ OnAccept(t)
    BY <1>3, CreateNewSessionBase, SessionListenBase, AcceptStartBase, OnAcceptBase
<1>4. CASE AcceptComplete(t) \/ AcceptFailed(t) \/ SessionConnect(t) \/ ConnectStart(t)
    BY <1>4, AcceptCompleteBase, AcceptFailedBase, SessionConnectBase, ConnectStartBase
<1>5. CASE ConnectEx(t) \/ ConnectComplete(t) \/ ConnectFailed(t)
    BY <1>5, ConnectExBase, ConnectCompleteBase, ConnectFailedBase
<1>6. CASE ReceiveComplete(t) \/ ReceiveFailed(t) \/ SendComplete(t)
    BY <1>6, ReceiveCompleteBase, ReceiveFailedBase, SendCompleteBase
<1> QED  BY <1>1, <1>2, <1>3, <1>4, <1>5, <1>6 DEF TaskStep

\* A peer connects: it will have a session.
LEMMA PeerArrivesBase == ASSUME BaseInv, PeerArrives PROVE BaseInv'
<1>1. /\ arrived < MaxPeers /\ arrived' = arrived + 1 /\ backlog' = backlog + 1
      /\ UNCHANGED <<lastSessionID, sessions, socket, kernel, conn, tasks, calls,
                     failed, mine, receivers>>
    BY DEF PeerArrives
<1>2. TypeOK'
    <2>1. TypeOK /\ arrived' \in Nat /\ backlog' \in Nat
        BY <1>1, BoundedFacts DEF BaseInv
    <2> QED  BY <1>1, <2>1 DEF TypeOK
<1>3. Bounded'
    <2>1. Waiting' = Waiting
        BY <1>1 DEF Waiting
    <2>2. /\ arrived + 1 <= MaxPeers
          /\ lastSessionID + (backlog + 1) + Cardinality(Waiting)
                <= 1 + calls.listen + calls.connect + (arrived + 1)
        BY <1>1, BoundedFacts
    <2> QED  BY <1>1, <2>1, <2>2, BoundedFacts DEF Bounded
<1> QED  BY <1>1, <1>2, <1>3, OtherBase

\* A step that leaves the tasks alone.
LEMMA SameTasksBase ==
    ASSUME BaseInv, TypeOK',
           UNCHANGED <<lastSessionID, tasks, backlog, calls, arrived, receivers>>
    PROVE  BaseInv'
<1>1. Waiting' = Waiting
    BY DEF Waiting
<1>2. Bounded'
    BY <1>1 DEF BaseInv, Bounded
<1> QED  BY <1>2, OtherBase

\* The other end of a connection leaves.
LEMMA PeerLeavesBase == ASSUME BaseInv, NEW n, PeerLeaves(n) PROVE BaseInv'
<1>1. /\ conn' = [conn EXCEPT ![n] = "gone"]
      /\ UNCHANGED <<lastSessionID, sessions, socket, kernel, tasks, backlog, calls,
                     arrived, failed, mine, receivers>>
    BY DEF PeerLeaves, appVars
<1>2. TypeOK /\ conn \in Seq(ConnStates) /\ "gone" \in ConnStates
    BY DEF BaseInv, TypeOK, ConnStates
<1>3. conn' \in Seq(ConnStates) /\ Len(conn') = Len(conn)
    BY <1>1, <1>2, StoreFacts
<1>4. TypeOK'
    BY <1>1, <1>2, <1>3 DEF TypeOK
<1> QED  BY <1>1, <1>4, SameTasksBase

\* NetworkServer::Listen and Connect: a session will be created for the call.
LEMMA CallBase ==
    ASSUME BaseInv, NEW u \in NetworkTask, u.at = "posted", u.kind # "ConnectIO",
           Post(u), calls' \in [listen : Nat, connect : Nat, send : Nat],
           calls'.listen <= 1, calls'.connect <= MaxConnects,
           u \in Waiting' => calls'.listen + calls'.connect
                                = calls.listen + calls.connect + 1,
           u \notin Waiting' => calls'.listen + calls'.connect
                                = calls.listen + calls.connect
    PROVE  BaseInv'
<1>1. /\ tasks' = tasks \union {u}
      /\ UNCHANGED <<lastSessionID, sessions, socket, kernel, conn, backlog, arrived,
                     failed, mine, receivers>>
    BY DEF Post
<1>2. TypeOK'
    BY <1>1 DEF BaseInv, TypeOK
<1>3. Bounded'
    <2>1. calls'.listen \in Nat /\ calls'.connect \in Nat
        OBVIOUS
    <2>2. Waiting' \subseteq Waiting \union {u}
        BY <1>1 DEF Waiting
    <2>3. /\ IsFiniteSet(Waiting') /\ Cardinality(Waiting') \in Nat
          /\ Cardinality(Waiting') <= Cardinality(Waiting) + 1
        BY <2>2, BoundedFacts, AddWaiting
    <2>4. CASE u \in Waiting'
        <3>1. calls'.listen + calls'.connect = calls.listen + calls.connect + 1
            BY <2>4
        <3>2. lastSessionID + backlog + Cardinality(Waiting')
                <= 1 + calls'.listen + calls'.connect + arrived
            BY <2>1, <2>3, <3>1, BoundedFacts
        <3> QED  BY <1>1, <2>3, <3>2, BoundedFacts DEF Bounded
    <2>5. CASE u \notin Waiting'
        <3>1. calls'.listen + calls'.connect = calls.listen + calls.connect
            BY <2>5
        <3>2. Waiting' \subseteq Waiting
            BY <2>2, <2>5
        <3>3. Cardinality(Waiting') <= Cardinality(Waiting)
            BY <3>2, FS_Subset, BoundedFacts
        <3>4. lastSessionID + backlog + Cardinality(Waiting')
                <= 1 + calls'.listen + calls'.connect + arrived
            BY <2>1, <2>3, <3>1, <3>3, BoundedFacts
        <3> QED  BY <1>1, <2>3, <3>4, BoundedFacts DEF Bounded
    <2> QED  BY <2>4, <2>5
<1>4. \A v \in tasks' : Starter(v) => v \in tasks
    BY <1>1 DEF Starter
<1> QED  BY <1>1, <1>2, <1>3, <1>4, OtherBase

\* NetworkServer::Listen
LEMMA ListenBase == ASSUME BaseInv, Listen PROVE BaseInv'
<1> DEFINE u == Task("Listen", 0, NoSocket)
<1>1. /\ u \in NetworkTask /\ u.at = "posted" /\ u.kind = "Listen"
    BY DEF Task, NetworkTask, Kinds, Points, HandleOrNone
<1>2. calls \in [listen : Nat, connect : Nat, send : Nat]
    BY DEF BaseInv, TypeOK
<1>3. Post(u) /\ calls.listen < 1 /\ calls' = [calls EXCEPT !.listen = @ + 1]
    BY DEF Listen, Call
<1> HIDE DEF u
<1>4. u \in Waiting'
    BY <1>1, <1>3 DEF Post, Waiting
<1>5. /\ calls' \in [listen : Nat, connect : Nat, send : Nat]
      /\ calls'.listen = calls.listen + 1 /\ calls'.connect = calls.connect
    BY <1>2, <1>3
<1>6. calls'.listen <= 1 /\ calls'.connect <= MaxConnects
    BY <1>3, <1>5, BoundedFacts
<1>7. calls'.listen + calls'.connect = calls.listen + calls.connect + 1
    BY <1>5, BoundedFacts
<1> QED  BY <1>1, <1>3, <1>4, <1>5, <1>6, <1>7, CallBase

\* NetworkServer::Connect
LEMMA ConnectBase == ASSUME BaseInv, Connect PROVE BaseInv'
<1> DEFINE u == [Task("Connect", 0, NoSocket) EXCEPT !.on = calls.connect]
<1>1. /\ u \in NetworkTask /\ u.at = "posted" /\ u.kind = "Connect"
    BY BoundedFacts DEF Task, NetworkTask, Kinds, Points, HandleOrNone
<1>2. calls \in [listen : Nat, connect : Nat, send : Nat]
    BY DEF BaseInv, TypeOK
<1>3. Post(u) /\ calls.connect < MaxConnects /\ calls' = [calls EXCEPT !.connect = @ + 1]
    BY DEF Connect, Call
<1> HIDE DEF u
<1>4. u \in Waiting'
    BY <1>1, <1>3 DEF Post, Waiting
<1>5. /\ calls' \in [listen : Nat, connect : Nat, send : Nat]
      /\ calls'.listen = calls.listen /\ calls'.connect = calls.connect + 1
    BY <1>2, <1>3
<1>6. calls'.listen <= 1 /\ calls'.connect <= MaxConnects
    BY <1>3, <1>5, BoundedFacts
<1>7. calls'.listen + calls'.connect = calls.listen + calls.connect + 1
    BY <1>5, BoundedFacts
<1> QED  BY <1>1, <1>3, <1>4, <1>5, <1>6, <1>7, CallBase

\* NetworkSession::Send
LEMMA SendBase == ASSUME BaseInv, NEW s \in Nat, NEW n, Send(s, n) PROVE BaseInv'
<1> DEFINE u == Task("Send", s, NoSocket)
<1>1. /\ u \in NetworkTask /\ u.at = "posted" /\ u.kind = "Send"
    BY DEF Task, NetworkTask, Kinds, Points, HandleOrNone
<1>2. calls \in [listen : Nat, connect : Nat, send : Nat]
    BY DEF BaseInv, TypeOK
<1>3. Post(u) /\ calls' = [calls EXCEPT !.send = @ + 1]
    BY DEF Send, Call
<1> HIDE DEF u
<1>4. u \notin Waiting'
    BY <1>1 DEF Waiting
<1>5. /\ calls' \in [listen : Nat, connect : Nat, send : Nat]
      /\ calls'.listen = calls.listen /\ calls'.connect = calls.connect
    BY <1>2, <1>3
<1> QED  BY <1>1, <1>3, <1>4, <1>5, BoundedFacts, CallBase


\* Nothing that happens in a program that only listens breaks BaseInv.
LEMMA BaseStep == BaseInv /\ [Next]_vars => BaseInv'
<1> SUFFICES ASSUME BaseInv, [Next]_vars PROVE BaseInv'
    OBVIOUS
<1>1. CASE UNCHANGED vars
    <2>1. UNCHANGED <<lastSessionID, sessions, socket, kernel, conn, tasks, backlog,
                      calls, arrived, failed, mine, receivers>>
        BY <1>1 DEF vars, appVars
    <2>2. TypeOK'
        BY <2>1 DEF BaseInv, TypeOK
    <2> QED  BY <2>1, <2>2, SameTasksBase
<1>2. CASE Next
    BY <1>2, PeerArrivesBase, PeerLeavesBase, ListenBase, TaskBase DEF Next
<1> QED  BY <1>1, <1>2

\* A session never gets a second receive task, in a program that listens.
THEOREM ReceivesOnce == Spec => []OneReceiver
<1>1. Init => BaseInv
    BY BaseInit
<1>2. BaseInv /\ [Next]_vars => BaseInv'
    BY BaseStep
<1>3. BaseInv => OneReceiver
    BY DEF BaseInv
<1> QED  BY <1>1, <1>2, <1>3, PTL DEF Spec

-----------------------------------------------------------------------------
(***************************************************************************)
(* BotInv: the bots on top of BaseInv.                                     *)
(***************************************************************************)

Bot == [state : {"Connecting", "Connected", "Disconnected"}, sessionID : Nat,
        packetsSent : Nat]

\* The bots take the numbers of sessions in order, never one that the workers
\* have not created, and only a connected bot has one.
Numbers ==
    /\ bots \in [Bots -> Bot] /\ lastAssignedID \in Nat
    /\ lastAssignedID < lastSessionID
    /\ \A b \in Bots : bots[b].sessionID <= lastAssignedID
    /\ \A b \in Bots : bots[b].state # "Connected" => bots[b].sessionID = 0

BotInv == BaseInv /\ Numbers /\ SessionsHeld

\* What the session map and the counter may do while the bots stay as they are.
LEMMA NumbersKept ==
    ASSUME BotInv, UNCHANGED <<bots, lastAssignedID>>,
           lastSessionID' = lastSessionID \/ lastSessionID' = lastSessionID + 1,
           sessions' \subseteq sessions \union {lastSessionID}
    PROVE  Numbers' /\ SessionsHeld'
<1>1. lastSessionID \in Nat /\ lastAssignedID \in Nat
    BY DEF BotInv, BaseInv, TypeOK, Numbers
<1>2. lastAssignedID < lastSessionID
    BY DEF BotInv, Numbers
<1>3. lastAssignedID < lastSessionID' /\ ~(lastSessionID <= lastAssignedID)
    BY <1>1, <1>2
<1>4. Numbers'
    BY <1>3 DEF BotInv, Numbers
<1>5. SessionsHeld'
    BY <1>3 DEF BotInv, SessionsHeld
<1> QED  BY <1>4, <1>5

\* The workers register only the session with the next number.
LEMMA TaskSessions ==
    ASSUME TypeOK, NEW t \in tasks, TaskStep(t)
    PROVE  /\ lastSessionID' = lastSessionID \/ lastSessionID' = lastSessionID + 1
           /\ sessions' \subseteq sessions \union {lastSessionID}
<1>1. CASE CreateNewSession(t)
    BY <1>1 DEF CreateNewSession
<1>2. CASE ReceiveFailed(t)
    BY <1>2, RemoveSessionFacts DEF ReceiveFailed, DropSession
<1>3. CASE SessionListen(t) \/ AcceptStart(t) \/ AcceptComplete(t) \/ AcceptFailed(t)
    BY <1>3 DEF SessionListen, AcceptStart, AcceptComplete, AcceptFailed
<1>4. CASE OnAccept(t) \/ SessionConnect(t) \/ ConnectStart(t) \/ ConnectEx(t)
    BY <1>4 DEF OnAccept, SessionConnect, ConnectStart, ConnectEx
<1>5. CASE ConnectComplete(t) \/ ConnectFailed(t) \/ ReceiveStart(t)
    BY <1>5 DEF ConnectComplete, ConnectFailed, ReceiveStart
<1>6. CASE ReceiveComplete(t) \/ SendStart(t) \/ SendComplete(t)
    BY <1>6 DEF ReceiveComplete, SendStart, SendComplete
<1> QED  BY <1>1, <1>2, <1>3, <1>4, <1>5, <1>6 DEF TaskStep

\* Steps of a program in which vars do not change.
LEMMA BaseStutter == ASSUME BaseInv, UNCHANGED vars PROVE BaseInv'
BY BaseStep

\* The initial state.
LEMMA BotInvInit == BotInit => BotInv
<1> SUFFICES ASSUME BotInit PROVE BotInv
    OBVIOUS
<1>1. BaseInv
    BY BaseInit DEF BotInit
<1>2. lastSessionID = 1 /\ sessions = {} /\ lastAssignedID = 0
    BY DEF BotInit, Init
<1>3. bots = [b \in Bots |-> [state |-> "Connecting", sessionID |-> 0, packetsSent |-> 0]]
    BY DEF BotInit
<1>4. Numbers
    BY <1>2, <1>3 DEF Numbers, Bot
<1>5. SessionsHeld
    BY <1>2, <1>3 DEF SessionsHeld
<1> QED  BY <1>1, <1>4, <1>5 DEF BotInv

\* NetworkServer::Connect leaves the sessions alone.
LEMMA ConnectSessions == ASSUME Connect PROVE UNCHANGED <<lastSessionID, sessions>>
BY DEF Connect, Post

\* TryAssignSessionIDs: the next number goes to one bot only, and no number below
\* it is passed over.
LEMMA TryAssignInv ==
    ASSUME BotInv, NEW b \in Bots, TryAssignSessionID(b) PROVE BotInv'
<1>1. BaseInv' /\ UNCHANGED <<lastSessionID, sessions>>
    BY BaseStutter DEF BotInv, TryAssignSessionID, vars
<1>2. CASE UNCHANGED <<bots, lastAssignedID>>
    BY <1>1, <1>2, NumbersKept DEF BotInv
<1>3. CASE /\ bots[b].state = "Connecting" /\ lastAssignedID + 1 \in sessions
           /\ bots' = [bots EXCEPT ![b].state = "Connected",
                                   ![b].sessionID = lastAssignedID + 1]
           /\ lastAssignedID' = Assigned
    <2>1. /\ lastAssignedID \in Nat /\ lastSessionID \in Nat /\ bots \in [Bots -> Bot]
          /\ bots[b].sessionID = 0
          /\ \A c \in Bots : bots[c].sessionID <= lastAssignedID
        BY <1>3 DEF BotInv, BaseInv, TypeOK, Numbers
    <2>2. lastAssignedID + 1 < lastSessionID /\ lastAssignedID' = lastAssignedID + 1
        BY <1>3 DEF BotInv, BaseInv, TypeOK, Assigned
    <2>3. /\ bots' \in [Bots -> Bot]
          /\ bots'[b].sessionID = lastAssignedID + 1 /\ bots'[b].state = "Connected"
          /\ \A c \in Bots : c # b => bots'[c] = bots[c]
        BY <1>3, <2>1 DEF Bot
    <2>4. \A c \in Bots : bots[c].sessionID \in Nat
        BY <2>1 DEF Bot
    <2>5. \A c \in Bots : bots'[c].sessionID <= lastAssignedID + 1
        BY <2>1, <2>3, <2>4
    <2>6. \A c \in Bots : c # b => bots'[c].sessionID # lastAssignedID + 1
        BY <2>1, <2>3, <2>4
    <2>7. Numbers'
        <3>1. \A c \in Bots : bots'[c].state # "Connected" => bots'[c].sessionID = 0
            BY <2>3 DEF BotInv, Numbers
        <3> QED  BY <1>1, <2>1, <2>2, <2>3, <2>5, <3>1 DEF Numbers
    <2>8. SessionsHeld'
        <3>1. ASSUME NEW s \in sessions, s <= lastAssignedID + 1
              PROVE  \E c \in Bots : bots'[c].sessionID = s
            <4>1. CASE s = lastAssignedID + 1
                BY <2>3, <4>1
            <4>2. CASE s # lastAssignedID + 1
                <5>1. s \in Nat
                    BY IDFacts DEF BotInv, BaseInv, TypeOK
                <5>2. s # 0 /\ s <= lastAssignedID
                    BY <2>1, <3>1, <4>2, <5>1, IDFacts DEF BotInv, BaseInv, TypeOK
                <5>3. PICK c \in Bots : bots[c].sessionID = s
                    BY <5>2 DEF BotInv, SessionsHeld
                <5>4. c # b
                    BY <2>1, <5>2, <5>3
                <5> QED  BY <2>3, <5>3, <5>4
            <4> QED  BY <4>1, <4>2
        <3>2. ASSUME NEW c \in Bots, NEW d \in Bots, c # d
              PROVE  bots'[c].sessionID = 0 \/ bots'[c].sessionID # bots'[d].sessionID
            <4>1. CASE c = b
                BY <2>3, <2>6, <3>2, <4>1
            <4>2. CASE d = b
                BY <2>3, <2>6, <3>2, <4>2
            <4>3. CASE c # b /\ d # b
                BY <2>3, <3>2, <4>3 DEF BotInv, SessionsHeld
            <4> QED  BY <4>1, <4>2, <4>3
        <3> QED  BY <1>1, <2>2, <3>1, <3>2 DEF SessionsHeld
    <2> QED  BY <1>1, <2>7, <2>8 DEF BotInv
<1> QED  BY <1>2, <1>3 DEF TryAssignSessionID

\* A bot that counts packets keeps its session.
LEMMA CountingInv ==
    ASSUME BotInv, NEW b \in Bots, BaseInv', UNCHANGED <<lastAssignedID, lastSessionID>>,
           sessions' = sessions, NEW r \in Bot, bots' = [bots EXCEPT ![b] = r],
           r.sessionID = bots[b].sessionID,
           r.state = bots[b].state \/ r.sessionID = 0
    PROVE  BotInv'
<1>1. bots \in [Bots -> Bot]
    BY DEF BotInv, Numbers
<1>2. /\ bots' \in [Bots -> Bot] /\ bots'[b] = r
      /\ \A c \in Bots : c # b => bots'[c] = bots[c]
      /\ \A c \in Bots : bots'[c].sessionID = bots[c].sessionID
    BY <1>1
<1>3. Numbers'
    BY <1>2 DEF BotInv, Numbers
<1>4. SessionsHeld'
    BY <1>2 DEF BotInv, SessionsHeld
<1> QED  BY <1>3, <1>4 DEF BotInv

\* SendPacket
LEMMA SendPacketInv == ASSUME BotInv, NEW b \in Bots, SendPacket(b) PROVE BotInv'
<1>1. bots \in [Bots -> Bot] /\ lastAssignedID' = lastAssignedID
    BY DEF BotInv, Numbers, SendPacket
<1>2. CASE bots[b].sessionID \notin sessions /\ UNCHANGED <<bots, vars>>
    <2>1. BaseInv' /\ UNCHANGED <<lastSessionID, sessions, bots>>
        BY <1>2, BaseStutter DEF BotInv, vars
    <2> QED  BY <1>1, <2>1, NumbersKept DEF BotInv
<1>3. CASE /\ Send(bots[b].sessionID, MaxSends)
           /\ bots' = [bots EXCEPT ![b].packetsSent = @ + 1]
    <2>1. bots[b].sessionID \in Nat
        BY <1>1 DEF Bot
    <2>2. BaseInv'
        BY <1>3, <2>1, SendBase DEF BotInv
    <2>3. UNCHANGED <<lastSessionID, sessions>>
        BY <1>3 DEF Send, Post
    <2> DEFINE r == [bots[b] EXCEPT !.packetsSent = @ + 1]
    <2>4. r \in Bot /\ r.sessionID = bots[b].sessionID /\ r.state = bots[b].state
        BY <1>1 DEF Bot
    <2>5. bots' = [bots EXCEPT ![b] = r]
        BY <1>3
    <2> HIDE DEF r
    <2> QED  BY <1>1, <2>2, <2>3, <2>4, <2>5, CountingInv
<1> QED  BY <1>2, <1>3 DEF SendPacket

\* EndCycle: RemoveSession takes the session away from the bot and from the map.
LEMMA EndCycleInv == ASSUME BotInv, NEW b \in Bots, EndCycle(b) PROVE BotInv'
<1>1. bots \in [Bots -> Bot] /\ lastAssignedID' = lastAssignedID /\ lastAssignedID \in Nat
    BY DEF BotInv, Numbers, EndCycle
<1>2. CASE UNCHANGED <<bots, vars>>
    <2>1. BaseInv' /\ UNCHANGED <<lastSessionID, sessions, bots>>
        BY <1>2, BaseStutter DEF BotInv, vars
    <2> QED  BY <1>1, <2>1, NumbersKept DEF BotInv
<1>3. CASE bots' = [bots EXCEPT ![b].packetsSent = 0] /\ UNCHANGED vars
    <2>1. BaseInv' /\ UNCHANGED <<lastSessionID, sessions>>
        BY <1>3, BaseStutter DEF BotInv, vars
    <2> DEFINE r == [bots[b] EXCEPT !.packetsSent = 0]
    <2>2. r \in Bot /\ r.sessionID = bots[b].sessionID /\ r.state = bots[b].state
        BY <1>1 DEF Bot
    <2>3. bots' = [bots EXCEPT ![b] = r]
        BY <1>3
    <2> HIDE DEF r
    <2> QED  BY <1>1, <2>1, <2>2, <2>3, CountingInv
<1>4. CASE /\ RemoveSession(bots[b].sessionID)
           /\ bots' = [bots EXCEPT ![b].state = "Disconnected", ![b].sessionID = 0]
           /\ UNCHANGED <<lastSessionID, socket, tasks, appVars, mine, receivers>>
    <2>1. TypeOK
        BY DEF BotInv, BaseInv
    <2>2. /\ conn' \in Seq(ConnStates) /\ Len(conn') = Len(conn)
          /\ kernel' \in [Handles -> 0..Len(conn')]
          /\ sessions' = sessions \ {bots[b].sessionID}
        BY <1>4, <2>1, RemoveSessionFacts
    <2>3. UNCHANGED <<lastSessionID, socket, tasks, backlog, calls, arrived, failed, mine,
                      receivers>>
        BY <1>4 DEF appVars
    <2>4. TypeOK'
        BY <2>1, <2>2, <2>3 DEF TypeOK
    <2>5. BaseInv'
        BY <2>3, <2>4, SameTasksBase DEF BotInv
    <2>6. /\ bots' \in [Bots -> Bot]
          /\ bots'[b].sessionID = 0 /\ bots'[b].state = "Disconnected"
          /\ \A c \in Bots : c # b => bots'[c] = bots[c]
        BY <1>1, <1>4 DEF Bot
    <2>7. Numbers'
        <3>1. \A c \in Bots : bots'[c].sessionID <= lastAssignedID
            BY <1>1, <2>6 DEF BotInv, Numbers
        <3>2. \A c \in Bots : bots'[c].state # "Connected" => bots'[c].sessionID = 0
            BY <2>6 DEF BotInv, Numbers
        <3> QED  BY <1>1, <2>3, <2>6, <3>1, <3>2 DEF BotInv, Numbers
    <2>8. SessionsHeld'
        <3>1. ASSUME NEW s \in sessions', s <= lastAssignedID
              PROVE  \E c \in Bots : bots'[c].sessionID = s
            <4>1. s \in sessions /\ s # bots[b].sessionID
                BY <2>2
            <4>2. PICK c \in Bots : bots[c].sessionID = s
                BY <3>1, <4>1 DEF BotInv, SessionsHeld
            <4> QED  BY <2>6, <4>1, <4>2
        <3>2. \A c, d \in Bots :
                c # d => bots'[c].sessionID = 0 \/ bots'[c].sessionID # bots'[d].sessionID
            BY <2>6 DEF BotInv, SessionsHeld
        <3> QED  BY <1>1, <3>1, <3>2 DEF SessionsHeld
    <2> QED  BY <2>5, <2>7, <2>8 DEF BotInv
<1> QED  BY <1>2, <1>3, <1>4 DEF EndCycle

\* Start and ReconnectBot: the bot has no session.
LEMMA ReconnectInv ==
    ASSUME BotInv, NEW b \in Bots, StartBot(b) \/ ReconnectBot(b) PROVE BotInv'
<1>1. Connect /\ lastAssignedID' = lastAssignedID /\ bots \in [Bots -> Bot]
    BY DEF StartBot, ReconnectBot, BotInv, Numbers
<1>2. BaseInv' /\ UNCHANGED <<lastSessionID, sessions>>
    BY <1>1, ConnectBase, ConnectSessions DEF BotInv
<1>3. CASE bots' = bots
    BY <1>1, <1>2, <1>3, NumbersKept DEF BotInv
<1>4. CASE /\ bots[b].state = "Disconnected"
           /\ bots' = [bots EXCEPT ![b].state = "Connecting", ![b].packetsSent = 0]
    <2> DEFINE r == [bots[b] EXCEPT !.state = "Connecting", !.packetsSent = 0]
    <2>1. r \in Bot /\ r.sessionID = bots[b].sessionID
        BY <1>1 DEF Bot
    <2>2. bots[b].sessionID = 0
        BY <1>4 DEF BotInv, Numbers
    <2>3. bots' = [bots EXCEPT ![b] = r]
        BY <1>4
    <2> HIDE DEF r
    <2> QED  BY <1>1, <1>2, <2>1, <2>2, <2>3, CountingInv
<1> QED  BY <1>3, <1>4 DEF StartBot, ReconnectBot

\* The bots, the workers and the peers preserve BotInv.
LEMMA BotInvStep == BotInv /\ [BotNext]_<<vars, botVars>> => BotInv'
<1> SUFFICES ASSUME BotInv, [BotNext]_<<vars, botVars>> PROVE BotInv'
    OBVIOUS
<1>1. ASSUME UNCHANGED <<bots, lastAssignedID, vars>> PROVE BotInv'
    <2>1. BaseInv' /\ UNCHANGED <<lastSessionID, sessions>>
        BY <1>1, BaseStutter DEF BotInv, vars
    <2> QED  BY <1>1, <2>1, NumbersKept DEF BotInv
<1>2. CASE MainLoop
    <2>1. PICK b \in Bots : \/ StartBot(b) \/ TryAssignSessionID(b) \/ SendPacket(b)
                            \/ EndCycle(b) \/ ReconnectBot(b) \/ Wait(b)
        BY <1>2 DEF MainLoop
    <2>2. CASE Wait(b)
        BY <1>1, <2>2 DEF Wait
    <2> QED  BY <2>1, <2>2, TryAssignInv, SendPacketInv, EndCycleInv, ReconnectInv
<1>3. CASE Stop
    BY <1>1, <1>3 DEF Stop
<1>4. CASE Workers
    <2>1. PICK t \in tasks : TaskStep(t)
        BY <1>4 DEF Workers
    <2>2. BaseInv'
        BY <2>1, TaskBase DEF BotInv
    <2>3. /\ lastSessionID' = lastSessionID \/ lastSessionID' = lastSessionID + 1
          /\ sessions' \subseteq sessions \union {lastSessionID}
        BY <2>1, TaskSessions DEF BotInv, BaseInv
    <2>4. UNCHANGED <<bots, lastAssignedID>>
        BY <1>4 DEF Workers, botVars
    <2> QED  BY <2>2, <2>3, <2>4, NumbersKept DEF BotInv
<1>5. CASE Peers
    <2>1. PICK n \in 1..Len(conn) : PeerLeaves(n)
        BY <1>5 DEF Peers
    <2>2. BaseInv' /\ UNCHANGED <<lastSessionID, sessions, bots, lastAssignedID>>
        BY <1>5, <2>1, PeerLeavesBase DEF BotInv, PeerLeaves, Peers, botVars
    <2> QED  BY <2>2, NumbersKept DEF BotInv
<1>6. CASE UNCHANGED <<vars, botVars>>
    BY <1>1, <1>6 DEF botVars
<1> QED  BY <1>2, <1>3, <1>4, <1>5, <1>6 DEF BotNext

\* Bots do not share sessions and leave none behind.
THEOREM BotsHoldSessions == BotSpec => []SessionsHeld
<1>1. BotInit => BotInv
    BY BotInvInit
<1>2. BotInv /\ [BotNext]_<<vars, botVars>> => BotInv'
    BY BotInvStep
<1>3. BotInv => SessionsHeld
    BY DEF BotInv
<1> QED  BY <1>1, <1>2, <1>3, PTL DEF BotSpec

\* A session never gets a second receive task, in a program that connects.
THEOREM BotsReceiveOnce == BotSpec => []OneReceiver
<1>1. BotInit => BotInv
    BY BotInvInit
<1>2. BotInv /\ [BotNext]_<<vars, botVars>> => BotInv'
    BY BotInvStep
<1>3. BotInv => OneReceiver
    BY DEF BotInv, BaseInv
<1> QED  BY <1>1, <1>2, <1>3, PTL DEF BotSpec

-----------------------------------------------------------------------------
(***************************************************************************)
(* ServerInv: the sockets of a program that only listens.                  *)
(***************************************************************************)

\* The tables the sockets are in, and a new socket's number is in none of them.
LEMMA TableFacts ==
    ASSUME BaseInv
    PROVE  /\ kernel \in [Handles -> Nat] /\ mine \in [IDs -> Nat]
           /\ socket \in [IDs -> HandleOrNone] /\ sessions \subseteq IDs
           /\ \A h \in Handles : kernel[h] # NewSocket
           /\ \A s \in IDs : mine[s] # NewSocket
           /\ NewSocket # 0 /\ NewSocket \in Nat
<1>1. Len(conn) \in Nat /\ NewSocket = Len(conn) + 1
    BY AppendFacts DEF BaseInv, TypeOK, NewSocket
<1>2. kernel \in [Handles -> 0..Len(conn)] /\ mine \in [IDs -> 0..Len(conn)]
    BY DEF BaseInv, TypeOK
<1>3. 0..Len(conn) \subseteq Nat /\ NewSocket \notin 0..Len(conn)
    BY <1>1
<1> QED  BY <1>1, <1>2, <1>3 DEF BaseInv, TypeOK

\* A step that leaves the sockets alone and neither makes a task that matters to
\* them nor ends one, unless a call failed.
LEMMA TasksServer ==
    ASSUME ServerInv, BaseInv', UNCHANGED <<lastSessionID, sessions, socket, kernel, mine>>,
           \A u \in tasks' : u.kind \notin {"Connect", "ConnectIO"},
           \A u \in tasks' : Holding(u) \/ Starter(u) => u \in tasks,
           \A u \in tasks' : u.kind = "AcceptIO" => u \in tasks \/ u.socket = NoSocket,
           \A u \in tasks' : u.kind = "ReceiveIO" => u.owner \in IDs /\ mine[u.owner] # 0,
           ~failed' => ~failed,
           ~failed' => \A u \in tasks : u.kind \in {"AcceptIO", "NewUser"} => u \in tasks'
    PROVE  ServerInv'
<1>1. \A u \in tasks' : Holding(u)' = Holding(u) /\ Starter(u)' = Starter(u)
    BY DEF Holding, Starter
<1>2. OneHolder'
    BY <1>1 DEF ServerInv, OneHolder
<1>3. SocketOnce'
    BY <1>1 DEF ServerInv, SocketOnce
<1>4. SocketsOwned'
    BY DEF ServerInv, SocketsOwned
<1> QED  BY <1>2, <1>3, <1>4 DEF ServerInv

\* NetworkServer::CreateNewSession: the session has no socket yet.
LEMMA CreateNewSessionServer ==
    ASSUME ServerInv, BaseInv', NEW t \in tasks, CreateNewSession(t) PROVE ServerInv'
<1> DEFINE s == lastSessionID
           u == [t EXCEPT !.at = "running", !.owner = s, !.on = 0]
<1>a. /\ t.kind \in {"Listen", "NewUser"} /\ t.at = "posted"
      /\ lastSessionID' = s + 1 /\ sessions' = sessions \union {s}
      /\ Becomes(t, {u})
      /\ UNCHANGED <<kernel, failed, mine>>
    BY DEF CreateNewSession, ServerInv, SocketOnce, appVars
<1>b. PICK h \in HandleOrNone : socket' = [socket EXCEPT ![s] = h]
    BY DEF CreateNewSession, HandleOrNone
<1>c. t \in NetworkTask /\ s \in Nat /\ s \notin sessions
    BY IDFacts DEF ServerInv, BaseInv, TypeOK
<1>d. u.kind = t.kind /\ u.at = "running" /\ u.owner = s /\ u.socket = t.socket
    BY <1>c DEF NetworkTask
<1> HIDE DEF u
<1>e. s \in IDs
    BY <1>a DEF BaseInv, TypeOK
<1>f. socket \in [IDs -> HandleOrNone] /\ sessions \subseteq IDs /\ mine[s] = 0
    BY <1>c, <1>e, TableFacts DEF ServerInv, SocketOnce
<1>g. \A r \in sessions : socket'[r] = socket[r]
    BY <1>b, <1>c, <1>f
<1>h. \A v \in tasks' : v = u \/ (v \in tasks /\ v # t)
    BY <1>a DEF Becomes
<1>i. Holding(u) = Holding(t) /\ Starter(u)
    BY <1>a, <1>d DEF Holding, Starter
<1>1. OneHolder'
    <2>1. \A r \in sessions' : mine[r] # 0 => r \in sessions
        BY <1>a, <1>f
    <2>2. \A v \in tasks' : Holding(v) => \E w \in tasks : Holding(w) /\ w.socket = v.socket
        BY <1>d, <1>h, <1>i
    <2>3. ASSUME NEW v \in tasks', NEW w \in tasks', Holding(v), Holding(w),
                 v.socket = w.socket
          PROVE  v = w
        BY <1>d, <1>h, <1>i, <2>3 DEF ServerInv, OneHolder
    <2>4. \A v \in tasks' : Holding(v)' = Holding(v)
        BY DEF Holding
    <2>5. \A v \in tasks' : Holding(v) =>
            /\ v.socket \in Handles /\ kernel[v.socket] # 0
            /\ \A r \in sessions' : mine[r] # kernel[v.socket]
        BY <1>a, <1>f, <2>2 DEF ServerInv, OneHolder
    <2>6. \A r \in sessions' : mine[r] # 0 =>
            socket'[r] \in Handles /\ kernel[socket'[r]] = mine[r]
        BY <1>g, <2>1 DEF ServerInv, OneHolder
    <2>7. \A r, q \in sessions' : mine[r] # 0 /\ mine[r] = mine[q] => r = q
        BY <2>1 DEF ServerInv, OneHolder
    <2>8. \A g, k \in Handles : kernel[g] # 0 /\ kernel[g] = kernel[k] => g = k
        BY DEF ServerInv, OneHolder
    <2> QED  BY <1>a, <2>3, <2>4, <2>5, <2>6, <2>7, <2>8 DEF OneHolder
<1>2. SocketOnce'
    <2>1. \A v \in tasks' : Starter(v)' = Starter(v)
        BY DEF Starter
    <2>2. \A v \in tasks' : Starter(v) => v.owner \in sessions' /\ mine[v.owner] = 0
        BY <1>a, <1>d, <1>f, <1>h DEF ServerInv, SocketOnce
    <2>3. \A v \in tasks' : v.kind \notin {"Connect", "ConnectIO"}
        BY <1>a, <1>d, <1>h DEF ServerInv, SocketOnce
    <2>4. \A v \in tasks' : v.kind = "ReceiveIO" => v.owner \in IDs /\ mine[v.owner] # 0
        BY <1>a, <1>d, <1>h DEF ServerInv, SocketOnce
    <2>5. \A r \in IDs : r >= s + 1 => mine[r] = 0
        <3>1. \A r \in IDs : r >= s + 1 => r >= s
            BY <1>c, IDFacts
        <3> QED  BY <3>1 DEF ServerInv, SocketOnce
    <2>6. \A v \in tasks' : v.kind = "AcceptIO" => v.at = "pending" \/ v.socket = NoSocket
        BY <1>a, <1>d, <1>h DEF ServerInv, SocketOnce
    <2> QED  BY <1>a, <2>1, <2>2, <2>3, <2>4, <2>5, <2>6 DEF SocketOnce
<1>3. SocketsOwned'
    <2> SUFFICES ASSUME ~failed', NEW g \in Handles, kernel'[g] # 0
                 PROVE  \/ \E r \in sessions' : socket'[r] = g /\ mine'[r] = kernel'[g]
                        \/ \E v \in tasks' : v.kind \in {"AcceptIO", "NewUser"} /\ v.socket = g
        BY DEF SocketsOwned
    <2>1. CASE \E r \in sessions : socket[r] = g /\ mine[r] = kernel[g]
        BY <1>a, <1>g, <2>1
    <2>2. CASE \E v \in tasks : v.kind \in {"AcceptIO", "NewUser"} /\ v.socket = g
        <3>1. PICK v \in tasks : v.kind \in {"AcceptIO", "NewUser"} /\ v.socket = g
            BY <2>2
        <3>2. u \in tasks' /\ (v # t => v \in tasks')
            BY <1>a DEF Becomes
        <3> QED  BY <1>d, <3>1, <3>2
    <2> QED  BY <1>a, <2>1, <2>2 DEF ServerInv, SocketsOwned
<1> QED  BY <1>1, <1>2, <1>3 DEF ServerInv

\* NetworkSession::Listen: the session gets a new socket; t ends or goes on as the
\* first accept task, and the socket is the session's even if a call fails now.
LEMMA SessionListenServer ==
    ASSUME ServerInv, BaseInv', NEW t \in tasks, SessionListen(t) PROVE ServerInv'
<1> DEFINE s == t.owner
           acc == Task("AcceptIO", s, NoSocket)
<1>a. /\ t.kind = "Listen" /\ t.at = "running" /\ UNCHANGED <<lastSessionID, sessions>>
    BY DEF SessionListen
<1>b. Starter(t) /\ ~Holding(t)
    BY <1>a DEF Starter, Holding
<1>c. s \in sessions /\ mine[s] = 0 /\ s \in IDs
    BY <1>b DEF ServerInv, SocketOnce, BaseInv, OneStarter
<1>d. /\ acc.kind = "AcceptIO" /\ acc.socket = NoSocket /\ ~Starter(acc) /\ ~Holding(acc)
    BY DEF Task, Starter, Holding
<1> HIDE DEF acc
<1>1. CASE Fails /\ Becomes(t, {}) /\ UNCHANGED <<kernel, conn, socket, mine>>
    <2>1. /\ \A u \in tasks' : u \in tasks
          /\ failed' = TRUE
        BY <1>1 DEF Becomes, Fails
    <2> QED  BY <1>a, <1>1, <2>1, TasksServer DEF ServerInv, SocketOnce
<1>2. ASSUME NEW h \in Handles, NEW state, SetSocket(s, h, NewSocket), WSASocket(h, state),
             NEW new, new \subseteq {acc}, Becomes(t, new), ~failed' => ~failed
      PROVE  ServerInv'
    <2>1. /\ kernel[h] = 0 /\ kernel' = [kernel EXCEPT ![h] = NewSocket]
          /\ socket' = [socket EXCEPT ![s] = h] /\ mine' = [mine EXCEPT ![s] = NewSocket]
          /\ tasks' = (tasks \ {t}) \union new
        BY <1>2 DEF SetSocket, WSASocket, Becomes
    <2>2. /\ kernel \in [Handles -> Nat] /\ mine \in [IDs -> Nat]
          /\ socket \in [IDs -> HandleOrNone] /\ sessions \subseteq IDs
          /\ \A g \in Handles : kernel[g] # NewSocket
          /\ \A r \in IDs : mine[r] # NewSocket
          /\ NewSocket # 0
        BY TableFacts DEF ServerInv
    <2> DEFINE n == NewSocket
    <2> HIDE DEF n
    <2>3. /\ kernel'[h] = n /\ \A g \in Handles : g # h => kernel'[g] = kernel[g]
          /\ socket'[s] = h /\ \A r \in IDs : r # s => socket'[r] = socket[r]
          /\ mine'[s] = n /\ \A r \in IDs : r # s => mine'[r] = mine[r]
          /\ n # 0 /\ (\A g \in Handles : kernel[g] # n) /\ \A r \in IDs : mine[r] # n
        BY <1>c, <2>1, <2>2 DEF n
    <2>4. \A u \in tasks' : u = acc \/ (u \in tasks /\ u # t)
        BY <1>2, <2>1
    <2>5. \A u \in tasks' : Holding(u)' = Holding(u) /\ Starter(u)' = Starter(u)
        BY DEF Holding, Starter
    <2>6. OneHolder'
        <3>1. \A g, k \in Handles : kernel'[g] # 0 /\ kernel'[g] = kernel'[k] => g = k
            BY <2>3 DEF ServerInv, OneHolder
        <3>2. \A r \in sessions : mine'[r] # 0 =>
                socket'[r] \in Handles /\ kernel'[socket'[r]] = mine'[r]
            BY <2>1, <2>2, <2>3 DEF ServerInv, OneHolder
        <3>3. \A r, q \in sessions : mine'[r] # 0 /\ mine'[r] = mine'[q] => r = q
            BY <2>2, <2>3 DEF ServerInv, OneHolder
        <3>4. \A u \in tasks' : Holding(u) =>
                /\ u \in tasks /\ u.socket \in Handles /\ kernel'[u.socket] # 0
                /\ \A r \in sessions : mine'[r] # kernel'[u.socket]
            BY <1>d, <2>1, <2>2, <2>3, <2>4 DEF ServerInv, OneHolder
        <3>5. \A u, v \in tasks' : Holding(u) /\ Holding(v) /\ u.socket = v.socket => u = v
            BY <3>4 DEF ServerInv, OneHolder
        <3> QED  BY <1>a, <2>5, <3>1, <3>2, <3>3, <3>4, <3>5 DEF OneHolder
    <2>7. SocketOnce'
        <3>1. \A u \in tasks' : u.kind \notin {"Connect", "ConnectIO"}
            BY <1>d, <2>4 DEF ServerInv, SocketOnce
        <3>2. \A u \in tasks' : Starter(u) => u \in tasks /\ u.owner # s /\ u.owner \in IDs
            BY <1>b, <1>d, <2>4 DEF ServerInv, BaseInv, OneStarter
        <3>3. \A u \in tasks' : Starter(u) => u.owner \in sessions /\ mine'[u.owner] = 0
            BY <2>3, <3>2 DEF ServerInv, SocketOnce
        <3>4. \A r \in IDs : r >= lastSessionID => mine'[r] = 0
            <4>1. lastSessionID \in Nat /\ s < lastSessionID /\ s \in Nat
                BY <1>c, IDFacts DEF ServerInv, BaseInv, TypeOK
            <4>2. \A r \in IDs : r >= lastSessionID => r # s
                BY <4>1, IDFacts
            <4> QED  BY <2>3, <4>2 DEF ServerInv, SocketOnce
        <3>5. \A u \in tasks' : u.kind = "ReceiveIO" => u.owner \in IDs /\ mine'[u.owner] # 0
            BY <1>d, <2>3, <2>4 DEF ServerInv, SocketOnce
        <3>6. \A u \in tasks' :
                u.kind = "AcceptIO" => u.at = "pending" \/ u.socket = NoSocket
            BY <1>d, <2>4 DEF ServerInv, SocketOnce
        <3> QED  BY <1>a, <2>5, <3>1, <3>3, <3>4, <3>5, <3>6 DEF SocketOnce
    <2>8. SocketsOwned'
        <3> SUFFICES ASSUME ~failed', NEW g \in Handles, kernel'[g] # 0
                     PROVE  \/ \E r \in sessions' : socket'[r] = g /\ mine'[r] = kernel'[g]
                            \/ \E u \in tasks' : /\ u.kind \in {"AcceptIO", "NewUser"}
                                                 /\ u.socket = g
            BY DEF SocketsOwned
        <3>1. CASE g = h
            BY <1>a, <1>c, <2>3, <3>1
        <3>2. CASE g # h
            <4>1. kernel[g] # 0 /\ kernel'[g] = kernel[g] /\ ~failed
                BY <1>2, <2>3, <3>2
            <4>2. CASE \E r \in sessions : socket[r] = g /\ mine[r] = kernel[g]
                BY <1>a, <1>c, <2>2, <2>3, <4>1, <4>2
            <4>3. CASE \E u \in tasks : u.kind \in {"AcceptIO", "NewUser"} /\ u.socket = g
                BY <1>a, <2>1, <4>3
            <4> QED  BY <4>1, <4>2, <4>3 DEF ServerInv, SocketsOwned
        <3> QED  BY <3>1, <3>2
    <2> QED  BY <2>6, <2>7, <2>8 DEF ServerInv
<1>3. CASE \E h \in Handles :
             /\ SetSocket(t.owner, h, NewSocket)
             /\ \/ /\ WSASocket(h, "listening")
                   /\ Becomes(t, {acc})
                   /\ UNCHANGED failed \/ Fails
                \/ Fails /\ WSASocket(h, "fresh") /\ Becomes(t, {})
    <2>1. PICK h \in Handles :
             /\ SetSocket(t.owner, h, NewSocket)
             /\ \/ /\ WSASocket(h, "listening")
                   /\ Becomes(t, {acc})
                   /\ UNCHANGED failed \/ Fails
                \/ Fails /\ WSASocket(h, "fresh") /\ Becomes(t, {})
        BY <1>3
    <2>2. CASE /\ WSASocket(h, "listening") /\ Becomes(t, {acc})
               /\ UNCHANGED failed \/ Fails
        BY <1>2, <2>1, <2>2 DEF Fails
    <2>3. CASE Fails /\ WSASocket(h, "fresh") /\ Becomes(t, {})
        BY <1>2, <2>1, <2>3 DEF Fails
    <2> QED  BY <2>1, <2>2, <2>3
<1> QED  BY <1>1, <1>3 DEF SessionListen, acc

\* NetworkTaskAcceptIO::Start: the new socket is the task's, or lost by a failure.
LEMMA AcceptStartServer ==
    ASSUME ServerInv, BaseInv', NEW t \in tasks, AcceptStart(t) PROVE ServerInv'
<1>a. /\ t.kind = "AcceptIO" /\ t.at # "pending" /\ t \in NetworkTask
      /\ UNCHANGED <<lastSessionID, sessions, socket, mine>>
    BY DEF AcceptStart, ServerInv, BaseInv, TypeOK
<1>b. ~Starter(t) /\ ~Holding(t)
    BY <1>a DEF Starter, Holding
<1>1. CASE Fails /\ Becomes(t, {}) /\ UNCHANGED <<kernel, conn>>
    <2>1. (\A u \in tasks' : u \in tasks) /\ failed' = TRUE
        BY <1>1 DEF Becomes, Fails
    <2> QED  BY <1>a, <1>1, <2>1, TasksServer DEF ServerInv, SocketOnce
<1>2. ASSUME NEW h \in Handles, WSASocket(h, "fresh"), NEW new, Becomes(t, new),
             \A u \in new : u.kind = "AcceptIO" /\ u.socket = h /\ u.at = "pending",
             \A u, v \in new : u = v,
             ~failed' => ~failed /\ new # {}
      PROVE  ServerInv'
    <2>1. /\ kernel[h] = 0 /\ kernel' = [kernel EXCEPT ![h] = NewSocket]
          /\ tasks' = (tasks \ {t}) \union new
        BY <1>2 DEF WSASocket, Becomes
    <2>2. /\ kernel \in [Handles -> Nat] /\ sessions \subseteq IDs
          /\ \A g \in Handles : kernel[g] # NewSocket
          /\ \A r \in IDs : mine[r] # NewSocket
          /\ NewSocket # 0
        BY TableFacts DEF ServerInv
    <2> DEFINE n == NewSocket
    <2> HIDE DEF n
    <2>3. /\ kernel'[h] = n /\ \A g \in Handles : g # h => kernel'[g] = kernel[g]
          /\ n # 0 /\ (\A g \in Handles : kernel[g] # n) /\ \A r \in IDs : mine[r] # n
        BY <2>1, <2>2 DEF n
    <2>4. \A u \in tasks' : u \in new \/ (u \in tasks /\ u # t)
        BY <2>1
    <2>5. \A u \in tasks' : Holding(u)' = Holding(u) /\ Starter(u)' = Starter(u)
        BY DEF Holding, Starter
    <2>6. OneHolder'
        <3>1. \A g, k \in Handles : kernel'[g] # 0 /\ kernel'[g] = kernel'[k] => g = k
            BY <2>3 DEF ServerInv, OneHolder
        <3>2. \A r \in sessions : mine[r] # 0 =>
                socket[r] \in Handles /\ kernel'[socket[r]] = mine[r]
            BY <2>1, <2>2, <2>3 DEF ServerInv, OneHolder
        <3>3. \A r, q \in sessions : mine[r] # 0 /\ mine[r] = mine[q] => r = q
            BY DEF ServerInv, OneHolder
        <3>4. \A u \in tasks : Holding(u) => u.socket # h
            BY <2>1 DEF ServerInv, OneHolder
        <3>5. \A u \in tasks' : Holding(u) =>
                /\ u.socket \in Handles /\ kernel'[u.socket] # 0
                /\ \A r \in sessions : mine[r] # kernel'[u.socket]
            <4> SUFFICES ASSUME NEW u \in tasks', Holding(u)
                         PROVE  /\ u.socket \in Handles /\ kernel'[u.socket] # 0
                                /\ \A r \in sessions : mine[r] # kernel'[u.socket]
                OBVIOUS
            <4>1. CASE u \in new
                BY <1>2, <2>2, <2>3, <4>1
            <4>2. CASE u \in tasks
                BY <2>3, <3>4, <4>2 DEF ServerInv, OneHolder
            <4> QED  BY <2>4, <4>1, <4>2
        <3>6. \A u, v \in tasks' : Holding(u) /\ Holding(v) /\ u.socket = v.socket => u = v
            BY <1>2, <2>4, <3>4 DEF ServerInv, OneHolder
        <3> QED  BY <1>a, <2>5, <3>1, <3>2, <3>3, <3>5, <3>6 DEF OneHolder
    <2>7. SocketOnce'
        <3>1. \A u \in tasks' : u \in tasks \/ (u.kind = "AcceptIO" /\ u.at = "pending")
            BY <1>2, <2>4
        <3>2. \A u \in tasks' : Starter(u) => u \in tasks
            BY <3>1 DEF Starter
        <3> QED  BY <1>a, <2>5, <3>1, <3>2 DEF ServerInv, SocketOnce
    <2>8. SocketsOwned'
        <3> SUFFICES ASSUME ~failed', NEW g \in Handles, kernel'[g] # 0
                     PROVE  \/ \E r \in sessions' : socket'[r] = g /\ mine'[r] = kernel'[g]
                            \/ \E u \in tasks' : /\ u.kind \in {"AcceptIO", "NewUser"}
                                                 /\ u.socket = g
            BY DEF SocketsOwned
        <3>1. CASE g = h
            BY <1>2, <2>1, <3>1
        <3>2. CASE g # h
            <4>1. kernel[g] # 0 /\ kernel'[g] = kernel[g] /\ ~failed
                BY <1>2, <2>3, <3>2
            <4>2. CASE \E r \in sessions : socket[r] = g /\ mine[r] = kernel[g]
                BY <1>a, <4>1, <4>2
            <4>3. CASE \E u \in tasks : u.kind \in {"AcceptIO", "NewUser"} /\ u.socket = g
                <5>1. PICK u \in tasks : u.kind \in {"AcceptIO", "NewUser"} /\ u.socket = g
                    BY <4>3
                <5>2. u # t
                    BY <1>a, <5>1 DEF ServerInv, SocketOnce
                <5> QED  BY <2>1, <5>1, <5>2
            <4> QED  BY <4>1, <4>2, <4>3 DEF ServerInv, SocketsOwned
        <3> QED  BY <3>1, <3>2
    <2> QED  BY <2>6, <2>7, <2>8 DEF ServerInv
<1>3. CASE \E h \in Handles :
             /\ WSASocket(h, "fresh")
             /\ \/ /\ StateAt(socket[t.owner]) = "listening"
                   /\ Becomes(t, {[t EXCEPT !.at = "pending", !.socket = h,
                                            !.on = SocketAt(socket[t.owner])]})
                   /\ UNCHANGED failed
                \/ Fails /\ Becomes(t, {})
    <2>1. PICK h \in Handles :
             /\ WSASocket(h, "fresh")
             /\ \/ /\ Becomes(t, {[t EXCEPT !.at = "pending", !.socket = h,
                                            !.on = SocketAt(socket[t.owner])]})
                   /\ UNCHANGED failed
                \/ Fails /\ Becomes(t, {})
        BY <1>3
    <2>2. CASE Fails /\ Becomes(t, {})
        BY <1>2, <2>1, <2>2 DEF Fails
    <2> DEFINE u == [t EXCEPT !.at = "pending", !.socket = h,
                              !.on = SocketAt(socket[t.owner])]
    <2>3. CASE Becomes(t, {u}) /\ UNCHANGED failed
        <3>1. u.kind = "AcceptIO" /\ u.socket = h /\ u.at = "pending"
            BY <1>a DEF NetworkTask
        <3> HIDE DEF u
        <3> QED  BY <1>2, <2>1, <2>3, <3>1
    <2> QED  BY <2>1, <2>2, <2>3
<1> QED  BY <1>1, <1>3 DEF AcceptStart

\* NetworkTaskAcceptIO::Complete: the socket goes from the accept task to the task
\* that will create the session of the peer.
LEMMA AcceptCompleteServer ==
    ASSUME ServerInv, BaseInv', NEW t \in tasks, AcceptComplete(t) PROVE ServerInv'
<1> DEFINE n == Task("NewUser", 0, t.socket)
           a == Again(t)
<1>a. /\ t.kind = "AcceptIO" /\ t.at = "pending" /\ t \in NetworkTask
      /\ UNCHANGED <<lastSessionID, sessions, socket, kernel, mine>>
    BY DEF AcceptComplete, ServerInv, BaseInv, TypeOK
<1>b. Holding(t)
    BY <1>a DEF Holding
<1>c. a.kind = "AcceptIO" /\ a.at = "running" /\ a.socket = NoSocket
    BY <1>a DEF Again, NetworkTask
<1>d. ~Holding(a) /\ ~Starter(a)
    BY <1>c DEF Holding, Starter
<1>e. n.kind = "NewUser" /\ n.at = "posted" /\ n.socket = t.socket
    BY DEF Task
<1>f. Holding(n) /\ ~Starter(n)
    BY <1>e DEF Holding, Starter
<1> HIDE DEF n, a
<1>1. CASE Becomes(t, {a}) /\ Fails
    <2>1. (\A u \in tasks' : u \in tasks \/ u = a) /\ failed' = TRUE
        BY <1>1 DEF Becomes, Fails
    <2> QED  BY <1>a, <1>c, <1>d, <2>1, TasksServer DEF ServerInv, SocketOnce
<1>2. CASE Becomes(t, {a, n}) /\ UNCHANGED failed
    <2>1. tasks' = (tasks \ {t}) \union {a, n}
        BY <1>2 DEF Becomes
    <2>2. \A u \in tasks' : Holding(u)' = Holding(u) /\ Starter(u)' = Starter(u)
        BY DEF Holding, Starter
    <2>3. \A u \in tasks' : Holding(u) => u = n \/ (u \in tasks /\ u # t)
        BY <1>d, <2>1
    <2>4. OneHolder'
        <3>1. \A u \in tasks' : Holding(u) => \E v \in tasks : Holding(v) /\ v.socket = u.socket
            BY <1>b, <1>e, <2>3
        <3>2. \A u, v \in tasks' : Holding(u) /\ Holding(v) /\ u.socket = v.socket => u = v
            BY <1>b, <1>e, <2>3 DEF ServerInv, OneHolder
        <3> QED  BY <1>a, <2>2, <3>1, <3>2 DEF ServerInv, OneHolder
    <2>5. SocketOnce'
        <3>1. \A u \in tasks' : Starter(u) => u \in tasks
            BY <1>d, <1>f, <2>1
        <3> QED  BY <1>a, <1>c, <1>e, <2>1, <2>2, <3>1 DEF ServerInv, SocketOnce
    <2>6. SocketsOwned'
        <3>1. \A u \in tasks : u \in tasks' \/ u.socket = n.socket
            BY <1>e, <2>1
        <3>2. n \in tasks'
            BY <2>1
        <3> QED  BY <1>a, <1>2, <1>e, <3>1, <3>2 DEF ServerInv, SocketsOwned
    <2> QED  BY <2>4, <2>5, <2>6 DEF ServerInv
<1> QED  BY <1>1, <1>2 DEF AcceptComplete, a, n

\* NetworkTaskAcceptIO::Complete of a failed accept: it closes its own socket.
LEMMA AcceptFailedServer ==
    ASSUME ServerInv, BaseInv', NEW t \in tasks, AcceptFailed(t) PROVE ServerInv'
<1> DEFINE a == Again(t)
           h == t.socket
<1>a. /\ t.kind = "AcceptIO" /\ t.at = "pending" /\ t \in NetworkTask
      /\ UNCHANGED <<lastSessionID, sessions, socket, mine, failed>>
      /\ closesocket(h) /\ Becomes(t, {a})
    BY DEF AcceptFailed, TurnAway, ServerInv, BaseInv, TypeOK
<1>b. a.kind = "AcceptIO" /\ a.at = "running" /\ a.socket = NoSocket
    BY <1>a DEF Again, NetworkTask
<1>c. Holding(t) /\ ~Holding(a) /\ ~Starter(a)
    BY <1>a, <1>b DEF Holding, Starter
<1>d. h \in Handles /\ kernel[h] # 0 /\ \A s \in sessions : mine[s] # kernel[h]
    BY <1>c DEF ServerInv, OneHolder
<1>e. kernel' = [g \in Handles |-> IF g = h THEN 0 ELSE kernel[g]]
    BY <1>a, closesocketFacts DEF ServerInv, BaseInv
<1>f. kernel'[h] = 0 /\ \A g \in Handles : g # h => kernel'[g] = kernel[g]
    BY <1>d, <1>e
<1>g. tasks' = (tasks \ {t}) \union {a}
    BY <1>a DEF Becomes
<1> HIDE DEF a
<1>1. \A u \in tasks' : Holding(u)' = Holding(u) /\ Starter(u)' = Starter(u)
    BY DEF Holding, Starter
<1>2. \A u \in tasks' : Holding(u) => u \in tasks /\ u.socket # h
    BY <1>c, <1>g DEF ServerInv, OneHolder
<1>3. OneHolder'
    <2>1. \A g, k \in Handles : kernel'[g] # 0 /\ kernel'[g] = kernel'[k] => g = k
        BY <1>f DEF ServerInv, OneHolder
    <2>2. \A r \in sessions : mine[r] # 0 =>
            socket[r] \in Handles /\ kernel'[socket[r]] = mine[r]
        BY <1>d, <1>f DEF ServerInv, OneHolder
    <2>3. \A u \in tasks' : Holding(u) =>
            /\ u.socket \in Handles /\ kernel'[u.socket] # 0
            /\ \A s \in sessions : mine[s] # kernel'[u.socket]
        BY <1>f, <1>2 DEF ServerInv, OneHolder
    <2>4. \A u, v \in tasks' : Holding(u) /\ Holding(v) /\ u.socket = v.socket => u = v
        BY <1>2 DEF ServerInv, OneHolder
    <2>5. \A s, r \in sessions : mine[s] # 0 /\ mine[s] = mine[r] => s = r
        BY DEF ServerInv, OneHolder
    <2> QED  BY <1>a, <1>1, <2>1, <2>2, <2>3, <2>4, <2>5 DEF OneHolder
<1>4. SocketOnce'
    <2>1. \A u \in tasks' : u \in tasks \/ u = a
        BY <1>g
    <2> QED  BY <1>a, <1>b, <1>c, <1>1, <2>1 DEF ServerInv, SocketOnce
<1>5. SocketsOwned'
    <2>1. \A u \in tasks : u \in tasks' \/ u.socket = h
        BY <1>g
    <2> QED  BY <1>a, <1>f, <2>1 DEF ServerInv, SocketsOwned
<1> QED  BY <1>3, <1>4, <1>5 DEF ServerInv

\* OnAccept: the socket goes from the task to the session.
LEMMA OnAcceptServer ==
    ASSUME ServerInv, BaseInv', NEW t \in tasks, OnAccept(t) PROVE ServerInv'
<1> DEFINE s == t.owner
           h == t.socket
           snd == Task("Send", s, NoSocket)
           rcv == Task("ReceiveIO", s, NoSocket)
<1>a. /\ t.kind = "NewUser" /\ t.at = "running" /\ SetSocket(s, h, SocketAt(h))
      /\ Becomes(t, {snd, rcv})
      /\ UNCHANGED <<lastSessionID, sessions, kernel, failed>>
    BY DEF OnAccept, appVars
<1>b. Starter(t) /\ Holding(t)
    BY <1>a DEF Starter, Holding
<1>c. s \in sessions /\ mine[s] = 0 /\ s \in IDs
    BY <1>b DEF ServerInv, SocketOnce, BaseInv, OneStarter
<1>d. h \in Handles /\ kernel[h] # 0 /\ \A r \in sessions : mine[r] # kernel[h]
    BY <1>b DEF ServerInv, OneHolder
<1>e. /\ socket' = [socket EXCEPT ![s] = h] /\ mine' = [mine EXCEPT ![s] = kernel[h]]
    BY <1>a, <1>d DEF SetSocket, SocketAt
<1>f. /\ socket'[s] = h /\ \A r \in IDs : r # s => socket'[r] = socket[r]
      /\ mine'[s] = kernel[h] /\ \A r \in IDs : r # s => mine'[r] = mine[r]
      /\ sessions \subseteq IDs
    BY <1>c, <1>e, TableFacts DEF ServerInv
<1>g. tasks' = (tasks \ {t}) \union {snd, rcv}
    BY <1>a DEF Becomes
<1>h. /\ snd.kind = "Send" /\ rcv.kind = "ReceiveIO" /\ rcv.owner = s
      /\ ~Holding(snd) /\ ~Holding(rcv) /\ ~Starter(snd) /\ ~Starter(rcv)
    BY DEF Task, Holding, Starter
<1> HIDE DEF snd, rcv
<1>1. \A u \in tasks' : Holding(u)' = Holding(u) /\ Starter(u)' = Starter(u)
    BY DEF Holding, Starter
<1>2. \A u \in tasks' : Holding(u) => u \in tasks /\ u.socket # h
    BY <1>b, <1>g, <1>h DEF ServerInv, OneHolder
<1>3. OneHolder'
    <2>1. \A g, k \in Handles : kernel[g] # 0 /\ kernel[g] = kernel[k] => g = k
        BY DEF ServerInv, OneHolder
    <2>2. \A r \in sessions : mine'[r] # 0 =>
            socket'[r] \in Handles /\ kernel[socket'[r]] = mine'[r]
        BY <1>d, <1>f DEF ServerInv, OneHolder
    <2>3. \A u \in tasks' : Holding(u) =>
            /\ u.socket \in Handles /\ kernel[u.socket] # 0
            /\ \A r \in sessions : mine'[r] # kernel[u.socket]
        BY <1>d, <1>f, <1>2 DEF ServerInv, OneHolder
    <2>4. \A u, v \in tasks' : Holding(u) /\ Holding(v) /\ u.socket = v.socket => u = v
        BY <1>2 DEF ServerInv, OneHolder
    <2>5. \A q, r \in sessions : mine'[q] # 0 /\ mine'[q] = mine'[r] => q = r
        BY <1>d, <1>f DEF ServerInv, OneHolder
    <2> QED  BY <1>a, <1>1, <2>1, <2>2, <2>3, <2>4, <2>5 DEF OneHolder
<1>4. SocketOnce'
    <2>1. \A u \in tasks' : (u \in tasks /\ u # t) \/ u = snd \/ u = rcv
        BY <1>g
    <2>2. \A u \in tasks' : u.kind \notin {"Connect", "ConnectIO"}
        BY <1>h, <2>1 DEF ServerInv, SocketOnce
    <2>3. \A u \in tasks' : Starter(u) => u \in tasks /\ u.owner # s /\ u.owner \in IDs
        BY <1>b, <1>h, <2>1 DEF ServerInv, BaseInv, OneStarter
    <2>4. \A u \in tasks' : Starter(u) => u.owner \in sessions /\ mine'[u.owner] = 0
        BY <1>f, <2>3 DEF ServerInv, SocketOnce
    <2>5. \A r \in IDs : r >= lastSessionID => mine'[r] = 0
        <3>1. lastSessionID \in Nat /\ s < lastSessionID /\ s \in Nat
            BY <1>c, IDFacts DEF ServerInv, BaseInv, TypeOK
        <3>2. \A r \in IDs : r >= lastSessionID => r # s
            BY <3>1, IDFacts
        <3> QED  BY <1>f, <3>2 DEF ServerInv, SocketOnce
    <2>6. \A u \in tasks' : u.kind = "ReceiveIO" => u.owner \in IDs /\ mine'[u.owner] # 0
        BY <1>c, <1>d, <1>f, <1>h, <2>1 DEF ServerInv, SocketOnce
    <2>7. \A u \in tasks' : u.kind = "AcceptIO" => u.at = "pending" \/ u.socket = NoSocket
        BY <1>h, <2>1 DEF ServerInv, SocketOnce
    <2> QED  BY <1>a, <1>1, <2>2, <2>4, <2>5, <2>6, <2>7 DEF SocketOnce
<1>5. SocketsOwned'
    <2> SUFFICES ASSUME ~failed', NEW g \in Handles, kernel'[g] # 0
                 PROVE  \/ \E r \in sessions' : socket'[r] = g /\ mine'[r] = kernel'[g]
                        \/ \E u \in tasks' : u.kind \in {"AcceptIO", "NewUser"} /\ u.socket = g
        BY DEF SocketsOwned
    <2>1. CASE g = h
        BY <1>a, <1>c, <1>f, <2>1
    <2>2. CASE g # h
        <3>1. CASE \E r \in sessions : socket[r] = g /\ mine[r] = kernel[g]
            BY <1>a, <1>c, <1>f, <3>1
        <3>2. CASE \E u \in tasks : u.kind \in {"AcceptIO", "NewUser"} /\ u.socket = g
            BY <1>g, <2>2, <3>2
        <3> QED  BY <1>a, <3>1, <3>2 DEF ServerInv, SocketsOwned
    <2> QED  BY <2>1, <2>2
<1> QED  BY <1>3, <1>4, <1>5 DEF ServerInv

\* NetworkTaskReceiveIO::Complete with a failure: RemoveSession closes the socket of
\* that session and no other, and the session is not one that waits for a socket.
LEMMA ReceiveFailedServer ==
    ASSUME ServerInv, BaseInv', NEW t \in tasks, ReceiveFailed(t) PROVE ServerInv'
<1> DEFINE s == t.owner
           h == socket[s]
<1>a. /\ t.kind = "ReceiveIO" /\ RemoveSession(s) /\ Becomes(t, {})
      /\ UNCHANGED <<lastSessionID, socket, mine, failed>>
    BY DEF ReceiveFailed, DropSession, appVars
<1>b. mine[s] # 0 /\ s \in IDs
    BY <1>a DEF ServerInv, SocketOnce
<1>c. tasks' = tasks \ {t} /\ sessions' = sessions \ {s}
    BY <1>a, RemoveSessionFacts DEF Becomes, ServerInv, BaseInv
<1>d. CASE s \notin sessions
    <2>1. kernel' = kernel /\ sessions' = sessions
        BY <1>a, <1>c, <1>d, RemoveSessionFacts DEF ServerInv, BaseInv
    <2>2. \A u \in tasks' : u \in tasks
        BY <1>c
    <2>3. \A u \in tasks : u.kind \in {"AcceptIO", "NewUser"} => u \in tasks'
        BY <1>a, <1>c
    <2> QED  BY <1>a, <2>1, <2>2, <2>3, TasksServer DEF ServerInv, SocketOnce
<1>e. CASE s \in sessions
    <2>1. h \in Handles /\ kernel[h] = mine[s]
        BY <1>b, <1>e DEF ServerInv, OneHolder
    <2>2. kernel' = [g \in Handles |-> IF g = h THEN 0 ELSE kernel[g]]
        BY <1>a, <1>e, RemoveSessionFacts DEF ServerInv, BaseInv
    <2>3. kernel'[h] = 0 /\ \A g \in Handles : g # h => kernel'[g] = kernel[g]
        BY <2>1, <2>2
    <2>4. \A u \in tasks' : Holding(u)' = Holding(u) /\ Starter(u)' = Starter(u)
        BY DEF Holding, Starter
    <2>5. \A u \in tasks' : Holding(u) => u \in tasks /\ u.socket # h
        BY <1>c, <1>e, <2>1 DEF ServerInv, OneHolder
    <2>6. \A r \in sessions' : mine[r] # 0 => r \in sessions /\ socket[r] # h
        BY <1>b, <1>c, <1>e, <2>1 DEF ServerInv, OneHolder
    <2>7. OneHolder'
        <3>1. \A g, k \in Handles : kernel'[g] # 0 /\ kernel'[g] = kernel'[k] => g = k
            BY <2>3 DEF ServerInv, OneHolder
        <3>2. \A r \in sessions' : mine[r] # 0 =>
                socket[r] \in Handles /\ kernel'[socket[r]] = mine[r]
            BY <2>3, <2>6 DEF ServerInv, OneHolder
        <3>3. \A u \in tasks' : Holding(u) =>
                /\ u.socket \in Handles /\ kernel'[u.socket] # 0
                /\ \A r \in sessions' : mine[r] # kernel'[u.socket]
            BY <1>c, <2>3, <2>5 DEF ServerInv, OneHolder
        <3>4. \A u, v \in tasks' : Holding(u) /\ Holding(v) /\ u.socket = v.socket => u = v
            BY <2>5 DEF ServerInv, OneHolder
        <3>5. \A q, r \in sessions' : mine[q] # 0 /\ mine[q] = mine[r] => q = r
            BY <1>c DEF ServerInv, OneHolder
        <3> QED  BY <1>a, <2>4, <3>1, <3>2, <3>3, <3>4, <3>5 DEF OneHolder
    <2>8. SocketOnce'
        BY <1>a, <1>b, <1>c, <2>4 DEF ServerInv, SocketOnce
    <2>9. SocketsOwned'
        <3> SUFFICES ASSUME ~failed', NEW g \in Handles, kernel'[g] # 0
                     PROVE  \/ \E r \in sessions' : socket'[r] = g /\ mine'[r] = kernel'[g]
                            \/ \E u \in tasks' : /\ u.kind \in {"AcceptIO", "NewUser"}
                                                 /\ u.socket = g
            BY DEF SocketsOwned
        <3>1. g # h /\ kernel'[g] = kernel[g] /\ kernel[g] # 0 /\ ~failed
            BY <1>a, <2>3
        <3>2. CASE \E r \in sessions : socket[r] = g /\ mine[r] = kernel[g]
            BY <1>a, <1>c, <3>1, <3>2
        <3>3. CASE \E u \in tasks : u.kind \in {"AcceptIO", "NewUser"} /\ u.socket = g
            BY <1>a, <1>c, <3>3
        <3> QED  BY <3>1, <3>2, <3>3 DEF ServerInv, SocketsOwned
    <2> QED  BY <2>7, <2>8, <2>9 DEF ServerInv
<1> QED  BY <1>d, <1>e

\* A send or receive task goes on or ends.
LEMMA IOServer ==
    ASSUME ServerInv, BaseInv', NEW t \in tasks, t.kind \in {"ReceiveIO", "Send"},
           UNCHANGED <<lastSessionID, sessions, socket, kernel, mine>>, ~failed' => ~failed,
           NEW new, Becomes(t, new),
           \A u \in new : u.kind = t.kind /\ u.owner = t.owner
    PROVE  ServerInv'
<1>1. tasks' = (tasks \ {t}) \union new
    BY DEF Becomes
<1>2. \A u \in new : ~Holding(u) /\ ~Starter(u) /\ u.kind \in {"ReceiveIO", "Send"}
    BY DEF Holding, Starter
<1>3. \A u \in tasks' : Holding(u) \/ Starter(u) => u \in tasks
    BY <1>1, <1>2
<1>4. \A u \in tasks' : u.kind \notin {"Connect", "ConnectIO"}
    BY <1>1, <1>2 DEF ServerInv, SocketOnce
<1>5. \A u \in tasks' : u.kind = "ReceiveIO" => u.owner \in IDs /\ mine[u.owner] # 0
    BY <1>1 DEF ServerInv, SocketOnce
<1>6. \A u \in tasks' : u.kind = "AcceptIO" => u \in tasks
    BY <1>1, <1>2
<1>7. \A u \in tasks : u.kind \in {"AcceptIO", "NewUser"} => u \in tasks'
    BY <1>1
<1> QED  BY <1>3, <1>4, <1>5, <1>6, <1>7, TasksServer

\* WSARecv, WSASend and the completions that leave the session alone.
LEMMA DataServer ==
    ASSUME ServerInv, BaseInv', NEW t \in tasks,
           \/ ReceiveStart(t) \/ SendStart(t) \/ ReceiveComplete(t) \/ SendComplete(t)
    PROVE  ServerInv'
<1>a. /\ t.kind \in {"ReceiveIO", "Send"} /\ t \in NetworkTask
      /\ UNCHANGED <<lastSessionID, sessions, socket, kernel, mine>>
    BY DEF ReceiveStart, SendStart, ReceiveComplete, SendComplete, ServerInv, BaseInv, TypeOK
<1>b. ~failed' => ~failed
    BY DEF ReceiveStart, SendStart, ReceiveComplete, SendComplete, StartIO, appVars
<1>c. \A p, n : /\ [t EXCEPT !.at = p, !.on = n].kind = t.kind
                /\ [t EXCEPT !.at = p, !.on = n].owner = t.owner
    BY <1>a DEF NetworkTask
<1>1. CASE Becomes(t, {})
    BY <1>a, <1>b, <1>1, IOServer
<1>2. CASE \E p, n : Becomes(t, {[t EXCEPT !.at = p, !.on = n]})
    <2>1. PICK p, n : Becomes(t, {[t EXCEPT !.at = p, !.on = n]})
        BY <1>2
    <2> DEFINE u == [t EXCEPT !.at = p, !.on = n]
    <2>2. u.kind = t.kind /\ u.owner = t.owner /\ Becomes(t, {u})
        BY <1>c, <2>1
    <2> HIDE DEF u
    <2> QED  BY <1>a, <1>b, <2>2, IOServer
<1>3. Becomes(t, {}) \/ \E p, n : Becomes(t, {[t EXCEPT !.at = p, !.on = n]})
    <2>1. CASE ReceiveStart(t) \/ SendStart(t)
        BY <2>1 DEF ReceiveStart, SendStart, StartIO
    <2>2. CASE ReceiveComplete(t) \/ SendComplete(t)
        BY <2>2 DEF ReceiveComplete, SendComplete
    <2> QED  BY <2>1, <2>2
<1> QED  BY <1>1, <1>2, <1>3

\* The peers and the application leave the sockets alone.
LEMMA OutsideServer ==
    ASSUME ServerInv, BaseInv', \/ UNCHANGED vars \/ PeerArrives \/ Listen
                                \/ \E n \in 1..Len(conn) : PeerLeaves(n)
    PROVE  ServerInv'
<1> DEFINE u == Task("Listen", 0, NoSocket)
<1>1. u.kind = "Listen" /\ ~Holding(u) /\ ~Starter(u)
    BY DEF Task, Holding, Starter
<1>2. /\ UNCHANGED <<lastSessionID, sessions, socket, kernel, mine, failed>>
      /\ tasks' = tasks \/ tasks' = tasks \union {u}
    BY DEF vars, appVars, PeerArrives, PeerLeaves, Listen, Post
<1> HIDE DEF u
<1>3. \A v \in tasks' : v \in tasks \/ v = u
    BY <1>2
<1> QED  BY <1>1, <1>2, <1>3, TasksServer DEF ServerInv, SocketOnce

\* The initial state.
LEMMA ServerInit == Init => ServerInv
<1> SUFFICES ASSUME Init PROVE ServerInv
    OBVIOUS
<1>1. BaseInv
    BY BaseInit
<1>2. OneHolder /\ SocketOnce /\ SocketsOwned
    BY DEF Init, OneHolder, SocketOnce, SocketsOwned
<1> QED  BY <1>1, <1>2 DEF ServerInv

\* ServerInv is inductive.
LEMMA ServerStep == ServerInv /\ [Next]_vars => ServerInv'
<1> SUFFICES ASSUME ServerInv, [Next]_vars PROVE ServerInv'
    OBVIOUS
<1>1. BaseInv'
    BY BaseStep DEF ServerInv
<1>2. CASE UNCHANGED vars \/ PeerArrives \/ Listen \/ \E n \in 1..Len(conn) : PeerLeaves(n)
    BY <1>1, <1>2, OutsideServer
<1>3. CASE \E t \in tasks : TaskStep(t)
    <2>1. PICK t \in tasks : TaskStep(t)
        BY <1>3
    <2>2. t.kind \notin {"Connect", "ConnectIO"}
        BY DEF ServerInv, SocketOnce
    <2>3. ~SessionConnect(t) /\ ~ConnectStart(t) /\ ~ConnectEx(t)
        BY <2>2 DEF SessionConnect, ConnectStart, ConnectEx
    <2>4. ~ConnectComplete(t) /\ ~ConnectFailed(t)
        BY <2>2 DEF ConnectComplete, ConnectFailed
    <2>5. CASE CreateNewSession(t) \/ SessionListen(t) \/ AcceptStart(t)
        BY <1>1, <2>5, CreateNewSessionServer, SessionListenServer, AcceptStartServer
    <2>6. CASE AcceptComplete(t) \/ AcceptFailed(t) \/ OnAccept(t) \/ ReceiveFailed(t)
        BY <1>1, <2>6, AcceptCompleteServer, AcceptFailedServer, OnAcceptServer,
           ReceiveFailedServer
    <2>7. CASE ReceiveStart(t) \/ SendStart(t) \/ ReceiveComplete(t) \/ SendComplete(t)
        BY <1>1, <2>7, DataServer
    <2> QED  BY <2>1, <2>3, <2>4, <2>5, <2>6, <2>7 DEF TaskStep
<1> QED  BY <1>2, <1>3 DEF Next

\* A registered session that was given a socket still has it, whatever worker
\* closed which handle in between and however often handles are reused.
THEOREM SessionsKeepSockets == Spec => []RegisteredOwn
<1>1. ServerInv => RegisteredOwn
    BY DEF ServerInv, OneHolder, RegisteredOwn, SocketAt
<1> QED  BY <1>1, ServerInit, ServerStep, PTL DEF Spec

\* Unless a call failed, no socket is lost.
THEOREM NoSocketLost == Spec => []SocketsOwned
<1>1. ServerInv => SocketsOwned
    BY DEF ServerInv
<1> QED  BY <1>1, ServerInit, ServerStep, PTL DEF Spec

=============================================================================
