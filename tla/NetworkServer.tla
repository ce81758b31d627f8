--------------------------- MODULE NetworkServer ----------------------------
(***************************************************************************)
(* The life cycle of sessions, sockets and tasks: NetworkServer with its   *)
(* session map and completion port, NetworkSession, and the accept,        *)
(* connect, receive and send tasks as users of sockets.                    *)
(*                                                                         *)
(* A SOCKET is a handle value.  The system gives a handle away again once  *)
(* it is closed, so the model tells the handle from the socket it stands   *)
(* for: sockets are numbered in the order of creation and kernel[h] is the *)
(* number of the socket that handle h stands for now.                      *)
(*                                                                         *)
(* Any worker may run any task in the completion port's queue.  What a     *)
(* task does between two points where another thread can interfere is one  *)
(* step.  ReceiveIO and SessionSend have the details of the two data paths *)
(* that are left out here: a receive task that completed with data just    *)
(* goes on, and two waiting send tasks of one session count as one.        *)
(***************************************************************************)
EXTENDS Naturals, Sequences

CONSTANTS Handles,      \* values of SOCKET
          NoSocket,     \* INVALID_SOCKET, or a value that is no handle
          MaxConnects,  \* bound: calls of NetworkServer::Connect
          MaxPeers,     \* bound: peers that connect to the listening socket
          MayFail       \* calls may fail although the socket is fine

ASSUME ServerAssumption ==
    /\ NoSocket \notin Handles
    /\ MayFail \in BOOLEAN /\ MaxConnects \in Nat /\ MaxPeers \in Nat

VARIABLES
    lastSessionID,  \* UIDGenerator::m_lastSessionID
    sessions,       \* keys of NetworkServer::m_sessions
    socket,         \* socket[s]: NetworkSession::m_socket
    kernel,         \* kernel[h]: number of the open socket h stands for, or 0
    conn,           \* conn[n]: state of socket n
    tasks,          \* the NetworkTask objects that exist
    backlog,        \* peers waiting to be accepted
    calls,          \* calls the application made, [listen, connect, send]
    arrived,        \* peers that have connected so far
    failed,         \* history: a call failed although the socket was fine
    mine,           \* history: mine[s]: the socket SetSocket gave to s, or 0
    receivers       \* history: receivers[s]: receive tasks created for s

appVars == <<backlog, calls, arrived, failed>>
vars == <<lastSessionID, sessions, socket, kernel, conn, tasks, appVars, mine,
          receivers>>

\* Every call of Listen, Connect and every accepted peer makes one session.
IDs == 1..MaxPeers + MaxConnects + 1

\* A NetworkTask of the class NetworkTask<kind>.  at tells where it is:
\* "posted": in the completion port's queue with EStep::None, "running": a
\* worker is inside Run, "pending": its I/O is under way on socket on, "kept":
\* Run returned true and no I/O is under way.
Task(kind, owner, h) ==
    [kind |-> kind, owner |-> owner, socket |-> h, at |-> "posted", on |-> 0]

Init ==
    /\ lastSessionID = 1
    /\ sessions = {}
    /\ socket = [s \in IDs |-> NoSocket]
    /\ kernel = [h \in Handles |-> 0]
    /\ conn = <<>>
    /\ tasks = {}
    /\ backlog = 0
    /\ calls = [listen |-> 0, connect |-> 0, send |-> 0]
    /\ arrived = 0
    /\ failed = FALSE
    /\ mine = [s \in IDs |-> 0]
    /\ receivers = [s \in IDs |-> 0]

-----------------------------------------------------------------------------
(***************************************************************************)
(* Winsock, as the code uses it                                            *)
(***************************************************************************)

\* The socket h stands for, 0 if there is none.
SocketAt(h) == IF h \in Handles THEN kernel[h] ELSE 0

StateAt(h) == IF SocketAt(h) = 0 THEN "closed" ELSE conn[SocketAt(h)]

NewSocket == Len(conn) + 1

\* A new socket in the given state under a handle that is free.
WSASocket(h, state) ==
    /\ kernel[h] = 0
    /\ kernel' = [kernel EXCEPT ![h] = NewSocket]
    /\ conn' = Append(conn, state)

closesocket(h) ==
    IF SocketAt(h) = 0 THEN UNCHANGED <<kernel, conn>>
    ELSE /\ kernel' = [kernel EXCEPT ![h] = 0]
         /\ conn' = [conn EXCEPT ![SocketAt(h)] = "closed"]

\* A peer connects to the listening socket.
PeerArrives ==
    /\ arrived < MaxPeers
    /\ \E h \in Handles : StateAt(h) = "listening"
    /\ arrived' = arrived + 1
    /\ backlog' = backlog + 1
    /\ UNCHANGED <<lastSessionID, sessions, socket, kernel, conn, tasks, calls,
                   failed, mine, receivers>>

\* The other end of a connection closes or resets it.
PeerLeaves(n) ==
    /\ conn[n] = "connected"
    /\ conn' = [conn EXCEPT ![n] = "gone"]
    /\ UNCHANGED <<lastSessionID, sessions, socket, kernel, tasks, appVars,
                   mine, receivers>>

-----------------------------------------------------------------------------
(***************************************************************************)
(* Calls of the application.  PlayServer only listens; BotManager composes *)
(* the other calls with the bots of DummyClient.                           *)
(***************************************************************************)

Call(c, bound) == calls[c] < bound /\ calls' = [calls EXCEPT ![c] = @ + 1]

Post(task) ==
    /\ tasks' = tasks \union {task}
    /\ UNCHANGED <<lastSessionID, sessions, socket, kernel, conn, backlog,
                   arrived, failed, mine, receivers>>

\* NetworkServer::Listen
Listen == Call("listen", 1) /\ Post(Task("Listen", 0, NoSocket))

\* NetworkServer::Connect; the number of the call tells waiting tasks apart.
Connect ==
    /\ Call("connect", MaxConnects)
    /\ Post([Task("Connect", 0, NoSocket) EXCEPT !.on = calls.connect])

\* NetworkSession::Send
Send(s, bound) == Call("send", bound) /\ Post(Task("Send", s, NoSocket))

\* NetworkServer::RemoveSession under m_lock: Disconnect and erase.
RemoveSession(s) ==
    IF s \in sessions
    THEN closesocket(socket[s]) /\ sessions' = sessions \ {s}
    ELSE UNCHANGED <<kernel, conn, sessions>>

-----------------------------------------------------------------------------
(***************************************************************************)
(* Tasks.  WorkerThread deletes a task when Run returns false.             *)
(***************************************************************************)

\* t is replaced by the tasks of new.
Becomes(t, new) == tasks' = (tasks \ {t}) \union new

\* NetworkServer::CreateNewSession, the first thing these tasks do.  m_socket
\* is not initialized: it has the value an earlier object left in the memory.
CreateNewSession(t) ==
    LET s == lastSessionID
    IN  /\ t.kind \in {"Listen", "NewUser", "Connect"} /\ t.at = "posted"
        /\ lastSessionID' = lastSessionID + 1
        /\ sessions' = sessions \union {s}
        /\ \E h \in Handles \union {NoSocket} : socket' = [socket EXCEPT ![s] = h]
        /\ Becomes(t, {[t EXCEPT !.at = "running", !.owner = s, !.on = 0]})
        /\ UNCHANGED <<kernel, conn, appVars, mine, receivers>>

\* NetworkSession::SetSocket.  When RegisterSocketToIOCP fails, which nobody looks
\* at, no I/O on the socket ever completes.  Nothing here says that it does,
\* except for the listening socket as long as no call failed (FairSpec).
SetSocket(s, h, n) ==
    /\ socket' = [socket EXCEPT ![s] = h]
    /\ mine' = [mine EXCEPT ![s] = n]

\* A call fails for a reason of its own, such as a lack of resources.
Fails == MayFail /\ failed' = TRUE

\* NetworkSession::Listen; bind or listen may fail once the socket is set, and
\* RegisterSocketToIOCP without being noticed.
SessionListen(t) ==
    /\ t.kind = "Listen" /\ t.at = "running"
    /\ \/ \E h \in Handles :
             /\ SetSocket(t.owner, h, NewSocket)
             /\ \/ /\ WSASocket(h, "listening")
                   /\ Becomes(t, {Task("AcceptIO", t.owner, NoSocket)})
                   /\ UNCHANGED failed \/ Fails
                \/ Fails /\ WSASocket(h, "fresh") /\ Becomes(t, {})
       \/ Fails /\ Becomes(t, {}) /\ UNCHANGED <<kernel, conn, socket, mine>>
    /\ UNCHANGED <<lastSessionID, sessions, backlog, calls, arrived, receivers>>

\* NetworkTaskAcceptIO::Start, of a new task or at the end of Complete.
AcceptStart(t) ==
    /\ t.kind = "AcceptIO" /\ t.at \in {"posted", "running"}
    /\ \/ \E h \in Handles :
             /\ WSASocket(h, "fresh")
             /\ \/ /\ StateAt(socket[t.owner]) = "listening"
                   /\ Becomes(t, {[t EXCEPT !.at = "pending", !.socket = h,
                                            !.on = SocketAt(socket[t.owner])]})
                   /\ UNCHANGED failed
                \/ Fails /\ Becomes(t, {})
       \/ Fails /\ Becomes(t, {}) /\ UNCHANGED <<kernel, conn>>
    /\ UNCHANGED <<lastSessionID, sessions, socket, backlog, calls, arrived, mine,
                   receivers>>

\* The accept task t without a socket, about to run Start.
Again(t) == [t EXCEPT !.at = "running", !.socket = NoSocket, !.on = 0]

\* NetworkTaskAcceptIO::Complete for a peer that connected.  The remote address
\* may be missing.  Nothing in the programs removes the listening session.
AcceptComplete(t) ==
    /\ t.kind = "AcceptIO" /\ t.at = "pending"
    /\ backlog > 0
    /\ backlog' = backlog - 1
    /\ conn' = [conn EXCEPT ![SocketAt(t.socket)] = "connected"]
    /\ \/ Becomes(t, {Again(t), Task("NewUser", 0, t.socket)}) /\ UNCHANGED failed
       \/ Becomes(t, {Again(t)}) /\ Fails
    /\ UNCHANGED <<lastSessionID, sessions, socket, kernel, calls, arrived,
                   mine, receivers>>

\* Slip: a failed accept ends the task.
TurnAwayEnds(t) == closesocket(t.socket) /\ Becomes(t, {})

\* Slip: the socket of a failed accept is not closed.
TurnAwayLeaks(t) == Becomes(t, {Again(t)}) /\ UNCHANGED <<kernel, conn>>

\* Complete closes the socket of a failed accept and runs Start.
TurnAway(t) == closesocket(t.socket) /\ Becomes(t, {Again(t)})

\* NetworkTaskAcceptIO::Complete when the peer left before it was accepted.
AcceptFailed(t) ==
    /\ t.kind = "AcceptIO" /\ t.at = "pending"
    /\ backlog > 0
    /\ backlog' = backlog - 1
    /\ TurnAway(t)
    /\ UNCHANGED <<lastSessionID, sessions, socket, calls, arrived, failed, mine,
                   receivers>>

\* Slip: the receive task is posted twice.
PostReceiveTwice(s) == receivers' = [receivers EXCEPT ![s] = @ + 2]

\* A new NetworkTaskReceiveIO for s is among the tasks posted.
PostReceive(s) == receivers' = [receivers EXCEPT ![s] = @ + 1]

\* NetworkTaskNewUser: OnAccept sets the socket, sends FConnectAck and posts
\* the receive task.
OnAccept(t) ==
    /\ t.kind = "NewUser" /\ t.at = "running"
    /\ SetSocket(t.owner, t.socket, SocketAt(t.socket))
    /\ PostReceive(t.owner)
    /\ Becomes(t, {Task("Send", t.owner, NoSocket),
                   Task("ReceiveIO", t.owner, NoSocket)})
    /\ UNCHANGED <<lastSessionID, sessions, kernel, conn, appVars>>

\* NetworkTaskConnect: NetworkSession::Connect posts the task that connects.
\* Run returns true.
SessionConnect(t) ==
    /\ t.kind = "Connect" /\ t.at = "running"
    /\ Becomes(t, {[t EXCEPT !.at = "kept"], Task("ConnectIO", t.owner, NoSocket)})
    /\ UNCHANGED <<lastSessionID, sessions, socket, kernel, conn, appVars, mine,
                   receivers>>

\* NetworkTaskConnectIO::Start as far as SetSocket.
ConnectStart(t) ==
    /\ t.kind = "ConnectIO" /\ t.at = "posted"
    /\ \/ \E h \in Handles :
             /\ WSASocket(h, "fresh")
             /\ SetSocket(t.owner, h, NewSocket)
             /\ Becomes(t, {[t EXCEPT !.at = "running"]})
             /\ UNCHANGED failed
       \/ Fails /\ Becomes(t, {}) /\ UNCHANGED <<kernel, conn, socket, mine>>
    /\ UNCHANGED <<lastSessionID, sessions, backlog, calls, arrived, receivers>>

\* NetworkTaskConnectIO::Start: bind and ConnectEx on whatever m_socket is now.
ConnectEx(t) ==
    LET h == socket[t.owner]
    IN  /\ t.kind = "ConnectIO" /\ t.at = "running"
        /\ \/ /\ StateAt(h) = "fresh"
              /\ conn' = [conn EXCEPT ![SocketAt(h)] = "connecting"]
              /\ Becomes(t, {[t EXCEPT !.at = "pending", !.on = SocketAt(h)]})
              /\ UNCHANGED failed
           \/ /\ MayFail \/ StateAt(h) # "fresh"
              /\ failed' = (failed \/ StateAt(h) = "fresh")
              /\ Becomes(t, {})
              /\ UNCHANGED conn
        /\ UNCHANGED <<lastSessionID, sessions, socket, kernel, backlog, calls,
                       arrived, mine, receivers>>

\* NetworkTaskConnectIO::Complete: OnConnected posts the receive task.
ConnectComplete(t) ==
    /\ t.kind = "ConnectIO" /\ t.at = "pending"
    /\ conn[t.on] = "connecting"
    /\ conn' = [conn EXCEPT ![t.on] = "connected"]
    /\ PostReceive(t.owner)
    /\ Becomes(t, {Task("ReceiveIO", t.owner, NoSocket)})
    /\ UNCHANGED <<lastSessionID, sessions, socket, kernel, appVars, mine>>

\* NetworkTaskConnectIO::Complete: refused by the peer, or the socket was
\* closed meanwhile.
ConnectFailed(t) ==
    /\ t.kind = "ConnectIO" /\ t.at = "pending"
    /\ conn[t.on] \in {"connecting", "closed"}
    /\ conn' = [conn EXCEPT ![t.on] = IF @ = "connecting" THEN "gone" ELSE @]
    /\ Becomes(t, {})
    /\ UNCHANGED <<lastSessionID, sessions, socket, kernel, appVars, mine,
                   receivers>>

\* WSARecv or WSASend on m_socket: accepted on a connection, refused otherwise.
\* After the peer left either may happen.
StartIO(t) ==
    LET h == socket[t.owner]
    IN  \/ /\ StateAt(h) \in {"connected", "gone"}
           /\ Becomes(t, {[t EXCEPT !.at = "pending", !.on = SocketAt(h)]})
           /\ UNCHANGED failed
        \/ /\ StateAt(h) # "connected" \/ MayFail
           /\ failed' = (failed \/ StateAt(h) = "connected")
           /\ Becomes(t, {})

\* NetworkTaskReceiveIO::Start, of a new task or at the end of Complete.
ReceiveStart(t) ==
    /\ t.kind = "ReceiveIO" /\ t.at \in {"posted", "running"}
    /\ StartIO(t)
    /\ UNCHANGED <<lastSessionID, sessions, socket, kernel, conn, backlog, calls,
                   arrived, mine, receivers>>

\* NetworkTaskReceiveIO::Complete with data.
ReceiveComplete(t) ==
    /\ t.kind = "ReceiveIO" /\ t.at = "pending"
    /\ conn[t.on] = "connected"
    /\ Becomes(t, {[t EXCEPT !.at = "running", !.on = 0]})
    /\ UNCHANGED <<lastSessionID, sessions, socket, kernel, conn, appVars, mine,
                   receivers>>

\* Slip: the connection is closed but the session stays registered.
DropSessionKeeps(s) == closesocket(socket[s]) /\ UNCHANGED sessions

\* How Complete gives up the session of a receive that failed.
DropSession(s) == RemoveSession(s)

\* NetworkTaskReceiveIO::Complete with a failure or no data.
ReceiveFailed(t) ==
    /\ t.kind = "ReceiveIO" /\ t.at = "pending"
    /\ conn[t.on] \in {"gone", "closed"}
    /\ DropSession(t.owner)
    /\ Becomes(t, {})
    /\ UNCHANGED <<lastSessionID, socket, appVars, mine, receivers>>

\* NetworkTaskSend::Start
SendStart(t) ==
    /\ t.kind = "Send" /\ t.at = "posted"
    /\ StartIO(t)
    /\ UNCHANGED <<lastSessionID, sessions, socket, kernel, conn, backlog, calls,
                   arrived, mine, receivers>>

\* NetworkTaskSend::Complete, whatever the result.
SendComplete(t) ==
    /\ t.kind = "Send" /\ t.at = "pending"
    /\ Becomes(t, {})
    /\ UNCHANGED <<lastSessionID, sessions, socket, kernel, conn, appVars, mine,
                   receivers>>

-----------------------------------------------------------------------------
\* What the workers do with t.
TaskStep(t) ==
    \/ CreateNewSession(t)
    \/ SessionListen(t) \/ AcceptStart(t) \/ AcceptComplete(t) \/ AcceptFailed(t)
    \/ OnAccept(t)
    \/ SessionConnect(t) \/ ConnectStart(t) \/ ConnectEx(t)
    \/ ConnectComplete(t) \/ ConnectFailed(t)
    \/ ReceiveStart(t) \/ ReceiveComplete(t) \/ ReceiveFailed(t)
    \/ SendStart(t) \/ SendComplete(t)

Next ==
    \/ PeerArrives
    \/ \E n \in 1..Len(conn) : PeerLeaves(n)
    \/ Listen
    \/ \E t \in tasks : TaskStep(t)

Spec == Init /\ [][Next]_vars

\* The accept task goes on, unless a call failed: the completion port hands it
\* to a worker, and a waiting peer completes the AcceptEx.
AcceptSteps ==
    \E t \in tasks :
        \/ t.kind = "Listen" /\ (CreateNewSession(t) \/ SessionListen(t))
        \/ AcceptStart(t) \/ AcceptComplete(t) \/ AcceptFailed(t)

FairSpec == Spec /\ WF_vars(~failed /\ AcceptSteps)

-----------------------------------------------------------------------------
\* A session never gets a second receive task: RingQ has no lock and relies on
\* the task that was posted when the connection came up being the only one.
OneReceiver == \A s \in IDs : receivers[s] <= 1

\* A session in m_sessions that was given a socket still has it: the handle is
\* open and stands for that socket and no other.
RegisteredOwn ==
    \A s \in sessions : mine[s] # 0 => SocketAt(socket[s]) = mine[s]

\* Unless a call failed, no socket is lost: every open one belongs to a
\* registered session or to a task that will close it or hand it to a session.
SocketsOwned ==
    ~failed => \A h \in Handles : kernel[h] # 0 =>
        \/ \E s \in sessions : socket[s] = h /\ mine[s] = kernel[h]
        \/ \E t \in tasks : t.kind \in {"AcceptIO", "NewUser"} /\ t.socket = h

\* One failed accept does not end the accept loop: as long as no call fails, a
\* waiting peer is accepted or turned away.
EveryPeerAccepted == (backlog > 0) ~> (backlog = 0 \/ failed)
=============================================================================
