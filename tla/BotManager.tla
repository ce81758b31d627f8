----------------------------- MODULE BotManager -----------------------------
(***************************************************************************)
(* The bots of DummyClient on top of NetworkServer: the main loop connects *)
(* a number of bots, gives them sessions as the workers create these, and  *)
(* lets them send, leave and come back.  It never hears of a connection:   *)
(* it asks NetworkServer for the session with the next number.             *)
(*                                                                         *)
(* The loop handles one bot per step, since it takes NetworkServer's lock  *)
(* for each; workers and peers interleave.  The clock is left out: a time  *)
(* a bot waits for has come or has not come.                               *)
(***************************************************************************)
EXTENDS NetworkServer

CONSTANTS BotCount, PacketsPerBot, ReconnectRatePct,  \* BotConfig
          Scenario,     \* "StaticSendRecv", "DisconnectOnly" or "Reconnect"
          MaxSends      \* bound: packets sent

ASSUME BotAssumption ==
    /\ BotCount \in Nat \ {0} /\ PacketsPerBot \in Nat /\ ReconnectRatePct \in Nat
    /\ Scenario \in {"StaticSendRecv", "DisconnectOnly", "Reconnect"}
    /\ MaxSends \in Nat

VARIABLES bots,            \* m_bots, [state, sessionID, packetsSent]
          lastAssignedID,  \* m_lastAssignedID
          loop             \* where the main thread is, [at, bot]

botVars == <<bots, lastAssignedID, loop>>

Bots == 1..BotCount

BotInit ==
    /\ Init
    /\ bots = [b \in Bots |-> [state |-> "Connecting", sessionID |-> 0,
                               packetsSent |-> 0]]
    /\ lastAssignedID = 0
    /\ loop = [at |-> "Start", bot |-> 1]

\* The main thread handles bot b in the given part of the loop.
At(part, b) == loop = [at |-> part, bot |-> b]

\* It goes on with the next bot, or with the first one in the next part.
Goto(part, b) == loop' = [at |-> part, bot |-> b]
After(b, part, next) ==
    IF b < BotCount THEN Goto(part, b + 1) ELSE Goto(next, 1)

-----------------------------------------------------------------------------
\* Start
StartBot(b) ==
    /\ At("Start", b)
    /\ Connect
    /\ After(b, "Start", "Assign")
    /\ UNCHANGED <<bots, lastAssignedID>>

\* Slip: the search ends at the first bot that has a session.
SkipBotEnds(b) == Goto("Act", 1)

\* TryAssignSessionIDs goes on to the next bot.
SkipBot(b) == After(b, "Assign", "Act")

\* Slip: m_lastAssignedID is not incremented.
AssignedKept == lastAssignedID

\* m_lastAssignedID after a session was assigned.
Assigned == lastAssignedID + 1

\* TryAssignSessionIDs: a connecting bot takes the next session; when it is not
\* there the search is over.
TryAssignSessionID(b) ==
    /\ At("Assign", b)
    /\ \/ /\ bots[b].state # "Connecting"
          /\ SkipBot(b)
          /\ UNCHANGED <<bots, lastAssignedID>>
       \/ /\ bots[b].state = "Connecting" /\ lastAssignedID + 1 \notin sessions
          /\ Goto("Act", 1)
          /\ UNCHANGED <<bots, lastAssignedID>>
       \/ /\ bots[b].state = "Connecting" /\ lastAssignedID + 1 \in sessions
          /\ bots' = [bots EXCEPT ![b].state = "Connected",
                                  ![b].sessionID = lastAssignedID + 1]
          /\ lastAssignedID' = Assigned
          /\ SkipBot(b)
    /\ UNCHANGED vars

\* SendPacket: the packet counts if the session is still there.
SendPacket(b) ==
    /\ At("Act", b)
    /\ bots[b].state = "Connected" /\ bots[b].packetsSent < PacketsPerBot
    /\ \/ /\ bots[b].sessionID \in sessions
          /\ Send(bots[b].sessionID, MaxSends)
          /\ bots' = [bots EXCEPT ![b].packetsSent = @ + 1]
       \/ bots[b].sessionID \notin sessions /\ UNCHANGED <<bots, vars>>
    /\ Goto("Cycle", b)
    /\ UNCHANGED lastAssignedID

\* ShouldThisBotReconnect, and what the other scenarios do after a cycle.
Leaves(b) ==
    \/ Scenario = "DisconnectOnly"
    \/ Scenario = "Reconnect" /\ ((b - 1) * 100) \div BotCount < ReconnectRatePct

\* The rest of Tick for a connected bot, or all of it when there is nothing to
\* send yet: at the end of a cycle DisconnectBot, or the next cycle.
EndCycle(b) ==
    /\ At("Act", b) \/ At("Cycle", b)
    /\ bots[b].state = "Connected"
    /\ \/ /\ bots[b].packetsSent >= PacketsPerBot /\ Leaves(b)
          /\ RemoveSession(bots[b].sessionID)
          /\ bots' = [bots EXCEPT ![b].state = "Disconnected", ![b].sessionID = 0]
          /\ UNCHANGED <<lastSessionID, socket, tasks, appVars, mine, receivers>>
       \/ /\ bots[b].packetsSent >= PacketsPerBot /\ ~Leaves(b)
          /\ bots' = [bots EXCEPT ![b].packetsSent = 0]
          /\ UNCHANGED vars
       \/ bots[b].packetsSent < PacketsPerBot /\ UNCHANGED <<bots, vars>>
    /\ After(b, "Act", "Assign")
    /\ UNCHANGED lastAssignedID

\* ReconnectBot
ReconnectBot(b) ==
    /\ At("Act", b)
    /\ bots[b].state = "Disconnected"
    /\ Connect
    /\ bots' = [bots EXCEPT ![b].state = "Connecting", ![b].packetsSent = 0]
    /\ After(b, "Act", "Assign")
    /\ UNCHANGED lastAssignedID

\* Tick for a bot that is connecting, or whose delay is not over.
Wait(b) ==
    /\ At("Act", b)
    /\ bots[b].state # "Connected"
    /\ After(b, "Act", "Assign")
    /\ UNCHANGED <<bots, lastAssignedID, vars>>

\* Run leaves the loop when a stop was requested.
Stop ==
    /\ At("Assign", 1)
    /\ Goto("Stopped", 1)
    /\ UNCHANGED <<bots, lastAssignedID, vars>>

MainLoop ==
    \E b \in Bots :
        \/ StartBot(b) \/ TryAssignSessionID(b) \/ SendPacket(b)
        \/ EndCycle(b) \/ ReconnectBot(b) \/ Wait(b)

\* The workers of NetworkServer take the tasks, and the other ends leave.
Workers == (\E t \in tasks : TaskStep(t)) /\ UNCHANGED botVars
Peers == (\E n \in 1..Len(conn) : PeerLeaves(n)) /\ UNCHANGED botVars

BotNext == MainLoop \/ Stop \/ Workers \/ Peers

\* A worker is free for a Connect task that waits.
NewSessions ==
    (\E t \in tasks : t.kind = "Connect" /\ CreateNewSession(t)) /\ UNCHANGED botVars

BotSpec ==
    /\ BotInit /\ [][BotNext]_<<vars, botVars>>
    /\ WF_<<vars, botVars>>(MainLoop) /\ WF_<<vars, botVars>>(NewSessions)

-----------------------------------------------------------------------------
\* Bots do not share sessions and leave none behind, however often they came
\* and went: a session that was handed out and is still registered belongs to
\* a bot, and no session belongs to two.
SessionsHeld ==
    /\ \A s \in sessions :
           s <= lastAssignedID => \E b \in Bots : bots[b].sessionID = s
    /\ \A b, c \in Bots :
           b # c => bots[b].sessionID = 0 \/ bots[b].sessionID # bots[c].sessionID

\* The session whose turn it is was removed before a bot could take it.
Blocked == lastAssignedID + 1 < lastSessionID /\ lastAssignedID + 1 \notin sessions

\* A bot that connects gets a session, unless the run is stopped or the next
\* session is lost: then no bot is ever given one again.
EveryBotConnects ==
    \A b \in Bots :
        At("Assign", 1) /\ bots[b].state = "Connecting"
            ~> bots[b].state = "Connected" \/ Blocked \/ loop.at = "Stopped"
=============================================================================
