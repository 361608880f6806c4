---------------------------- MODULE MgmtSession ----------------------------
(***************************************************************************)
(* The agent registry of the main server: `Main.handle_mgmt_ws` in         *)
(* src/main/main.py, one handler coroutine per management WebSocket.       *)
(*                                                                         *)
(* All handlers run on one asyncio loop, so a step of the model is the     *)
(* code between two points where the coroutine really suspends:            *)
(*   - `ws.receive()` (states "hello" and "serve"),                        *)
(*   - `agent.ws.close()` of the connection being replaced ("replace"),    *)
(*   - `broadcast` to the browsers, which suspends when one of them does   *)
(*     not read its event stream ("announce", "relay", "leave").           *)
(* `audit` writes the file synchronously and its lock is never contended;  *)
(* `send_str` of the small first frame does not suspend either.  Neither   *)
(* is a step of its own.                                                   *)
(***************************************************************************)
EXTENDS Naturals, FiniteSets

CONSTANTS
    Conns,      \* management WebSockets (slots, reused when nothing refers to one)
    Agents,     \* the configured agents, keys of Main.agents
    NoConn,     \* Python's None for agent.ws, and "" for agent.session
    NoAgent,    \* a connection whose hello is not accepted yet
    Overlap     \* the agents whose next hello may arrive while main is still
                \* replacing a connection for an earlier hello of theirs

ASSUME SessionAssumption ==
    /\ NoConn \notin Conns
    /\ NoAgent \notin Agents
    /\ Overlap \subseteq Agents

VARIABLES
    pc,         \* where the handler of a connection is suspended
    who,        \* the agent named in the accepted hello of a connection
    closed,     \* WebSocketResponse.closed
    lost,       \* the transport is gone: sends raise, receive ends
    victim,     \* the connection whose close() a handler awaits
    ws,         \* AgentInfo.ws
    online,     \* AgentInfo.online
    session,    \* AgentInfo.session: the connection whose handler drew the uuid
    telemetry,  \* AgentInfo.telemetry: are there readings? (FALSE for {})
    lastAudit   \* the last presence event given to `audit`, per agent; a line that
                \* cannot be written is lost with a warning (main.py:111)

regVars  == <<ws, online, session, telemetry, lastAudit>>
vars     == <<pc, who, closed, lost, victim, ws, online, session, telemetry, lastAudit>>

PcStates == {"free", "hello", "replace", "announce", "serve", "relay", "leave",
             "done", "crashed"}

\* A handler that has registered its connection and not yet left its loop.
Attached(c) == pc[c] \in {"announce", "serve", "relay"}

----------------------------------------------------------------------------

Init ==
    /\ pc = [c \in Conns |-> "free"]
    /\ who = [c \in Conns |-> NoAgent]
    /\ closed = [c \in Conns |-> FALSE]
    /\ lost = [c \in Conns |-> FALSE]
    /\ victim = [c \in Conns |-> NoConn]
    /\ ws = [a \in Agents |-> NoConn]
    /\ online = [a \in Agents |-> FALSE]
    /\ session = [a \in Agents |-> NoConn]
    /\ telemetry = [a \in Agents |-> FALSE]
    /\ lastAudit = [a \in Agents |-> "none"]

\* A WebSocket is prepared; its handler waits for the first frame.
Connect(c) ==
    /\ pc[c] = "free"
    /\ pc' = [pc EXCEPT ![c] = "hello"]
    /\ UNCHANGED <<who, closed, lost, victim, regVars>>

\* No hello in 10 s, a frame that is not one, an unknown agent or a wrong
\* token: the connection is closed and the registry is not touched.
RejectHello(c) ==
    /\ pc[c] = "hello"
    /\ pc' = [pc EXCEPT ![c] = "done"]
    /\ closed' = [closed EXCEPT ![c] = TRUE]
    /\ UNCHANGED <<who, lost, victim, regVars>>

\* A slip: the session id is drawn once per agent instead of once per
\* connection.
RegisterOnceDrawn(c, a) ==
    /\ ws' = [ws EXCEPT ![a] = c]
    /\ online' = [online EXCEPT ![a] = TRUE]
    /\ session' = [session EXCEPT ![a] = IF @ = NoConn THEN c ELSE @]
    /\ ~closed[c] /\ ~lost[c]
    /\ pc' = [pc EXCEPT ![c] = "announce"]
    /\ lastAudit' = [lastAudit EXCEPT ![a] = "agent_online"]

\* The registration, down to the broadcast of the new status.  A hello_ok
\* that cannot be sent raises out of the handler: the agent stays registered.
Register(c, a) ==
    /\ ws' = [ws EXCEPT ![a] = c]
    /\ online' = [online EXCEPT ![a] = TRUE]
    /\ session' = [session EXCEPT ![a] = c]
    /\ \/ /\ ~closed[c] /\ ~lost[c]
          /\ pc' = [pc EXCEPT ![c] = "announce"]
          /\ lastAudit' = [lastAudit EXCEPT ![a] = "agent_online"]
       \/ /\ closed[c] \/ lost[c]
          /\ pc' = [pc EXCEPT ![c] = "crashed"]
          /\ UNCHANGED lastAudit

\* `agent.ws is not None and not agent.ws.closed`
HasOpenConn(a) == ws[a] # NoConn /\ ~closed[ws[a]]

\* close() of a connection whose transport is gone returns without suspending.
NothingToAwait(a) == HasOpenConn(a) => lost[ws[a]]

\* A valid hello of an agent that has no connection on record, or one that is
\* closed or turns out to be gone.
AcceptFresh(c, a) ==
    /\ pc[c] = "hello" /\ ~closed[c]
    /\ NothingToAwait(a)
    /\ who' = [who EXCEPT ![c] = a]
    /\ closed' = [d \in Conns |-> closed[d] \/ d = ws[a]]
    /\ Register(c, a)
    /\ UNCHANGED <<lost, victim, telemetry>>

\* A slip: the stale connection is awaited but never told to close.
AcceptReplacingUnclosed(c, a) ==
    /\ pc[c] = "hello" /\ ~closed[c]
    /\ ~NothingToAwait(a)
    /\ pc' = [pc EXCEPT ![c] = "replace"]
    /\ who' = [who EXCEPT ![c] = a]
    /\ victim' = [victim EXCEPT ![c] = ws[a]]
    /\ UNCHANGED <<closed, lost, regVars>>

\* A slip: the record is cleared before the connection on it is closed.
AcceptReplacingCleared(c, a) ==
    /\ pc[c] = "hello" /\ ~closed[c]
    /\ ~NothingToAwait(a)
    /\ pc' = [pc EXCEPT ![c] = "replace"]
    /\ who' = [who EXCEPT ![c] = a]
    /\ ws' = [ws EXCEPT ![a] = NoConn]
    /\ victim' = [victim EXCEPT ![c] = ws'[a]]
    /\ UNCHANGED <<closed, lost, online, session, telemetry, lastAudit>>

\* A valid hello of an agent whose connection on record is still open: close
\* it first, and wait for that.
AcceptReplacing(c, a) ==
    /\ pc[c] = "hello" /\ ~closed[c]
    /\ ~NothingToAwait(a)
    /\ pc' = [pc EXCEPT ![c] = "replace"]
    /\ who' = [who EXCEPT ![c] = a]
    /\ victim' = [victim EXCEPT ![c] = ws[a]]
    /\ closed' = [closed EXCEPT ![ws[a]] = TRUE]
    /\ UNCHANGED <<lost, regVars>>

Accept(c, a) ==
    /\ a \in Overlap \/ \A d \in Conns : ~(pc[d] = "replace" /\ who[d] = a)
    /\ AcceptFresh(c, a) \/ AcceptReplacing(c, a)

\* A slip: no timeout on the close, so its handler must have ended.
InstallUntimed(c) ==
    /\ pc[c] = "replace"
    /\ pc[victim[c]] \in {"leave", "done"}
    /\ Register(c, who[c])
    /\ victim' = [victim EXCEPT ![c] = NoConn]
    /\ UNCHANGED <<who, closed, lost, telemetry>>

\* close() has returned.  While the replaced handler sat in receive() it
\* wakes that handler first; otherwise it gives up after its timeout.
Install(c) ==
    /\ pc[c] = "replace"
    /\ pc[victim[c]] # "serve"
    /\ Register(c, who[c])
    /\ victim' = [victim EXCEPT ![c] = NoConn]
    /\ UNCHANGED <<who, closed, lost, telemetry>>

\* The "online" broadcast, or the one of a telemetry frame, has reached every
\* event stream: the handler reads its next frame.
BroadcastDone(c) ==
    /\ pc[c] \in {"announce", "relay"}
    /\ pc' = [pc EXCEPT ![c] = "serve"]
    /\ UNCHANGED <<who, closed, lost, victim, regVars>>

\* A telemetry frame: the handler stores it under its agent, whoever is
\* registered for that agent, and broadcasts it.
Telemetry(c) ==
    /\ pc[c] = "serve" /\ ~closed[c] /\ ~lost[c]
    /\ telemetry' = [telemetry EXCEPT ![who[c]] = TRUE]
    /\ pc' = [pc EXCEPT ![c] = "relay"]
    /\ UNCHANGED <<who, closed, lost, victim, ws, online, session, lastAudit>>

\* A slip: no session guard.
OwnsSessionAlways(c) == TRUE

\* The session of this handler is still the registered one.
OwnsSession(c) == session[who[c]] = c

\* A slip: the finally clause forgets the connection on record.
LeaveRegisteredKeepsWs(c) ==
    /\ OwnsSession(c)
    /\ online' = [online EXCEPT ![who[c]] = FALSE]
    /\ telemetry' = [telemetry EXCEPT ![who[c]] = FALSE]
    /\ lastAudit' = [lastAudit EXCEPT ![who[c]] = "agent_offline"]
    /\ pc' = [pc EXCEPT ![c] = "leave"]
    /\ UNCHANGED <<ws, session>>

\* A slip: the finally clause forgets the readings.
LeaveRegisteredKeepsReadings(c) ==
    /\ OwnsSession(c)
    /\ online' = [online EXCEPT ![who[c]] = FALSE]
    /\ ws' = [ws EXCEPT ![who[c]] = NoConn]
    /\ lastAudit' = [lastAudit EXCEPT ![who[c]] = "agent_offline"]
    /\ pc' = [pc EXCEPT ![c] = "leave"]
    /\ UNCHANGED <<session, telemetry>>

\* The receive loop ends: the finally clause.
LeaveRegistered(c) ==
    /\ OwnsSession(c)
    /\ online' = [online EXCEPT ![who[c]] = FALSE]
    /\ ws' = [ws EXCEPT ![who[c]] = NoConn]
    /\ telemetry' = [telemetry EXCEPT ![who[c]] = FALSE]
    /\ lastAudit' = [lastAudit EXCEPT ![who[c]] = "agent_offline"]
    /\ pc' = [pc EXCEPT ![c] = "leave"]
    /\ UNCHANGED session

\* A slip: the audit stands outside the session guard.
LeaveReplacedAudits(c) ==
    /\ ~OwnsSession(c)
    /\ lastAudit' = [lastAudit EXCEPT ![who[c]] = "agent_offline"]
    /\ pc' = [pc EXCEPT ![c] = "done"]
    /\ UNCHANGED <<ws, online, session, telemetry>>

LeaveReplaced(c) ==
    /\ ~OwnsSession(c)
    /\ pc' = [pc EXCEPT ![c] = "done"]
    /\ UNCHANGED regVars

Leave(c) ==
    /\ pc[c] = "serve"
    /\ closed[c] \/ lost[c]
    /\ closed' = [closed EXCEPT ![c] = TRUE]
    /\ LeaveRegistered(c) \/ LeaveReplaced(c)
    /\ UNCHANGED <<who, lost, victim>>

\* The "offline" broadcast is out and the handler returns.
LeaveDone(c) ==
    /\ pc[c] = "leave"
    /\ pc' = [pc EXCEPT ![c] = "done"]
    /\ UNCHANGED <<who, closed, lost, victim, regVars>>

----------------------------------------------------------------------------
(* The environment: aiohttp and the network.                               *)

Connected(c) == pc[c] \notin {"free", "leave", "done"}

\* The peer closed the connection or its TCP connection broke, and main has
\* read what was sent before.
PeerGone(c) ==
    /\ Connected(c) /\ ~lost[c]
    /\ lost' = [lost EXCEPT ![c] = TRUE]
    /\ UNCHANGED <<pc, who, closed, victim, regVars>>

\* No pong within the 20 s heartbeat: aiohttp closes the WebSocket by itself,
\* also when the pong is only unread because the handler is in a broadcast.
HeartbeatExpire(c) ==
    /\ Connected(c) /\ ~closed[c]
    /\ closed' = [closed EXCEPT ![c] = TRUE]
    /\ UNCHANGED <<pc, who, lost, victim, regVars>>

\* The slot of a finished handler that no variable refers to serves again.
Reuse(c) ==
    /\ pc[c] \in {"done", "crashed"}
    /\ \A a \in Agents : c \notin {ws[a], session[a]}
    /\ \A d \in Conns : victim[d] # c
    /\ pc' = [pc EXCEPT ![c] = "free"]
    /\ who' = [who EXCEPT ![c] = NoAgent]
    /\ closed' = [closed EXCEPT ![c] = FALSE]
    /\ lost' = [lost EXCEPT ![c] = FALSE]
    /\ UNCHANGED <<victim, regVars>>

----------------------------------------------------------------------------

Next ==
    \E c \in Conns :
        \/ Connect(c)
        \/ RejectHello(c)
        \/ \E a \in Agents : Accept(c, a)
        \/ Install(c)
        \/ BroadcastDone(c)
        \/ Telemetry(c)
        \/ Leave(c)
        \/ LeaveDone(c)
        \/ PeerGone(c)
        \/ HeartbeatExpire(c)
        \/ Reuse(c)

\* What the code owes: the loop runs every ready handler, and close() and the
\* hello timeout are bounded by 10 s.  Peers owe nothing, and nor do browsers: a
\* broadcast that one of them holds up need not end (EventStream).
Fairness ==
    \A c \in Conns :
        WF_vars(RejectHello(c)) /\ WF_vars(Install(c)) /\ WF_vars(Leave(c))

Spec == Init /\ [][Next]_vars
FairSpec == Spec /\ Fairness

----------------------------------------------------------------------------

TypeOK ==
    /\ pc \in [Conns -> PcStates]
    /\ who \in [Conns -> Agents \cup {NoAgent}]
    /\ closed \in [Conns -> BOOLEAN]
    /\ lost \in [Conns -> BOOLEAN]
    /\ victim \in [Conns -> Conns \cup {NoConn}]
    /\ ws \in [Agents -> Conns \cup {NoConn}]
    /\ online \in [Agents -> BOOLEAN]
    /\ session \in [Agents -> Conns \cup {NoConn}]
    /\ telemetry \in [Agents -> BOOLEAN]
    /\ lastAudit \in [Agents -> {"none", "agent_online", "agent_offline"}]
    /\ \A c \in Conns : Attached(c) \/ pc[c] = "replace" => who[c] \in Agents
    /\ \A c \in Conns : pc[c] = "replace" => victim[c] \in Conns

\* An agent is shown online exactly while a connection is on record for it,
\* and that connection is one its own handler will take off the record: the
\* handler registered it for this agent, still holds the session and has not
\* left.  The one exception is a handler that died sending hello_ok.
OnlineHasHandler ==
    \A a \in Agents :
        /\ online[a] <=> ws[a] # NoConn
        /\ ws[a] # NoConn =>
              /\ session[a] = ws[a]
              /\ who[ws[a]] = a
              /\ Attached(ws[a]) \/ pc[ws[a]] = "crashed"

\* The audit log agrees with what /api/agents shows: the last presence event
\* of an agent main has put on it is "agent_online" exactly while the agent is
\* online, except after a handler that died between registering and auditing.
AuditTellsPresence ==
    \A a \in Agents :
        /\ lastAudit[a] = "agent_online" => online[a]
        /\ online[a] /\ lastAudit[a] # "agent_online" => pc[ws[a]] = "crashed"

\* No handler takes an agent offline under another one's connection: the
\* agent goes offline only when the connection on record is closed or lost.
NoFalseOffline ==
    [][\A a \in Agents :
          online[a] /\ ~online'[a] =>
              ws[a] \in Conns /\ (closed[ws[a]] \/ lost[ws[a]])]_vars

\* Each connection that serves an agent and is open is the one on record:
\* "replace any stale connection for this agent" (main.py:190) leaves no
\* second session behind that main would never send to again.  With
\* overlapping hellos it does: see Fleet.
OneLiveSession ==
    \A c \in Conns :
        Attached(c) /\ ~closed[c] /\ who[c] \notin Overlap => ws[who[c]] = c

\* An agent that is offline shows no readings.
OfflineHasNoTelemetry ==
    \A a \in Agents \ Overlap : ~online[a] => ~telemetry[a]

\* Does a broadcast of the handler of a connection never end?
HeldForEver(c) == <>[](pc[c] \in {"announce", "relay"})

\* A connection that is lost does not stay on record: some handler replaces
\* it or takes the agent offline, unless its own handler died in hello_ok or is
\* held for ever in a broadcast.  Broadcasts of other handlers do not delay it.
LostGoesOffline ==
    \A c \in Conns, a \in Agents :
        \/ (ws[a] = c /\ (closed[c] \/ lost[c])) ~> (ws[a] # c \/ pc[c] = "crashed")
        \/ HeldForEver(c)

\* An accepted hello gets its session: the handler comes to serve it, however
\* the connection it replaces behaves, be its handler held in a broadcast for
\* ever, unless the new connection dies too or its own broadcast never ends.
AcceptedIsServed ==
    \A c \in Conns :
        \/ (pc[c] \in {"replace", "announce"}) ~> (pc[c] = "serve" \/ closed[c] \/ lost[c])
        \/ HeldForEver(c)
=============================================================================
