------------------------------- MODULE Fleet -------------------------------
(***************************************************************************)
(* The agents' daemons against the registry of main: the reconnect loop of *)
(* src/agent/agent.py (AgentDaemon) and `handle_mgmt_ws` (MgmtSession),    *)
(* joined by the connections the daemons open.                             *)
(*                                                                         *)
(* Every action is one of a daemon, of main, or of the network.  Those of  *)
(* main are the actions of MgmtSession, restricted by what is on its way   *)
(* to them: a hello comes from a daemon.  The two ends of a connection     *)
(* notice its end each by itself.  The network may break anything until it *)
(* calms down; calm only serves to state what happens then.                *)
(***************************************************************************)
EXTENDS MgmtSession

CONSTANTS
    Daemons,    \* the running daemons
    Name        \* AGENT_NAME of a daemon

ASSUME FleetAssumption == Name \in [Daemons -> Agents]

VARIABLES
    phase,      \* where the daemon's loop is
    at,         \* the connection of a daemon's attempt or session
    hello,      \* the agent named in the hello that was sent on a connection
    welcomed,   \* the connections on which main sent hello_ok
    calm        \* the network and the browsers do no more harm

daemonVars == <<phase, at>>
netVars == <<hello, welcomed, calm>>
fleetVars == <<vars, phase, at, hello, welcomed, calm>>

FleetInit ==
    /\ Init
    /\ phase = [d \in Daemons |-> "connect"]
    /\ at = [d \in Daemons |-> NoConn]
    /\ hello = [c \in Conns |-> NoAgent]
    /\ welcomed = {}
    /\ calm = FALSE

----------------------------------------------------------------------------
(* A daemon.                                                               *)

\* The WebSocket opens, and the hello is the first thing sent on it.
Dial(d, c) ==
    /\ phase[d] = "connect"
    /\ Connect(c)
    /\ phase' = [phase EXCEPT ![d] = "handshake"]
    /\ at' = [at EXCEPT ![d] = c]
    /\ hello' = [hello EXCEPT ![c] = Name[d]]
    /\ UNCHANGED <<welcomed, calm>>

DialFails(d) ==
    /\ phase[d] = "connect" /\ ~calm
    /\ phase' = [phase EXCEPT ![d] = "pause"]
    /\ UNCHANGED <<vars, at, netVars>>

\* The pause after a failure is over.
Retry(d) ==
    /\ phase[d] = "pause"
    /\ phase' = [phase EXCEPT ![d] = "connect"]
    /\ UNCHANGED <<vars, at, netVars>>

\* A slip: a daemon that waits for the answer does not notice the end.
GoneUnanswered(d) == phase[d] = "serve" /\ (closed[at[d]] \/ lost[at[d]])

\* The connection of a daemon is over: main closed it, or it broke.
Gone(d) == at[d] \in Conns /\ (closed[at[d]] \/ lost[at[d]])

\* The daemon leaves its connection.  Main finds out by itself, see Noticed.
HangUp(d, next) ==
    /\ phase' = [phase EXCEPT ![d] = next]
    /\ at' = [at EXCEPT ![d] = NoConn]
    /\ UNCHANGED <<vars, netVars>>

\* hello_ok is read.  No timeout of the daemon covers the wait for it.
Welcome(d) ==
    /\ phase[d] = "handshake" /\ at[d] \in welcomed
    /\ phase' = [phase EXCEPT ![d] = "serve"]
    /\ UNCHANGED <<vars, at, netVars>>

\* The connection ends before hello_ok is read: _handshake raises.
HandshakeFails(d) == phase[d] = "handshake" /\ Gone(d) /\ HangUp(d, "pause")

\* The session ends: cleanly, which starts the next attempt at once, or with
\* an exception.
SessionEnds(d) ==
    /\ phase[d] = "serve" /\ Gone(d)
    /\ HangUp(d, "connect") \/ HangUp(d, "pause")

\* The connection breaks for the daemon, which gives it up, while main still
\* takes it for open.
Drop(d) ==
    /\ ~calm
    /\ \/ phase[d] = "handshake" /\ HangUp(d, "pause")
       \/ phase[d] = "serve" /\ (HangUp(d, "connect") \/ HangUp(d, "pause"))

----------------------------------------------------------------------------
(* Main.                                                                   *)

\* hello_ok goes out in the step that registers a connection alive.
Registers(c) ==
    /\ welcomed' = IF pc'[c] = "announce" THEN welcomed \cup {c} ELSE welcomed
    /\ UNCHANGED <<daemonVars, hello, calm>>

ReadHello(c) == hello[c] \in Agents /\ Accept(c, hello[c]) /\ Registers(c)

Replaced(c) == Install(c) /\ Registers(c)

\* The hello did not arrive within 10 s, or the connection broke before it.
MissHello(c) ==
    /\ ~calm \/ lost[c]
    /\ RejectHello(c)
    /\ UNCHANGED <<daemonVars, netVars>>

Handle(c) ==
    /\ BroadcastDone(c) \/ Telemetry(c) \/ Leave(c) \/ LeaveDone(c)
    /\ UNCHANGED <<daemonVars, netVars>>

\* In calm, only a connection that is lost misses its heartbeat.
Heartbeat(c) ==
    /\ ~calm \/ lost[c]
    /\ HeartbeatExpire(c)
    /\ UNCHANGED <<daemonVars, netVars>>

----------------------------------------------------------------------------
(* The network, and the slots for connections.                             *)

\* Main's end breaks; the daemon finds out later.
Break(c) == ~calm /\ PeerGone(c) /\ UNCHANGED <<daemonVars, netVars>>

\* A connection whose daemon has left is lost for main when its reader or its
\* heartbeat sees that.
Noticed(c) ==
    /\ \A d \in Daemons : at[d] # c
    /\ PeerGone(c)
    /\ UNCHANGED <<daemonVars, netVars>>

CalmDown == ~calm /\ calm' = TRUE /\ UNCHANGED <<vars, daemonVars, hello, welcomed>>

Recycle(c) ==
    /\ Reuse(c) /\ \A d \in Daemons : at[d] # c
    /\ hello' = [hello EXCEPT ![c] = NoAgent]
    /\ welcomed' = welcomed \ {c}
    /\ UNCHANGED <<daemonVars, calm>>

----------------------------------------------------------------------------

FleetNext ==
    \/ \E d \in Daemons :
          \/ \E c \in Conns : Dial(d, c)
          \/ DialFails(d) \/ Retry(d) \/ Welcome(d)
          \/ HandshakeFails(d) \/ SessionEnds(d) \/ Drop(d)
    \/ \E c \in Conns :
          \/ ReadHello(c) \/ Replaced(c) \/ MissHello(c) \/ Handle(c) \/ Heartbeat(c)
          \/ Break(c) \/ Noticed(c) \/ Recycle(c)
    \/ CalmDown

\* Both loops run; what was sent on a connection that stays up arrives; main's
\* timeouts, the pause and the heartbeat elapse.  Nobody owes calm.
FleetFairness ==
    /\ \A d \in Daemons :
          /\ WF_fleetVars(\E c \in Conns : Dial(d, c))
          /\ WF_fleetVars(Retry(d)) /\ WF_fleetVars(SessionEnds(d))
          /\ WF_fleetVars(Welcome(d)) /\ WF_fleetVars(HandshakeFails(d))
    /\ \A c \in Conns :
          /\ WF_fleetVars(ReadHello(c)) /\ WF_fleetVars(Replaced(c))
          /\ WF_fleetVars(MissHello(c)) /\ WF_fleetVars(Heartbeat(c))
          /\ WF_fleetVars(Noticed(c))
          /\ WF_fleetVars(Leave(c) /\ Handle(c)) /\ WF_fleetVars(Recycle(c))

\* What main does not owe and the runs assume: no browser holds a broadcast for
\* ever (EventStream says when one does), which would use up the slots here.
BroadcastsEnd ==
    \A c \in Conns :
        /\ WF_fleetVars(BroadcastDone(c) /\ Handle(c))
        /\ WF_fleetVars(LeaveDone(c) /\ Handle(c))

FleetSpec == FleetInit /\ [][FleetNext]_fleetVars
FairFleetSpec == FleetSpec /\ FleetFairness /\ BroadcastsEnd

----------------------------------------------------------------------------

\* The daemon is in session, and main sends its requests down that session
\* and shows its agent online.
Served(d) ==
    /\ phase[d] = "serve"
    /\ ws[Name[d]] = at[d] /\ online[Name[d]]

\* Once the network is calm, every agent comes to be online for good, and main
\* and the daemon mean the same connection: whatever was replaced, lost or
\* half registered before, the wait for hello_ok, which has no timeout, ends,
\* and no connection is left that the daemon holds and main has forgotten.
EventuallyOnline == <>calm => \A d \in Daemons : <>[]Served(d)

\* Main replaces a stale connection of an agent, as main.py:190 has it, never a live
\* one: once the network is calm, no daemon is in session for good with
\* its agent shown offline for good.
NotLeftOffline ==
    <>calm => \A d \in Daemons : ~<>[](phase[d] = "serve" /\ ~online[Name[d]])

\* A daemon in session on a connection that is up is the one main sends to:
\* what the daemon takes for its session is on record for its agent, whatever
\* handlers of earlier connections of that agent are still ending.
Agreed ==
    \A d \in Daemons :
        phase[d] = "serve" /\ ~Gone(d) /\ Name[d] \notin Overlap =>
            ws[Name[d]] = at[d] /\ online[Name[d]]

\* One daemon of the fleet, seen from outside as DaemonLoop has it.  None is stopped.
LoopOf(d) == INSTANCE DaemonLoop WITH place <- phase[d], stop <- FALSE
=============================================================================
