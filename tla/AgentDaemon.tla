---------------------------- MODULE AgentDaemon ----------------------------
(***************************************************************************)
(* The daemon on an agent host: class `Agent` of src/agent/agent.py, with  *)
(* its reconnect loop, one session at a time, the telemetry task of the    *)
(* session and the request tasks, which are not tied to it.                *)
(*                                                                         *)
(* All of them send through `_send`, under one lock of the whole daemon:   *)
(* a task still flushing a frame of the last session holds up the senders  *)
(* of the next one until that flush ends.                                  *)
(***************************************************************************)
EXTENDS Naturals

CONSTANTS
    Requests,       \* the requests main sends, over all sessions
    MaxSessions,    \* bound: WebSockets opened
    MaxFails,       \* bound: where the history variable fails stops counting,
                    \* past the failure that brings the pause to its cap
    None            \* Python's None: no session, no holder of the send lock

ASSUME DaemonAssumption ==
    /\ MaxSessions \in Nat
    /\ MaxFails \in Nat /\ MaxFails >= 6
    /\ None \notin Requests \cup {"telemetry"} \cup Nat
    /\ "telemetry" \notin Requests

VARIABLES
    phase,      \* where the coroutine run() is
    stop,       \* the event request_stop sets on SIGTERM and SIGINT
    backoff,    \* run's local variable: the seconds of the next pause
    cur,        \* the number of the session that is open, or was last
    broken,     \* the open session's WebSocket is closed or lost
    tele,       \* where the telemetry task is suspended; "off" without one
    req,        \* where the task of a request is suspended
    origin,     \* the session a request came in
    lock,       \* who holds _send_lock: a request, "telemetry" or None
    fails,      \* history: failures since the last clean end of a session
    stopAt      \* history: cur when stop was set

loopVars == <<phase, stop, backoff, fails, stopAt>>
sessVars == <<cur, broken>>
sendVars == <<tele, req, origin, lock>>
vars == <<phase, stop, backoff, cur, broken, tele, req, origin, lock, fails, stopAt>>

Lesser(m, n) == IF m <= n THEN m ELSE n

Init ==
    /\ phase = "top" /\ stop = FALSE /\ backoff = 1
    /\ cur = 0 /\ broken = FALSE
    /\ tele = "off" /\ lock = None
    /\ req = [r \in Requests |-> "new"]
    /\ origin = [r \in Requests |-> None]
    /\ fails = 0 /\ stopAt = None

----------------------------------------------------------------------------
(* run: the reconnect loop.                                                *)

\* A slip: the reconnect loop does not ask whether it shall stop.
LoopTopUnstopped ==
    /\ phase = "top"
    /\ phase' = "connect"
    /\ UNCHANGED <<stop, backoff, fails, stopAt, sessVars, sendVars>>

\* `while not self._stop.is_set()`
LoopTop ==
    /\ phase = "top"
    /\ phase' = IF stop THEN "exited" ELSE "connect"
    /\ UNCHANGED <<stop, backoff, fails, stopAt, sessVars, sendVars>>

\* Any exception of the session: wait, then double the wait.
Fail ==
    /\ phase' = "backoff"
    /\ fails' = Lesser(fails + 1, MaxFails)
    /\ UNCHANGED <<stop, backoff, stopAt>>

\* A slip: the pause waits for the stop event without a timeout.
BackoffDoneUntimed ==
    /\ phase = "backoff" /\ stop
    /\ phase' = "top"
    /\ backoff' = Lesser(2 * backoff, 30)
    /\ UNCHANGED <<stop, fails, stopAt, sessVars, sendVars>>

\* The pause is over, or cut short by the stop event.
BackoffDone ==
    /\ phase = "backoff"
    /\ phase' = "top"
    /\ backoff' = Lesser(2 * backoff, 30)
    /\ UNCHANGED <<stop, fails, stopAt, sessVars, sendVars>>

\* TLS or TCP does not come up.
ConnectFails ==
    /\ phase = "connect"
    /\ Fail
    /\ UNCHANGED <<sessVars, sendVars>>

\* The WebSocket is open and the hello is out; no timeout covers the answer.
Connect ==
    /\ phase = "connect"
    /\ cur < MaxSessions
    /\ phase' = "handshake"
    /\ cur' = cur + 1
    /\ broken' = FALSE
    /\ UNCHANGED <<stop, backoff, fails, stopAt, sendVars>>

\* A slip: a rejected hello ends _session without an exception.
HandshakeFailsQuietly ==
    /\ phase = "handshake"
    /\ phase' = "top"
    /\ broken' = TRUE
    /\ backoff' = 1 /\ fails' = 0
    /\ UNCHANGED <<stop, stopAt, cur, sendVars>>

\* hello_err, another frame than an answer, or the end of the connection.
HandshakeFails ==
    /\ phase = "handshake"
    /\ broken' = TRUE
    /\ Fail
    /\ UNCHANGED <<cur, sendVars>>

\* hello_ok: the session begins, with a telemetry task of its own.
HandshakeOk ==
    /\ phase = "handshake" /\ ~broken
    /\ phase' = "serve"
    /\ tele' = IF stop THEN "off" ELSE "measure"
    /\ UNCHANGED <<stop, backoff, fails, stopAt, sessVars, req, origin, lock>>

\* A slip: the telemetry task of a session is left running.
CleanupKeepsTelemetry ==
    /\ broken' = TRUE
    /\ UNCHANGED <<cur, req, origin, tele, lock>>

\* The session is left: its telemetry task is cancelled and awaited, which
\* releases the lock if it holds it, and the WebSocket is closed.
Cleanup ==
    /\ broken' = TRUE
    /\ tele' = "off"
    /\ lock' = IF lock = "telemetry" THEN None ELSE lock
    /\ UNCHANGED <<cur, req, origin>>

\* A slip: the pause keeps the length it had reached.
ServeEndsKeepsBackoff ==
    /\ phase = "serve"
    /\ phase' = "top"
    /\ fails' = 0
    /\ Cleanup
    /\ UNCHANGED <<stop, backoff, stopAt>>

\* _serve returns: bye, or the connection was closed or lost.
ServeEnds ==
    /\ phase = "serve"
    /\ phase' = "top"
    /\ backoff' = 1
    /\ fails' = 0
    /\ Cleanup
    /\ UNCHANGED <<stop, stopAt>>

\* _serve raises: a frame that is no message, or a pong that cannot be sent.
ServeRaises ==
    /\ phase = "serve"
    /\ Fail
    /\ Cleanup

----------------------------------------------------------------------------
(* The senders.                                                            *)

\* `not ws.closed` for the WebSocket of session n, and it can be written to.
Writable(n) == phase = "serve" /\ n = cur /\ ~broken

\* _serve reads a request and starts its task.
ReadRequest(r) ==
    /\ req[r] = "new"
    /\ Writable(cur)
    /\ req' = [req EXCEPT ![r] = "execute"]
    /\ origin' = [origin EXCEPT ![r] = cur]
    /\ UNCHANGED <<loopVars, sessVars, tele, lock>>

\* The host command is over, or the request was turned down: the task has its
\* response and asks for the lock.
Executed(r) ==
    /\ req[r] = "execute"
    /\ req' = [req EXCEPT ![r] = "lock"]
    /\ UNCHANGED <<loopVars, sessVars, tele, origin, lock>>

\* With the lock: the response goes to the session the request came in; a
\* closed one is skipped, a lost one raises and ends the task.
SendResponse(r) ==
    /\ req[r] = "lock" /\ lock = None
    /\ \/ req' = [req EXCEPT ![r] = "done"] /\ UNCHANGED lock
       \/ /\ Writable(origin[r])
          /\ req' = [req EXCEPT ![r] = "flush"]
          /\ lock' = r
    /\ UNCHANGED <<loopVars, sessVars, tele, origin>>

\* A slip: the lock is not released when the flush raises.
ResponseRaisesLocked(r) ==
    /\ req[r] = "flush" /\ ~Writable(origin[r])
    /\ req' = [req EXCEPT ![r] = "done"]
    /\ UNCHANGED <<loopVars, sessVars, tele, origin, lock>>

\* Main took the frame off the buffer.
ResponseFlushed(r) ==
    /\ req[r] = "flush" /\ Writable(origin[r])
    /\ req' = [req EXCEPT ![r] = "done"]
    /\ lock' = None
    /\ UNCHANGED <<loopVars, sessVars, tele, origin>>

\* The session of the frame is over: its flush raises.
ResponseRaises(r) ==
    /\ req[r] = "flush" /\ ~Writable(origin[r])
    /\ req' = [req EXCEPT ![r] = "done"]
    /\ lock' = None
    /\ UNCHANGED <<loopVars, sessVars, tele, origin>>

\* The readings are there; or the host command failed, which is only logged.
Measured ==
    /\ tele = "measure"
    /\ tele' \in {"lock", "pause"}
    /\ UNCHANGED <<loopVars, sessVars, req, origin, lock>>

\* A slip: telemetry is sent without the lock.
SendTelemetryUnlocked ==
    /\ tele = "lock"
    /\ \/ tele' = "pause"
       \/ Writable(cur) /\ tele' = "flush"
    /\ UNCHANGED <<loopVars, sessVars, req, origin, lock>>

SendTelemetry ==
    /\ tele = "lock" /\ lock = None
    /\ \/ tele' = "pause" /\ UNCHANGED lock
       \/ Writable(cur) /\ tele' = "flush" /\ lock' = "telemetry"
    /\ UNCHANGED <<loopVars, sessVars, req, origin>>

\* Flushed, or raised and logged: the loop goes on either way.
TelemetrySent ==
    /\ tele = "flush"
    /\ tele' = "pause"
    /\ lock' = None
    /\ UNCHANGED <<loopVars, sessVars, req, origin>>

\* The interval is over; with the stop event set the loop ends.
PauseDone ==
    /\ tele = "pause"
    /\ tele' = IF stop THEN "off" ELSE "measure"
    /\ UNCHANGED <<loopVars, sessVars, req, origin, lock>>

----------------------------------------------------------------------------
(* Signals and the network.                                                *)

RequestStop ==
    /\ ~stop
    /\ stop' = TRUE
    /\ stopAt' = cur
    /\ UNCHANGED <<phase, backoff, fails, sessVars, sendVars>>

SessionLost ==
    /\ phase \in {"handshake", "serve"} /\ ~broken
    /\ broken' = TRUE
    /\ UNCHANGED <<loopVars, cur, sendVars>>

----------------------------------------------------------------------------

Next ==
    \/ LoopTop \/ BackoffDone \/ ConnectFails \/ Connect
    \/ HandshakeFails \/ HandshakeOk \/ ServeEnds \/ ServeRaises
    \/ \E r \in Requests :
          \/ ReadRequest(r) \/ Executed(r) \/ SendResponse(r)
          \/ ResponseFlushed(r) \/ ResponseRaises(r)
    \/ Measured \/ SendTelemetry \/ TelemetrySent \/ PauseDone
    \/ RequestStop \/ SessionLost

\* The loop runs what is ready, a connection attempt comes to an end, a lost
\* connection ends the receive, and the heartbeat ends one that main no longer
\* reads, so every flush ends.  Main owes no answer and host commands may hang.
Fairness ==
    /\ WF_vars(LoopTop) /\ WF_vars(BackoffDone) /\ WF_vars(Connect \/ ConnectFails)
    /\ WF_vars(broken /\ HandshakeFails) /\ WF_vars(broken /\ ServeEnds)
    /\ \A r \in Requests : /\ SF_vars(SendResponse(r))
                           /\ WF_vars(ResponseFlushed(r) \/ ResponseRaises(r))
    /\ WF_vars(TelemetrySent)

Spec == Init /\ [][Next]_vars
FairSpec == Spec /\ Fairness

----------------------------------------------------------------------------

TypeOK ==
    /\ phase \in {"top", "connect", "handshake", "serve", "backoff", "exited"}
    /\ stop \in BOOLEAN /\ broken \in BOOLEAN
    /\ backoff \in 1..30 /\ cur \in 0..MaxSessions /\ fails \in 0..MaxFails
    /\ tele \in {"off", "measure", "lock", "flush", "pause"}
    /\ req \in [Requests -> {"new", "execute", "lock", "flush", "done"}]
    /\ origin \in [Requests -> 1..MaxSessions \cup {None}]
    /\ lock \in Requests \cup {"telemetry", None}
    /\ stopAt \in 0..MaxSessions \cup {None}
    /\ \A r \in Requests : req[r] # "new" <=> origin[r] # None

\* Readings go out only in an accepted session: no telemetry task exists
\* before hello_ok, and none survives its session into the next one.
TelemetryInSession == tele # "off" => phase = "serve"

\* One frame is written at a time, across tasks and sessions: the lock is held
\* exactly by the sender whose frame is being flushed.
OneSender ==
    /\ lock = "telemetry" <=> tele = "flush"
    /\ \A r \in Requests : lock = r <=> req[r] = "flush"

\* The seconds of the pause after n failures in a row and one more.
PauseAfter(n) == IF n < 5 THEN <<1, 2, 4, 8, 16>>[n + 1] ELSE 30

\* The pauses between failed attempts are 1, 2, 4, ... seconds, at most 30:
\* however sessions and failures alternate, each pause is the double of the
\* one before, and only a session that ended cleanly starts over at 1.
BackoffLaw == backoff = PauseAfter(IF phase = "backoff" THEN fails - 1 ELSE fails)

\* After a stop at most the attempt under way becomes a session.
StopBoundsSessions == stop => cur <= stopAt + 1

\* Seen from outside the daemon is a DaemonLoop: between two attempts run is at
\* the top of its loop.
Place == IF phase = "top" THEN "connect" ELSE IF phase = "backoff" THEN "pause" ELSE phase
Loop == INSTANCE DaemonLoop WITH place <- Place

\* The daemon keeps the loop's promise, whatever its tasks, the network and signals
\* do: no session without hello_ok, a pause after every failure, no end but
\* a stop.
KeepsLoop == Loop!Spec

\* A failure is not the end: the daemon tries again, unless it shall stop.
KeepsTrying == (phase = "backoff") ~> (phase \in {"connect", "exited"})

\* A stop is heeded as soon as no session is open.  An open one goes on: _serve
\* does not look at the event, so the daemon then ends only when main does.
StopHeeded == stop ~> (phase \in {"handshake", "serve", "exited"})

\* Every response gets its turn: no session, live or over, keeps the lock.
ResponsesFinish ==
    \A r \in Requests : (req[r] = "lock") ~> (req[r] = "done")
=============================================================================
