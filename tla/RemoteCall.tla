----------------------------- MODULE RemoteCall -----------------------------
(***************************************************************************)
(* A control action from the operator to an agent's host and back:         *)
(* `Main._do_action`, `forward` and `_send` in src/main/main.py, the       *)
(* response branch of `handle_mgmt_ws`, and `Agent._handle_request` with   *)
(* `_execute` in src/agent/agent.py.                                       *)
(*                                                                         *)
(* Main's coroutines share one loop, so a step is the code between two     *)
(* points where a coroutine suspends: for the agent's send lock, in the    *)
(* flush of a written frame with that lock held, for the response, and for *)
(* the browsers that are told of it before the operator is answered.       *)
(* On the agent every request runs in a task of its own, which outlives    *)
(* the session it came in.  The registry appears with what forward reads   *)
(* of it (agent.ws and its closed flag); MgmtSession has its handlers.     *)
(***************************************************************************)
EXTENDS Naturals, FiniteSets

CONSTANTS
    Calls,      \* the requests of operators; each draws an id of its own
    Agents,     \* the configured agents
    Conns,      \* management WebSockets, each used for one session
    Owner,      \* the agent behind each connection
    None        \* Python's None: no connection, no future result, no lock holder

ASSUME CallAssumption ==
    /\ Owner \in [Conns -> Agents]
    /\ None \notin Conns /\ None \notin Calls
    /\ None \notin {"ok", "failed", "offline"}

VARIABLES
    ws,         \* AgentInfo.ws
    closed,     \* WebSocketResponse.closed on main's side
    handler,    \* is the handler of a connection in its receive loop?
    link,       \* the connection as the agent and the network have it
    call,       \* where the coroutine of a call is suspended
    target,     \* the agent a call is for
    via,        \* the connection a call's frame was written to
    pending,    \* the keys of Main.pending
    fut,        \* the result set on a call's future
    lock,       \* the call that holds AgentInfo.send_lock
    outcome,    \* what the operator is told, once it is decided
    reqs,       \* request frames under way: <<connection, call>>
    resps,      \* response frames under way: <<connection, call, "ok" or "failed">>
    tasks,      \* the agents' tasks: <<connection, call, "running" or result>>
    runs,       \* how often the host was asked to carry a call out
    achieved    \* the agents where that succeeded

regVars   == <<ws, closed, handler>>
callVars  == <<call, target, via, pending, fut, lock, outcome>>
agentVars == <<tasks, runs, achieved>>
vars == <<ws, closed, handler, link, call, target, via, pending, fut, lock, outcome,
          reqs, resps, tasks, runs, achieved>>

Results == {"ok", "failed"}

Init ==
    /\ ws = [a \in Agents |-> None]
    /\ closed = [c \in Conns |-> FALSE]
    /\ handler = [c \in Conns |-> "none"]
    /\ link = [c \in Conns |-> "new"]
    /\ call = [r \in Calls |-> "idle"]
    /\ target \in [Calls -> Agents]
    /\ via = [r \in Calls |-> None]
    /\ pending = {}
    /\ fut = [r \in Calls |-> None]
    /\ lock = [a \in Agents |-> None]
    /\ outcome = [r \in Calls |-> None]
    /\ reqs = {} /\ resps = {} /\ tasks = {}
    /\ runs = [r \in Calls |-> 0]
    /\ achieved = [r \in Calls |-> {}]

----------------------------------------------------------------------------
(* Main: one call.                                                         *)

\* `agent.ws is not None and not agent.ws.closed`
Reachable(a) == ws[a] # None /\ ~closed[ws[a]]

\* forward finds no open connection: 503.
CallOffline(r) ==
    /\ call[r] = "idle"
    /\ ~Reachable(target[r])
    /\ call' = [call EXCEPT ![r] = "done"]
    /\ outcome' = [outcome EXCEPT ![r] = "offline"]
    /\ UNCHANGED <<regVars, link, target, via, pending, fut, lock, reqs, resps, agentVars>>

\* forward registers its future and asks for the send lock.
CallStart(r) ==
    /\ call[r] = "idle"
    /\ Reachable(target[r])
    /\ call' = [call EXCEPT ![r] = "lock"]
    /\ pending' = pending \cup {r}
    /\ UNCHANGED <<regVars, link, target, via, fut, lock, outcome, reqs, resps, agentVars>>

HasLock(r) == call[r] = "lock" /\ lock[target[r]] = None

\* The connection went away while the call waited for the lock: _send drops
\* the request without a word and forward waits for an answer all the same.
SendNothing(r) ==
    /\ HasLock(r)
    /\ ~Reachable(target[r])
    /\ call' = [call EXCEPT ![r] = "wait"]
    /\ UNCHANGED <<regVars, link, target, via, pending, fut, lock, outcome, reqs, resps,
                   agentVars>>

\* A slip: the flush runs outside the send lock.
SendFrameUnlocked(r) ==
    /\ HasLock(r)
    /\ Reachable(target[r])
    /\ via' = [via EXCEPT ![r] = ws[target[r]]]
    /\ reqs' = IF link[via'[r]] = "up" THEN reqs \cup {<<via'[r], r>>} ELSE reqs
    /\ call' = [call EXCEPT ![r] = "flush"]
    /\ UNCHANGED <<regVars, link, target, pending, fut, lock, outcome, resps, agentVars>>

\* The frame is written to the connection that is on record now; on a link
\* that is already broken it is lost.  Its flush may suspend with the lock held.
SendFrame(r) ==
    /\ HasLock(r)
    /\ Reachable(target[r])
    /\ LET c == ws[target[r]] IN
          /\ via' = [via EXCEPT ![r] = c]
          /\ reqs' = IF link[c] = "up" THEN reqs \cup {<<c, r>>} ELSE reqs
    /\ \/ call' = [call EXCEPT ![r] = "wait"] /\ UNCHANGED lock
       \/ call' = [call EXCEPT ![r] = "flush"] /\ lock' = [lock EXCEPT ![target[r]] = r]
    /\ UNCHANGED <<regVars, link, target, pending, fut, outcome, resps, agentVars>>

\* The peer took the frame off the buffer.
FlushDone(r) ==
    /\ call[r] = "flush"
    /\ link[via[r]] = "up"
    /\ call' = [call EXCEPT ![r] = "wait"]
    /\ lock' = [lock EXCEPT ![target[r]] = None]
    /\ UNCHANGED <<regVars, link, target, via, pending, fut, outcome, reqs, resps, agentVars>>

\* A slip: no finally clause.
AnswerKeepsPending(r, answer) ==
    /\ call' = [call EXCEPT ![r] = "tell"]
    /\ outcome' = [outcome EXCEPT ![r] = answer]
    /\ UNCHANGED pending

\* forward ends: the finally clause takes the future out of pending, and the
\* answer, whatever it is, is first broadcast to the browsers.
Answer(r, answer) ==
    /\ call' = [call EXCEPT ![r] = "tell"]
    /\ outcome' = [outcome EXCEPT ![r] = answer]
    /\ pending' = pending \ {r}

\* Writing to, or flushing, a connection whose transport is gone raises: the
\* generic except of _do_action turns that into ok = false.
SendRaises(r) ==
    /\ HasLock(r)
    /\ Reachable(target[r])
    /\ link[ws[target[r]]] = "down"
    /\ Answer(r, "failed")
    /\ UNCHANGED <<regVars, link, target, via, fut, lock, reqs, resps, agentVars>>

\* A slip: the lock is taken and released without `async with`.
FlushRaisesLocked(r) ==
    /\ call[r] = "flush"
    /\ link[via[r]] = "down" \/ closed[via[r]]
    /\ Answer(r, "failed")
    /\ UNCHANGED <<regVars, link, target, via, fut, lock, reqs, resps, agentVars>>

\* A slip: an exception of the send is reported as 503, agent offline.
FlushRaisesOffline(r) ==
    /\ call[r] = "flush"
    /\ link[via[r]] = "down" \/ closed[via[r]]
    /\ Answer(r, "offline")
    /\ lock' = [lock EXCEPT ![target[r]] = None]
    /\ UNCHANGED <<regVars, link, target, via, fut, reqs, resps, agentVars>>

FlushRaises(r) ==
    /\ call[r] = "flush"
    /\ link[via[r]] = "down" \/ closed[via[r]]
    /\ Answer(r, "failed")
    /\ lock' = [lock EXCEPT ![target[r]] = None]
    /\ UNCHANGED <<regVars, link, target, via, fut, reqs, resps, agentVars>>

\* A slip: the answer is taken from a future that is not done.
CallAnsweredEarly(r) ==
    /\ call[r] = "wait"
    /\ Answer(r, fut[r])
    /\ UNCHANGED <<regVars, link, target, via, fut, lock, reqs, resps, agentVars>>

\* The response is there: it decides what the operator is told.
CallAnswered(r) ==
    /\ call[r] = "wait"
    /\ fut[r] # None
    /\ Answer(r, fut[r])
    /\ UNCHANGED <<regVars, link, target, via, fut, lock, reqs, resps, agentVars>>

\* A slip: the request is sent again instead of given up.
CallTimeoutResends(r) ==
    /\ call[r] = "wait"
    /\ call' = [call EXCEPT ![r] = "lock"]
    /\ UNCHANGED <<regVars, link, target, via, pending, fut, lock, outcome, reqs, resps,
                   agentVars>>

\* 15 s are over; wait_for may give up even if the response came just now.
CallTimeout(r) ==
    /\ call[r] = "wait"
    /\ Answer(r, "failed")
    /\ UNCHANGED <<regVars, link, target, via, fut, lock, reqs, resps, agentVars>>

\* The broadcast is over (EventStream: a browser that stops reading may keep
\* it for ever) and the operator gets the answer.
Told(r) ==
    /\ call[r] = "tell"
    /\ call' = [call EXCEPT ![r] = "done"]
    /\ UNCHANGED <<regVars, link, target, via, pending, fut, lock, outcome, reqs, resps,
                   agentVars>>

\* A slip: a response is matched by its agent instead of its id.
ReadResponseOfAgent(c, r, result) ==
    /\ handler[c] = "serving" /\ ~closed[c]
    /\ <<c, r, result>> \in resps
    /\ resps' = resps \ {<<c, r, result>>}
    /\ fut' = [x \in Calls |-> IF x \in pending /\ target[x] = Owner[c] /\ fut[x] = None
                                   THEN result ELSE fut[x]]
    /\ UNCHANGED <<regVars, link, call, target, via, pending, lock, outcome, reqs, agentVars>>

\* The handler of a connection reads a response: it completes the future of
\* the call with that id, if that call still waits, and is dropped otherwise.
ReadResponse(c, r, result) ==
    /\ handler[c] = "serving" /\ ~closed[c]
    /\ <<c, r, result>> \in resps
    /\ resps' = resps \ {<<c, r, result>>}
    /\ fut' = IF r \in pending /\ fut[r] = None THEN [fut EXCEPT ![r] = result] ELSE fut
    /\ UNCHANGED <<regVars, link, call, target, via, pending, lock, outcome, reqs, agentVars>>

----------------------------------------------------------------------------
(* The agent: one task per request.                                        *)

\* _serve reads a request and creates its task.
ReadRequest(c, r) ==
    /\ link[c] = "up"
    /\ <<c, r>> \in reqs
    /\ reqs' = reqs \ {<<c, r>>}
    /\ tasks' = tasks \cup {<<c, r, "running">>}
    /\ UNCHANGED <<regVars, link, callVars, resps, runs, achieved>>

\* _execute turns the request down (whitelist, unknown action), or runs the
\* host command, which succeeds or does not.
Execute(c, r, result) ==
    /\ <<c, r, "running">> \in tasks
    /\ tasks' = (tasks \ {<<c, r, "running">>}) \cup {<<c, r, result>>}
    /\ \/ result = "failed" /\ UNCHANGED <<runs, achieved>>
       \/ /\ runs' = [runs EXCEPT ![r] = @ + 1]
          /\ achieved' = IF result = "ok"
                            THEN [achieved EXCEPT ![r] = @ \cup {Owner[c]}]
                            ELSE achieved
    /\ UNCHANGED <<regVars, link, callVars, reqs, resps>>

\* The task replies on the connection its request came from; if that is gone
\* the reply is dropped.
Reply(c, r, result) ==
    /\ result # "running"
    /\ <<c, r, result>> \in tasks
    /\ tasks' = tasks \ {<<c, r, result>>}
    /\ resps' = IF link[c] = "up" THEN resps \cup {<<c, r, result>>} ELSE resps
    /\ UNCHANGED <<regVars, link, callVars, reqs, runs, achieved>>

----------------------------------------------------------------------------
(* Sessions come and go (MgmtSession), links break, agents die.            *)

\* The agent opens a session; it has one at a time.
Open(c) ==
    /\ link[c] = "new"
    /\ \A d \in Conns : Owner[d] = Owner[c] => link[d] # "up"
    /\ link' = [link EXCEPT ![c] = "up"]
    /\ UNCHANGED <<regVars, callVars, reqs, resps, agentVars>>

\* Main registers a connection, perhaps after its agent gave it up, and has
\* closed the one on record unless two registrations overlapped.
Register(c) ==
    /\ link[c] # "new" /\ handler[c] = "none"
    /\ handler' = [handler EXCEPT ![c] = "serving"]
    /\ ws' = [ws EXCEPT ![Owner[c]] = c]
    /\ LET old == ws[Owner[c]] IN
          closed' \in {closed, [d \in Conns |-> closed[d] \/ d = old]}
    /\ UNCHANGED <<link, callVars, reqs, resps, agentVars>>

\* Main closes a connection: heartbeat, or a new hello of the agent.
Close(c) ==
    /\ handler[c] = "serving" /\ ~closed[c]
    /\ closed' = [closed EXCEPT ![c] = TRUE]
    /\ UNCHANGED <<ws, handler, link, callVars, reqs, resps, agentVars>>

\* The handler of a connection ends and takes it off the record.
Leave(c) ==
    /\ handler[c] = "serving"
    /\ closed[c] \/ link[c] = "down"
    /\ handler' = [handler EXCEPT ![c] = "left"]
    /\ closed' = [closed EXCEPT ![c] = TRUE]
    /\ ws' = IF ws[Owner[c]] = c THEN [ws EXCEPT ![Owner[c]] = None] ELSE ws
    /\ UNCHANGED <<link, callVars, reqs, resps, agentVars>>

\* The frames under way on the connections D are lost.
LoseFrames(D) ==
    /\ reqs' = {q \in reqs : q[1] \notin D}
    /\ resps' = {p \in resps : p[1] \notin D}

\* The connection breaks, or the agent ends its session.
LinkDown(c) ==
    /\ link[c] = "up"
    /\ link' = [link EXCEPT ![c] = "down"]
    /\ LoseFrames({c})
    /\ UNCHANGED <<regVars, callVars, agentVars>>

\* The agent dies (a poweroff that works, a restart): its tasks die with it,
\* after or before they asked the host.
AgentDies(a) ==
    /\ LET D == {c \in Conns : Owner[c] = a} IN
          /\ \E c \in D : link[c] = "up" \/ \E t \in tasks : t[1] = c
          /\ link' = [c \in Conns |-> IF c \in D /\ link[c] = "up" THEN "down" ELSE link[c]]
          /\ tasks' = {t \in tasks : t[1] \notin D}
          /\ LoseFrames(D)
    /\ UNCHANGED <<regVars, callVars, runs, achieved>>

----------------------------------------------------------------------------

CallStep(r) ==
    \/ CallOffline(r) \/ CallStart(r)
    \/ SendNothing(r) \/ SendFrame(r) \/ SendRaises(r)
    \/ FlushDone(r) \/ FlushRaises(r)
    \/ CallAnswered(r) \/ CallTimeout(r)
    \/ Told(r)

FrameStep(c, r) ==
    \/ ReadRequest(c, r)
    \/ \E result \in Results :
          Execute(c, r, result) \/ Reply(c, r, result) \/ ReadResponse(c, r, result)

SessionStep(c) == Open(c) \/ Register(c) \/ Close(c) \/ Leave(c) \/ LinkDown(c)

Next ==
    \/ \E r \in Calls : CallStep(r)
    \/ \E c \in Conns, r \in Calls : FrameStep(c, r)
    \/ \E c \in Conns : SessionStep(c)
    \/ \E a \in Agents : AgentDies(a)

Spec == Init /\ [][Next]_vars

\* The loop runs every ready coroutine, the 15 s timer of wait_for fires, and a
\* connection whose peer reads no more is closed by the heartbeat, which makes
\* the flush raise.  Agents, operators and browsers owe nothing: Told has no
\* fairness.
Fairness ==
    \A r \in Calls :
        /\ WF_vars(SendNothing(r) \/ SendFrame(r) \/ SendRaises(r))
        /\ WF_vars(FlushDone(r) \/ FlushRaises(r))
        /\ WF_vars(CallTimeout(r))

FairSpec == Spec /\ Fairness

----------------------------------------------------------------------------

TypeOK ==
    /\ ws \in [Agents -> Conns \cup {None}]
    /\ closed \in [Conns -> BOOLEAN]
    /\ handler \in [Conns -> {"none", "serving", "left"}]
    /\ link \in [Conns -> {"new", "up", "down"}]
    /\ call \in [Calls -> {"idle", "lock", "flush", "wait", "tell", "done"}]
    /\ target \in [Calls -> Agents]
    /\ via \in [Calls -> Conns \cup {None}]
    /\ pending \in SUBSET Calls
    /\ fut \in [Calls -> Results \cup {None}]
    /\ lock \in [Agents -> Calls \cup {None}]
    /\ outcome \in [Calls -> Results \cup {"offline", None}]
    /\ reqs \in SUBSET (Conns \X Calls)
    /\ resps \in SUBSET (Conns \X Calls \X Results)
    /\ tasks \in SUBSET (Conns \X Calls \X (Results \cup {"running"}))
    /\ runs \in [Calls -> Nat]
    /\ achieved \in [Calls -> SUBSET Agents]
    /\ \A r \in Calls : call[r] \in {"tell", "done"} <=> outcome[r] # None
    /\ \A r \in Calls : call[r] = "tell" => outcome[r] \in Results
    /\ \A r \in Calls : call[r] = "flush" => via[r] # None

\* Main.pending holds the futures of the calls under way and no others: no
\* way out of forward leaks one, and no call waits for an answer that could
\* not reach it any more.
PendingIsInFlight ==
    \A r \in Calls : r \in pending <=> call[r] \in {"lock", "flush", "wait"}

\* One frame at a time is written to an agent: the lock is held exactly by
\* the call whose frame is being flushed, and an answered call holds none.
OneWriter ==
    \A r \in Calls, a \in Agents :
        lock[a] = r <=> call[r] = "flush" /\ target[r] = a

\* "ok" is the truth: the host of the agent the operator named, and of no
\* other, carried the action out with success.
OkMeansDone ==
    \A r \in Calls :
        /\ outcome[r] = "ok" => target[r] \in achieved[r]
        /\ achieved[r] \subseteq {target[r]}

\* Sessions, replacements and crashes never make a host act twice on one
\* call, and never at all on one that was refused as offline.
AtMostOnce ==
    \A r \in Calls : runs[r] <= 1 /\ (outcome[r] = "offline" => runs[r] = 0)

\* The status of a call as its operator sees it.
Status(r) ==
    CASE call[r] = "idle" -> "idle"
      [] call[r] = "done" -> outcome[r]
      [] OTHER -> "issued"

Promise == INSTANCE OperatorAction WITH status <- [r \in Calls |-> Status(r)]

\* Main and the agents together keep the promise to the operator.
KeepsPromise == Promise!Spec

\* Every call comes to an outcome, whatever the agent and the network do: the
\* send, which no timeout covers, ends too.  The answer itself then waits for
\* nothing but the broadcast to the browsers.
CallsFinish ==
    \A r \in Calls : (call[r] = "lock") ~> (outcome[r] # None)
=============================================================================
