------------------------- MODULE AgentDaemon_proof -------------------------
(***************************************************************************)
(* Safety of the agent daemon, for any set of requests and any bound on    *)
(* the sessions.                                                           *)
(*                                                                         *)
(* DaemonInv carries type correctness, the telemetry task and the send     *)
(* lock; StopInv, what a stop still allows; PaceInv, how the length of the *)
(* pause follows from the failures there were.  Seen from outside every    *)
(* step is one of DaemonLoop, or nothing (ImplementsLoop).                 *)
(***************************************************************************)
EXTENDS AgentDaemon, TLAPS

\* A session that is being opened or served has a number.
SessionNumbered == phase \in {"handshake", "serve"} => cur >= 1

\* The inductive invariant of sessions and senders.
DaemonInv == TypeOK /\ SessionNumbered /\ TelemetryInSession /\ OneSender

\* A stop during a connection attempt may cost one session; once that one is
\* counted no attempt follows.
StopInv ==
    stop => /\ stopAt \in 0..MaxSessions
            /\ cur <= stopAt + 1
            /\ phase = "connect" => cur <= stopAt

\* A pause follows a failure, and has the length due after those before it.
PaceInv == (phase = "backoff" => fails >= 1) /\ BackoffLaw

----------------------------------------------------------------------------

\* The daemon starts without session, task, stop or failure.
LEMMA InitDaemon == ASSUME Init PROVE DaemonInv /\ StopInv /\ PaceInv
<1> USE DaemonAssumption DEF Init
<1>1. TypeOK
  <2>1. stop \in BOOLEAN /\ broken \in BOOLEAN
    BY Zenon
  <2> QED BY <2>1 DEF TypeOK
<1>2. OneSender
  BY DEF OneSender
<1>3. PaceInv
  BY DEF PaceInv, BackoffLaw, PauseAfter
<1> QED BY <1>1, <1>2, <1>3 DEF DaemonInv, StopInv, SessionNumbered, TelemetryInSession

\* What the reconnect loop does outside a session.
LEMMA LoopKeeps ==
  ASSUME DaemonInv,
         LoopTop \/ BackoffDone \/ ConnectFails \/ Connect \/ HandshakeFails
           \/ HandshakeOk \/ RequestStop \/ SessionLost
  PROVE  DaemonInv'
<1>1. CASE LoopTop
  BY <1>1 DEF LoopTop, DaemonInv, TypeOK, SessionNumbered, TelemetryInSession,
     OneSender, sessVars, sendVars
<1>2. CASE BackoffDone
  BY <1>2 DEF BackoffDone, Lesser, DaemonInv, TypeOK, SessionNumbered,
     TelemetryInSession, OneSender, sessVars, sendVars
<1>3. CASE ConnectFails
  BY <1>3, DaemonAssumption DEF ConnectFails, Fail, Lesser, DaemonInv, TypeOK,
     SessionNumbered, TelemetryInSession, OneSender, sessVars, sendVars
<1>4. CASE Connect
  <2>1. TypeOK'
    <3>1. broken' \in BOOLEAN
      BY <1>4, Zenon DEF Connect
    <3> QED BY <1>4, <3>1, DaemonAssumption DEF Connect, DaemonInv, TypeOK, sendVars
  <2> QED BY <1>4, <2>1 DEF Connect, DaemonInv, TypeOK, SessionNumbered,
             TelemetryInSession, OneSender, sendVars
<1>5. CASE HandshakeFails
  BY <1>5, DaemonAssumption DEF HandshakeFails, Fail, Lesser, DaemonInv, TypeOK,
     SessionNumbered, TelemetryInSession, OneSender, sendVars
<1>6. CASE HandshakeOk
  BY <1>6 DEF HandshakeOk, DaemonInv, TypeOK, SessionNumbered, TelemetryInSession,
     OneSender, sessVars
<1>7. CASE RequestStop
  BY <1>7 DEF RequestStop, DaemonInv, TypeOK, SessionNumbered, TelemetryInSession,
     OneSender, sessVars, sendVars
<1>8. CASE SessionLost
  BY <1>8 DEF SessionLost, DaemonInv, TypeOK, SessionNumbered, TelemetryInSession,
     OneSender, loopVars, sendVars
<1> QED BY <1>1, <1>2, <1>3, <1>4, <1>5, <1>6, <1>7, <1>8

\* Leaving a session takes its telemetry task along, and the lock with it if
\* the task held it; a request's task keeps the lock it holds.
LEMMA CleanupKeeps ==
  ASSUME DaemonInv, Cleanup
  PROVE  /\ tele' = "off" /\ cur' = cur /\ broken' \in BOOLEAN
         /\ req' = req /\ origin' = origin
         /\ lock' \in Requests \cup {"telemetry", None}
         /\ OneSender'
BY DaemonAssumption DEF Cleanup, DaemonInv, TypeOK, OneSender

\* The end of a session.
LEMMA EndKeeps == ASSUME DaemonInv, ServeEnds \/ ServeRaises PROVE DaemonInv'
<1>1. CASE ServeEnds
  <2> USE <1>1 DEF ServeEnds
  <2>1. TypeOK'
    BY CleanupKeeps, DaemonAssumption DEF DaemonInv, TypeOK
  <2> QED BY <2>1, CleanupKeeps DEF DaemonInv, SessionNumbered, TelemetryInSession
<1>2. CASE ServeRaises
  <2> USE <1>2 DEF ServeRaises, Fail
  <2>1. TypeOK'
    BY CleanupKeeps, DaemonAssumption DEF DaemonInv, TypeOK, Lesser
  <2> QED BY <2>1, CleanupKeeps DEF DaemonInv, SessionNumbered, TelemetryInSession
<1> QED BY <1>1, <1>2

\* The task of a request: it takes the lock when it is free, and gives back
\* what it took.
LEMMA RequestKeeps ==
  ASSUME DaemonInv, NEW r \in Requests,
         ReadRequest(r) \/ Executed(r) \/ SendResponse(r) \/ ResponseFlushed(r)
           \/ ResponseRaises(r)
  PROVE  DaemonInv'
<1> USE DaemonAssumption
<1>1. CASE ReadRequest(r)
  <2>1. TypeOK'
    BY <1>1 DEF ReadRequest, Writable, DaemonInv, TypeOK, SessionNumbered, loopVars,
       sessVars
  <2>2. OneSender'
    BY <1>1 DEF ReadRequest, DaemonInv, TypeOK, OneSender
  <2> QED BY <1>1, <2>1, <2>2 DEF ReadRequest, DaemonInv, SessionNumbered,
             TelemetryInSession, loopVars, sessVars
<1>2. CASE Executed(r)
  BY <1>2 DEF Executed, DaemonInv, TypeOK, SessionNumbered, TelemetryInSession,
     OneSender, loopVars, sessVars
<1>3. CASE SendResponse(r)
  <2>1. TypeOK'
    BY <1>3 DEF SendResponse, DaemonInv, TypeOK, loopVars, sessVars
  <2>2. OneSender'
    BY <1>3 DEF SendResponse, DaemonInv, TypeOK, OneSender
  <2> QED BY <1>3, <2>1, <2>2 DEF SendResponse, DaemonInv, SessionNumbered,
             TelemetryInSession, loopVars, sessVars
<1>4. CASE ResponseFlushed(r) \/ ResponseRaises(r)
  <2>1. TypeOK'
    BY <1>4 DEF ResponseFlushed, ResponseRaises, DaemonInv, TypeOK, loopVars, sessVars
  <2>2. OneSender'
    BY <1>4 DEF ResponseFlushed, ResponseRaises, DaemonInv, TypeOK, OneSender
  <2> QED BY <1>4, <2>1, <2>2 DEF ResponseFlushed, ResponseRaises, DaemonInv,
             SessionNumbered, TelemetryInSession, loopVars, sessVars
<1> QED BY <1>1, <1>2, <1>3, <1>4

\* The telemetry task does the same, and ends only between two frames.
LEMMA TelemetryKeeps ==
  ASSUME DaemonInv, Measured \/ SendTelemetry \/ TelemetrySent \/ PauseDone
  PROVE  DaemonInv'
<1> USE DaemonAssumption
<1>1. TypeOK'
  BY DEF Measured, SendTelemetry, TelemetrySent, PauseDone, DaemonInv, TypeOK, loopVars,
     sessVars
<1>2. OneSender'
  BY DEF Measured, SendTelemetry, TelemetrySent, PauseDone, DaemonInv, TypeOK, OneSender
<1> QED BY <1>1, <1>2 DEF Measured, SendTelemetry, TelemetrySent, PauseDone, DaemonInv,
           SessionNumbered, TelemetryInSession, loopVars, sessVars

\* Every step keeps the invariant of sessions and senders.
LEMMA NextDaemon == ASSUME DaemonInv, [Next]_vars PROVE DaemonInv'
<1>1. CASE UNCHANGED vars
  BY <1>1 DEF vars, DaemonInv, TypeOK, SessionNumbered, TelemetryInSession, OneSender
<1>2. CASE Next
  BY <1>2, LoopKeeps, EndKeeps, RequestKeeps, TelemetryKeeps DEF Next
<1> QED BY <1>1, <1>2

\* Every step keeps what a stop allows: only LoopTop leads to an attempt, and
\* it does not once the event is set.
LEMMA NextStop == ASSUME DaemonInv, StopInv, [Next]_vars PROVE StopInv'
<1> USE DEF StopInv
<1>1. CASE LoopTop
  BY <1>1 DEF LoopTop, sessVars
<1>2. CASE Connect
  BY <1>2 DEF Connect, DaemonInv, TypeOK
<1>3. CASE RequestStop
  BY <1>3 DEF RequestStop, sessVars, DaemonInv, TypeOK
<1>4. CASE BackoffDone \/ ConnectFails \/ HandshakeFails \/ HandshakeOk \/ SessionLost
             \/ ServeEnds \/ ServeRaises
  BY <1>4 DEF BackoffDone, ConnectFails, HandshakeFails, HandshakeOk, SessionLost,
     ServeEnds, ServeRaises, Cleanup, Fail, loopVars, sessVars
<1>5. CASE \E r \in Requests :
             ReadRequest(r) \/ Executed(r) \/ SendResponse(r) \/ ResponseFlushed(r)
               \/ ResponseRaises(r)
  BY <1>5 DEF ReadRequest, Executed, SendResponse, ResponseFlushed, ResponseRaises,
     loopVars, sessVars
<1>6. CASE Measured \/ SendTelemetry \/ TelemetrySent \/ PauseDone
  BY <1>6 DEF Measured, SendTelemetry, TelemetrySent, PauseDone, loopVars, sessVars
<1>7. CASE UNCHANGED vars
  BY <1>7 DEF vars
<1> QED BY <1>1, <1>2, <1>3, <1>4, <1>5, <1>6, <1>7 DEF Next

\* After one failure more the pause is the double, but not more than 30 s.
LEMMA PauseDoubles ==
  \A n \in Nat : /\ PauseAfter(n) \in Nat
                 /\ PauseAfter(n + 1) = Lesser(2 * PauseAfter(n), 30)
                 /\ n >= 5 => PauseAfter(n) = 30
<1> SUFFICES ASSUME NEW n \in Nat
             PROVE  /\ PauseAfter(n) \in Nat
                    /\ PauseAfter(n + 1) = Lesser(2 * PauseAfter(n), 30)
                    /\ n >= 5 => PauseAfter(n) = 30
  OBVIOUS
<1>1. CASE n >= 5
  BY <1>1 DEF PauseAfter, Lesser
<1>2. CASE n \in 0 .. 4
  <2>1. n = 0 \/ n = 1 \/ n = 2 \/ n = 3 \/ n = 4
    BY <1>2
  <2> QED BY <2>1 DEF PauseAfter, Lesser
<1> QED BY <1>1, <1>2

\* Every step keeps the pace: a failure leaves the pause at the length due,
\* the end of the pause doubles it, the clean end of a session resets both.
LEMMA NextPace == ASSUME TypeOK, PaceInv, [Next]_vars PROVE PaceInv'
<1> USE DEF PaceInv, BackoffLaw
<1>1. CASE BackoffDone
  <2>1. fails \in Nat /\ fails >= 1 /\ backoff = PauseAfter(fails - 1)
        /\ fails' = fails /\ phase' = "top" /\ backoff' = Lesser(2 * backoff, 30)
    BY <1>1 DEF BackoffDone, TypeOK
  <2>2. fails - 1 \in Nat /\ (fails - 1) + 1 = fails
    BY <2>1
  <2>3. PauseAfter(fails) = Lesser(2 * PauseAfter(fails - 1), 30)
    BY <2>2, PauseDoubles
  <2> QED BY <2>1, <2>3
<1>2. ASSUME Fail, phase # "backoff" PROVE PaceInv'
  <2>1. /\ fails \in 0 .. MaxFails /\ MaxFails \in Nat /\ MaxFails >= 6
        /\ backoff' = backoff /\ backoff = PauseAfter(fails)
        /\ phase' = "backoff" /\ fails' = Lesser(fails + 1, MaxFails)
    BY <1>2, DaemonAssumption DEF Fail, TypeOK
  <2>2. CASE fails < MaxFails
    <3>1. fails' = fails + 1 /\ fails' >= 1 /\ fails' - 1 = fails
      BY <2>1, <2>2 DEF Lesser
    <3> QED BY <2>1, <3>1
  <2>3. CASE fails = MaxFails
    <3>1. fails' = MaxFails /\ fails' >= 1 /\ fails' - 1 \in Nat /\ fails' - 1 >= 5
          /\ fails \in Nat /\ fails >= 5
      BY <2>1, <2>3 DEF Lesser
    <3>2. PauseAfter(fails) = 30 /\ PauseAfter(fails' - 1) = 30
      BY <3>1, PauseDoubles
    <3> QED BY <2>1, <3>1, <3>2
  <2>4. fails < MaxFails \/ fails = MaxFails
    BY <2>1
  <2> QED BY <2>2, <2>3, <2>4
<1>3. CASE ConnectFails \/ HandshakeFails \/ ServeRaises
  BY <1>2, <1>3 DEF ConnectFails, HandshakeFails, ServeRaises
<1>4. CASE ServeEnds
  BY <1>4 DEF ServeEnds, PauseAfter
<1>5. CASE LoopTop \/ Connect \/ HandshakeOk \/ RequestStop \/ SessionLost
  BY <1>5 DEF LoopTop, Connect, HandshakeOk, RequestStop, SessionLost, loopVars, sessVars
<1>6. CASE \E r \in Requests :
             ReadRequest(r) \/ Executed(r) \/ SendResponse(r) \/ ResponseFlushed(r)
               \/ ResponseRaises(r)
  BY <1>6 DEF ReadRequest, Executed, SendResponse, ResponseFlushed, ResponseRaises, loopVars
<1>7. CASE Measured \/ SendTelemetry \/ TelemetrySent \/ PauseDone
  BY <1>7 DEF Measured, SendTelemetry, TelemetrySent, PauseDone, loopVars
<1>8. CASE UNCHANGED vars
  BY <1>8 DEF vars
<1> QED BY <1>1, <1>3, <1>4, <1>5, <1>6, <1>7, <1>8 DEF Next

----------------------------------------------------------------------------

\* The three invariants hold in every reachable state.
THEOREM DaemonSafe == Spec => [](DaemonInv /\ StopInv /\ PaceInv)
<1>1. DaemonInv /\ StopInv /\ PaceInv /\ [Next]_vars => (DaemonInv /\ StopInv /\ PaceInv)'
  BY NextDaemon, NextStop, NextPace DEF DaemonInv
<1> QED BY InitDaemon, <1>1, PTL DEF Spec

\* Every variable of the daemon keeps its type, the pause stays within 30 s.
THEOREM TypeCorrect == Spec => []TypeOK
BY DaemonSafe, PTL DEF DaemonInv

\* Readings go out only in an accepted session.
THEOREM TelemetrySafe == Spec => []TelemetryInSession
BY DaemonSafe, PTL DEF DaemonInv

\* One frame is written at a time, across tasks and sessions.
THEOREM SenderSafe == Spec => []OneSender
BY DaemonSafe, PTL DEF DaemonInv

\* The pauses are 1, 2, 4, ... seconds, at most 30, over any number of failures
\* and sessions.
THEOREM PaceSafe == Spec => []BackoffLaw
BY DaemonSafe, PTL DEF PaceInv

\* After a stop at most the attempt under way becomes a session.
THEOREM StopSafe == Spec => []StopBoundsSessions
<1>1. StopInv => StopBoundsSessions
  BY DEF StopInv, StopBoundsSessions
<1> QED BY DaemonSafe, <1>1, PTL

----------------------------------------------------------------------------
(* The loop seen from outside.                                             *)

\* Every step of the daemon is one of the loop's, or shows nothing of it.
LEMMA StepLoops == ASSUME [Next]_vars PROVE [Loop!Next]_(Loop!lvars)
<1> USE DEF Loop!Goes, Loop!lvars, Place
<1> DEFINE Quiet == UNCHANGED <<phase, stop>>
<1>1. ASSUME Quiet PROVE UNCHANGED Loop!lvars
  BY <1>1
<1>2. CASE LoopTop
  BY <1>2 DEF LoopTop, Loop!Next, Loop!Exit
<1>3. CASE Connect
  BY <1>3 DEF Connect, Loop!Next, Loop!Dial
<1>4. CASE ConnectFails
  BY <1>4 DEF ConnectFails, Fail, Loop!Next, Loop!DialFails
<1>5. CASE HandshakeOk
  BY <1>5 DEF HandshakeOk, Loop!Next, Loop!Accepted
<1>6. CASE HandshakeFails
  BY <1>6 DEF HandshakeFails, Fail, Loop!Next, Loop!Rejected
<1>7. CASE ServeEnds
  BY <1>7 DEF ServeEnds, Loop!Next, Loop!Ends
<1>8. CASE ServeRaises
  BY <1>8 DEF ServeRaises, Fail, Loop!Next, Loop!Raises
<1>9. CASE BackoffDone
  BY <1>9 DEF BackoffDone, Loop!Next, Loop!Retry
<1>10. CASE RequestStop
  BY <1>10 DEF RequestStop, Loop!Next, Loop!Stop
<1>11. CASE \/ SessionLost \/ Measured \/ SendTelemetry \/ TelemetrySent \/ PauseDone
            \/ \E r \in Requests :
                  \/ ReadRequest(r) \/ Executed(r) \/ SendResponse(r)
                  \/ ResponseFlushed(r) \/ ResponseRaises(r)
            \/ UNCHANGED vars
  <2>1. Quiet
    BY <1>11 DEF SessionLost, Measured, SendTelemetry, TelemetrySent, PauseDone, ReadRequest,
       Executed, SendResponse, ResponseFlushed, ResponseRaises, loopVars, vars
  <2> QED BY <1>1, <2>1
<1> QED BY <1>2, <1>3, <1>4, <1>5, <1>6, <1>7, <1>8, <1>9, <1>10, <1>11 DEF Next

\* The daemon, with its sessions, tasks, signals and pauses, implements the loop:
\* it has no session without hello_ok, pauses after every failure, and leaves
\* the loop only when it was stopped.
THEOREM ImplementsLoop == Spec => KeepsLoop
<1>1. Init => Loop!Init
  BY DEF Init, Loop!Init, Place
<1>2. [Next]_vars => [Loop!Next]_(Loop!lvars)
  BY StepLoops
<1> QED BY <1>1, <1>2, PTL DEF Spec, KeepsLoop, Loop!Spec
============================================================================
