----------------------------- MODULE Fleet_proof -----------------------------
(***************************************************************************)
(* Main among the daemons: the composition implements the registry, so     *)
(* what was proved of the registry holds in it; and a daemon in session on *)
(* a connection that is up is the one on record.                           *)
(*                                                                         *)
(* For the second the two sides are tied together connection by            *)
(* connection: a handler that has read a hello is of the agent in it, one  *)
(* that has sent hello_ok serves until its connection is closed, and a     *)
(* daemon sits on a connection that carries its own hello.                 *)
(*                                                                         *)
(* From these follow that no daemon waits on a connection main forgot, and *)
(* the safe half of EventuallyOnline.                                      *)
(***************************************************************************)
EXTENDS Fleet, MgmtSession_proof

\* Every step of the composition is one of main's, of main's environment, or
\* leaves the registry alone.
LEMMA StepImplements == ASSUME [FleetNext]_fleetVars PROVE [Next]_vars
<1>1. CASE UNCHANGED fleetVars
  BY <1>1 DEF fleetVars
<1>2. ASSUME NEW d \in Daemons, NEW c \in Conns, Dial(d, c) PROVE [Next]_vars
  BY <1>2 DEF Dial, Next
<1>3. ASSUME NEW d \in Daemons, DialFails(d) \/ Retry(d) \/ Welcome(d) PROVE [Next]_vars
  BY <1>3 DEF DialFails, Retry, Welcome
<1>4. ASSUME NEW d \in Daemons, HandshakeFails(d) \/ SessionEnds(d) \/ Drop(d) PROVE [Next]_vars
  BY <1>4 DEF HandshakeFails, SessionEnds, Drop, HangUp
<1>5. ASSUME NEW c \in Conns, ReadHello(c) PROVE [Next]_vars
  <2>1. Accept(c, hello[c])
    BY <1>5 DEF ReadHello
  <2>2. hello[c] \in Agents
    BY <1>5 DEF ReadHello
  <2> QED BY <2>1, <2>2 DEF Next
<1>6. ASSUME NEW c \in Conns,
             \/ Replaced(c) \/ MissHello(c) \/ Handle(c) \/ Heartbeat(c)
             \/ Break(c) \/ Noticed(c) \/ Recycle(c)
      PROVE  [Next]_vars
  BY <1>6 DEF Replaced, MissHello, Handle, Heartbeat, Break, Noticed, Recycle, Next
<1>7. CASE CalmDown
  BY <1>7 DEF CalmDown
<1> QED BY <1>1, <1>2, <1>3, <1>4, <1>5, <1>6, <1>7 DEF FleetNext

\* The composition implements the registry of MgmtSession.
THEOREM FleetImplements == FleetSpec => Spec
<1>1. FleetInit => Init
  BY DEF FleetInit
<1>2. [FleetNext]_fleetVars => [Next]_vars
  BY StepImplements
<1> QED
  BY <1>1, <1>2, PTL DEF FleetSpec, Spec

----------------------------------------------------------------------------
(* The two sides of a connection.                                          *)

\* What the daemons' side consists of.
FleetTypes ==
    /\ phase \in [Daemons -> {"connect", "pause", "handshake", "serve"}]
    /\ at \in [Daemons -> Conns \cup {NoConn}]
    /\ hello \in [Conns -> Agents \cup {NoAgent}]
    /\ welcomed \subseteq Conns

\* A handler acts for the agent of the hello it has read.
HelloRead ==
    \A c \in Conns : pc[c] = "replace" \/ c \in welcomed => who[c] = hello[c]

\* After hello_ok a handler is in its loop, or has closed the connection.
WelcomedServes ==
    \A c \in welcomed : Attached(c) \/ (pc[c] \in {"leave", "done"} /\ closed[c])

\* A daemon sits on a connection on which it has sent its hello.
OwnConnection ==
    \A d \in Daemons :
        /\ phase[d] \in {"handshake", "serve"} =>
              at[d] \in Conns /\ hello[at[d]] = Name[d] /\ pc[at[d]] # "free"
        /\ phase[d] = "serve" => at[d] \in welcomed

\* The inductive invariant, over the two of the registry.
FleetInv == FleetTypes /\ HelloRead /\ WelcomedServes /\ OwnConnection

\* Initially no daemon has a connection.
LEMMA InitFleet == ASSUME FleetInit PROVE FleetInv
  BY DEF FleetInit, Init, FleetInv, FleetTypes, HelloRead, WelcomedServes, OwnConnection

\* A daemon's own step moves no handler of another connection than its own.
LEMMA DaemonStep ==
  ASSUME TypeOK, FleetInv, NEW d \in Daemons,
         \/ \E c \in Conns : Dial(d, c)
         \/ DialFails(d) \/ Retry(d) \/ Welcome(d)
         \/ HandshakeFails(d) \/ SessionEnds(d) \/ Drop(d)
  PROVE  FleetInv'
<1> USE FleetAssumption, SessionAssumption DEF FleetInv, FleetTypes
<1>1. ASSUME NEW c \in Conns, Dial(d, c) PROVE FleetInv'
  <2>1. /\ pc[c] = "free" /\ pc' = [pc EXCEPT ![c] = "hello"]
        /\ UNCHANGED <<who, closed, welcomed>>
        /\ phase' = [phase EXCEPT ![d] = "handshake"] /\ at' = [at EXCEPT ![d] = c]
        /\ hello' = [hello EXCEPT ![c] = Name[d]]
    BY <1>1 DEF Dial, Connect
  <2>2. c \notin welcomed
    BY <2>1 DEF WelcomedServes, Attached
  <2>3. FleetTypes'
    BY <2>1
  <2>4. HelloRead'
    BY <2>1, <2>2 DEF HelloRead, TypeOK
  <2>5. WelcomedServes'
    BY <2>1, <2>2 DEF WelcomedServes, Attached, TypeOK
  <2>6. OwnConnection'
    BY <2>1, <2>2 DEF OwnConnection, TypeOK
  <2> QED BY <2>3, <2>4, <2>5, <2>6
<1>2. ASSUME UNCHANGED <<pc, who, closed, hello, welcomed>>,
             NEW next \in {"connect", "pause", "handshake", "serve"},
             phase' = [phase EXCEPT ![d] = next],
             \/ next \in {"connect", "pause"} /\ at' \in {at, [at EXCEPT ![d] = NoConn]}
             \/ next = "serve" /\ phase[d] = "handshake" /\ at' = at /\ at[d] \in welcomed
      PROVE  FleetInv'
  BY <1>2 DEF HelloRead, WelcomedServes, OwnConnection, Attached
<1>3. CASE DialFails(d)
  BY <1>2, <1>3 DEF DialFails, vars, netVars
<1>4. CASE Retry(d)
  BY <1>2, <1>4 DEF Retry, vars, netVars
<1>5. CASE Welcome(d)
  BY <1>2, <1>5 DEF Welcome, vars, netVars
<1>6. ASSUME NEW next \in {"connect", "pause"}, HangUp(d, next) PROVE FleetInv'
  <2>1. UNCHANGED <<pc, who, closed, hello, welcomed>>
    BY <1>6 DEF HangUp, vars, netVars
  <2> QED BY <1>2, <1>6, <2>1 DEF HangUp
<1>7. CASE HandshakeFails(d)
  BY <1>6, <1>7 DEF HandshakeFails
<1>8. CASE SessionEnds(d) \/ Drop(d)
  BY <1>6, <1>8 DEF SessionEnds, Drop
<1> QED BY <1>1, <1>3, <1>4, <1>5, <1>7, <1>8

\* A handler's step changes the state of its own connection, and that of the
\* one it replaces from open to closed.
LEMMA MainStep ==
  ASSUME TypeOK, FleetInv, NEW c \in Conns,
         \/ ReadHello(c) \/ Replaced(c) \/ MissHello(c) \/ Handle(c) \/ Heartbeat(c)
         \/ Break(c) \/ Noticed(c) \/ Recycle(c)
  PROVE  FleetInv'
<1> USE FleetAssumption, SessionAssumption DEF FleetInv, FleetTypes
<1>1. ASSUME NEW a \in Agents, Register(c, a), Registers(c), hello[c] = a,
             who' \in {who, [who EXCEPT ![c] = a]}, who'[c] = a,
             \A e \in Conns : closed[e] => closed'[e],
             pc[c] \in {"hello", "replace"}
      PROVE  FleetInv'
  <2>1. /\ c \notin welcomed
        /\ \A e \in Conns \ {c} : pc'[e] = pc[e] /\ who'[e] = who[e]
        /\ pc'[c] \in {"announce", "crashed"}
        /\ welcomed' = IF pc'[c] = "announce" THEN welcomed \cup {c} ELSE welcomed
        /\ UNCHANGED <<phase, at, hello>>
    BY <1>1 DEF Register, Registers, WelcomedServes, Attached, TypeOK, daemonVars
  <2>2. FleetTypes'
    BY <2>1
  <2>3. HelloRead'
    BY <1>1, <2>1 DEF HelloRead
  <2>4. WelcomedServes'
    BY <1>1, <2>1 DEF WelcomedServes, Attached
  <2>5. OwnConnection'
    BY <2>1 DEF OwnConnection
  <2> QED BY <2>2, <2>3, <2>4, <2>5
<1>2. CASE ReadHello(c)
  <2>1. hello[c] \in Agents /\ Accept(c, hello[c]) /\ Registers(c)
    BY <1>2 DEF ReadHello
  <2>2. CASE AcceptFresh(c, hello[c])
    BY <1>1, <2>1, <2>2 DEF AcceptFresh, TypeOK
  <2>3. CASE AcceptReplacing(c, hello[c])
    <3>1. /\ pc[c] = "hello" /\ pc' = [pc EXCEPT ![c] = "replace"]
          /\ who' = [who EXCEPT ![c] = hello[c]]
          /\ \A e \in Conns : closed[e] => closed'[e]
          /\ UNCHANGED <<phase, at, hello, welcomed>>
      BY <2>1, <2>3 DEF AcceptReplacing, NothingToAwait, HasOpenConn, Registers, TypeOK, daemonVars
    <3>2. c \notin welcomed
      BY <3>1 DEF WelcomedServes, Attached
    <3>3. HelloRead'
      BY <3>1, <3>2 DEF HelloRead, TypeOK
    <3>4. WelcomedServes'
      BY <3>1, <3>2 DEF WelcomedServes, Attached, TypeOK
    <3>5. OwnConnection'
      BY <3>1 DEF OwnConnection, TypeOK
    <3> QED BY <3>1, <3>3, <3>4, <3>5
  <2> QED BY <2>1, <2>2, <2>3 DEF Accept
<1>3. CASE Replaced(c)
  <2>1. Register(c, who[c]) /\ Registers(c) /\ pc[c] = "replace" /\ UNCHANGED <<who, closed>>
    BY <1>3 DEF Replaced, Install
  <2>2. who[c] \in Agents /\ hello[c] = who[c]
    BY <2>1 DEF TypeOK, HelloRead
  <2> QED BY <1>1, <2>1, <2>2
<1>4. ASSUME UNCHANGED <<who, daemonVars, hello, welcomed>>,
             pc' = pc \/ \E s \in PcStates \ {"free", "replace"} : pc' = [pc EXCEPT ![c] = s],
             closed' = closed \/ closed' = [closed EXCEPT ![c] = TRUE],
             c \in welcomed => WelcomedServes'
      PROVE  FleetInv'
  <2>1. WelcomedServes'
    <3>1. SUFFICES ASSUME c \notin welcomed, NEW e \in welcomed'
                   PROVE  Attached(e)' \/ (pc'[e] \in {"leave", "done"} /\ closed'[e])
      BY <1>4 DEF WelcomedServes
    <3>2. e \in Conns /\ pc'[e] = pc[e] /\ closed'[e] = closed[e]
      BY <1>4, <3>1 DEF TypeOK
    <3> QED BY <1>4, <3>1, <3>2 DEF WelcomedServes, Attached
  <2>2. HelloRead'
    BY <1>4 DEF HelloRead, TypeOK
  <2>3. OwnConnection'
    BY <1>4 DEF OwnConnection, TypeOK, daemonVars
  <2> QED BY <1>4, <2>1, <2>2, <2>3 DEF daemonVars
<1>5. CASE MissHello(c)
  <2>1. c \notin welcomed
    BY <1>5 DEF MissHello, RejectHello, WelcomedServes, Attached
  <2> QED BY <1>4, <1>5, <2>1 DEF MissHello, RejectHello, netVars, PcStates
<1>6. CASE Handle(c)
  <2>1. CASE BroadcastDone(c)
    BY <1>4, <1>6, <2>1 DEF Handle, BroadcastDone, netVars, PcStates, WelcomedServes, Attached, TypeOK
  <2>2. CASE Telemetry(c)
    BY <1>4, <1>6, <2>2 DEF Handle, Telemetry, netVars, PcStates, WelcomedServes, Attached, TypeOK
  <2>3. CASE Leave(c)
    <3>1. /\ pc[c] = "serve" /\ closed' = [closed EXCEPT ![c] = TRUE]
          /\ UNCHANGED who
          /\ \E s \in {"leave", "done"} : pc' = [pc EXCEPT ![c] = s]
      BY <2>3 DEF Leave, LeaveRegistered, LeaveReplaced
    <3> QED BY <1>4, <1>6, <3>1 DEF Handle, netVars, PcStates, WelcomedServes, Attached, TypeOK
  <2>4. CASE LeaveDone(c)
    BY <1>4, <1>6, <2>4 DEF Handle, LeaveDone, netVars, PcStates, WelcomedServes, Attached, TypeOK
  <2> QED BY <1>6, <2>1, <2>2, <2>3, <2>4 DEF Handle
<1>7. CASE Heartbeat(c)
  BY <1>4, <1>7 DEF Heartbeat, HeartbeatExpire, netVars, WelcomedServes, Attached, TypeOK
<1>8. CASE Break(c) \/ Noticed(c)
  BY <1>4, <1>8 DEF Break, Noticed, PeerGone, netVars, WelcomedServes, Attached, TypeOK
<1>9. CASE Recycle(c)
  <2>1. /\ pc[c] # "replace" /\ pc' = [pc EXCEPT ![c] = "free"]
        /\ who' = [who EXCEPT ![c] = NoAgent] /\ closed' = [closed EXCEPT ![c] = FALSE]
        /\ \A d \in Daemons : at[d] # c
        /\ hello' = [hello EXCEPT ![c] = NoAgent] /\ welcomed' = welcomed \ {c}
        /\ UNCHANGED <<phase, at>>
    BY <1>9 DEF Recycle, Reuse, daemonVars
  <2>2. HelloRead'
    BY <2>1 DEF HelloRead, TypeOK
  <2>3. WelcomedServes'
    BY <2>1 DEF WelcomedServes, Attached, TypeOK
  <2>4. OwnConnection'
    BY <2>1 DEF OwnConnection, TypeOK
  <2> QED BY <2>1, <2>2, <2>3, <2>4
<1> QED BY <1>2, <1>3, <1>5, <1>6, <1>7, <1>8, <1>9

\* Calm and a stutter move neither side.
LEMMA QuietFleet ==
  ASSUME FleetInv, CalmDown \/ UNCHANGED fleetVars PROVE FleetInv'
  BY DEF CalmDown, fleetVars, vars, daemonVars, FleetInv, FleetTypes, HelloRead,
         WelcomedServes, OwnConnection, Attached

\* The two sides are tied together in every reachable state.
THEOREM FleetSafe == FleetSpec => []FleetInv
<1>1. FleetInit => FleetInv
  BY InitFleet
<1>2. TypeOK /\ FleetInv /\ [FleetNext]_fleetVars => FleetInv'
  BY DaemonStep, MainStep, QuietFleet DEF FleetNext
<1>3. FleetSpec => []TypeOK
  BY FleetImplements, TypeCorrect
<1> QED
  BY <1>1, <1>2, <1>3, PTL DEF FleetSpec

\* A daemon in session on a connection that is up is the one main sends to.
THEOREM AgreedSafe == FleetSpec => []Agreed
<1>1. ASSUME FleetInv, OneLiveSession, OnlineHasHandler PROVE Agreed
  <2> SUFFICES ASSUME NEW d \in Daemons,
                      phase[d] = "serve", ~Gone(d), Name[d] \notin Overlap
               PROVE  ws[Name[d]] = at[d] /\ online[Name[d]]
    BY DEF Agreed
  <2>1. /\ at[d] \in Conns /\ at[d] \in welcomed
        /\ hello[at[d]] = Name[d] /\ Name[d] \in Agents
    BY <1>1, FleetAssumption DEF FleetInv, OwnConnection
  <2>2. ~closed[at[d]]
    BY <2>1 DEF Gone
  <2>3. Attached(at[d]) /\ who[at[d]] = Name[d]
    BY <1>1, <2>1, <2>2 DEF FleetInv, HelloRead, WelcomedServes
  <2>4. ws[Name[d]] = at[d]
    BY <1>1, <2>1, <2>2, <2>3 DEF OneLiveSession
  <2> QED BY <1>1, <2>1, <2>4, SessionAssumption DEF OnlineHasHandler
<1> QED
  BY <1>1, FleetSafe, FleetImplements, OneLiveSessionSafe, OnlineSafe, PTL

----------------------------------------------------------------------------
(* No daemon waits for nothing.                                            *)

\* A daemon that waits for main's answer, which no timeout covers, or serves, has a
\* connection that is over, or one that main is about to answer on, or one
\* that was answered and is in the loop of its handler.
Attended ==
    \A d \in Daemons : phase[d] \in {"handshake", "serve"} =>
        \/ Gone(d)
        \/ pc[at[d]] \in {"hello", "replace"}
        \/ at[d] \in welcomed /\ Attached(at[d])

\* Initially nobody waits.
LEMMA InitAttended == ASSUME FleetInit PROVE Attended
  BY DEF FleetInit, Attended

\* A daemon attends to a connection of its own: it dials with a handler that waits
\* for the hello, and goes on to serve after hello_ok.
LEMMA DaemonAttended ==
  ASSUME TypeOK, FleetInv, Attended, NEW d \in Daemons,
         \/ \E c \in Conns : Dial(d, c)
         \/ DialFails(d) \/ Retry(d) \/ Welcome(d)
         \/ HandshakeFails(d) \/ SessionEnds(d) \/ Drop(d)
  PROVE  Attended'
<1> USE DEF FleetInv, FleetTypes
<1>1. ASSUME NEW c \in Conns, Dial(d, c) PROVE Attended'
  <2>1. /\ pc[c] = "free" /\ pc' = [pc EXCEPT ![c] = "hello"]
        /\ UNCHANGED <<closed, lost, welcomed>>
        /\ phase' = [phase EXCEPT ![d] = "handshake"] /\ at' = [at EXCEPT ![d] = c]
    BY <1>1 DEF Dial, Connect
  <2>2. ASSUME NEW e \in Daemons, e # d, phase[e] \in {"handshake", "serve"} PROVE at[e] # c
    BY <2>1, <2>2 DEF OwnConnection
  <2> QED BY <2>1, <2>2 DEF Attended, Gone, Attached, OwnConnection, TypeOK
<1>2. ASSUME UNCHANGED <<pc, closed, welcomed>>, \A c \in Conns : lost[c] => lost'[c],
             NEW next \in {"connect", "pause", "serve"}, phase' = [phase EXCEPT ![d] = next],
             \A e \in Daemons : e # d => at'[e] = at[e],
             next = "serve" => at' = at /\ phase[d] = "handshake"
      PROVE  Attended'
  BY <1>2 DEF Attended, Gone, Attached
<1>3. CASE DialFails(d)
  BY <1>2, <1>3 DEF DialFails, vars, netVars
<1>4. CASE Retry(d)
  BY <1>2, <1>4 DEF Retry, vars, netVars
<1>5. CASE Welcome(d)
  BY <1>2, <1>5 DEF Welcome, vars, netVars
<1>6. ASSUME NEW next \in {"connect", "pause"}, HangUp(d, next) PROVE Attended'
  <2>1. UNCHANGED <<pc, closed, welcomed>> /\ \A c \in Conns : lost[c] => lost'[c]
    BY <1>6 DEF HangUp, vars, netVars
  <2> QED BY <1>2, <1>6, <2>1 DEF HangUp
<1>7. CASE HandshakeFails(d)
  BY <1>6, <1>7 DEF HandshakeFails
<1>8. CASE SessionEnds(d) \/ Drop(d)
  BY <1>6, <1>8 DEF SessionEnds, Drop
<1> QED BY <1>1, <1>3, <1>4, <1>5, <1>7, <1>8

\* A handler answers, closes its connection, or goes on; it crashes only on a
\* connection that is over.
LEMMA MainAttends ==
  ASSUME TypeOK, FleetInv, Attended, NEW c \in Conns,
         \/ ReadHello(c) \/ Replaced(c) \/ MissHello(c) \/ Handle(c) \/ Heartbeat(c)
         \/ Break(c) \/ Noticed(c) \/ Recycle(c)
  PROVE  Attended'
<1> USE DEF FleetInv, FleetTypes
<1> DEFINE Over(e) == closed[e] \/ lost[e]
           Answers(e) == \/ pc[e] \in {"hello", "replace"}
                         \/ e \in welcomed /\ Attached(e)
<1>1. ASSUME UNCHANGED <<phase, at>>,
             \A e \in Conns : (\E d \in Daemons : at[d] = e) /\ (Over(e) \/ Answers(e))
                                => Over(e)' \/ Answers(e)'
      PROVE  Attended'
  <2> SUFFICES ASSUME NEW d \in Daemons, phase[d] \in {"handshake", "serve"}
               PROVE  Over(at[d])' \/ Answers(at[d])'
    BY <1>1 DEF Attended, Gone, OwnConnection
  <2> QED BY <1>1 DEF Attended, Gone, OwnConnection
<1>2. ASSUME NEW a \in Agents, Register(c, a), Registers(c), UNCHANGED lost,
             \A e \in Conns : closed[e] => closed'[e]
      PROVE  Attended'
  <2>1. UNCHANGED <<phase, at>>
    BY <1>2 DEF Registers, daemonVars
  <2>2. Over(c)' \/ Answers(c)'
    BY <1>2 DEF Register, Registers, Attached, TypeOK
  <2>3. \A e \in Conns \ {c} : pc'[e] = pc[e] /\ (e \in welcomed => e \in welcomed')
    BY <1>2 DEF Register, Registers, TypeOK
  <2>4. ASSUME NEW e \in Conns, Over(e) \/ Answers(e) PROVE Over(e)' \/ Answers(e)'
    BY <1>2, <2>2, <2>3, <2>4 DEF Attached
  <2> QED BY <1>1, <2>1, <2>4
<1>3. ASSUME UNCHANGED <<phase, at, welcomed>>,
             \A e \in Conns : Over(e) => Over(e)',
             \A e \in Conns : \/ pc'[e] = pc[e]
                              \/ Attached(e) /\ Attached(e)'
                              \/ pc'[e] = "replace"
                              \/ Over(e)'
      PROVE  Attended'
  <2>1. ASSUME NEW e \in Conns, Over(e) \/ Answers(e) PROVE Over(e)' \/ Answers(e)'
    BY <1>3, <2>1 DEF Attached
  <2> QED BY <1>1, <1>3, <2>1
<1>4. CASE ReadHello(c)
  <2>1. hello[c] \in Agents /\ Accept(c, hello[c]) /\ Registers(c)
    BY <1>4 DEF ReadHello
  <2>2. CASE AcceptFresh(c, hello[c])
    BY <1>2, <2>1, <2>2 DEF AcceptFresh
  <2>3. CASE AcceptReplacing(c, hello[c])
    <3>1. /\ pc' = [pc EXCEPT ![c] = "replace"]
          /\ \A e \in Conns : closed[e] => closed'[e]
          /\ UNCHANGED <<phase, at, lost, welcomed>>
      BY <2>1, <2>3 DEF AcceptReplacing, NothingToAwait, HasOpenConn, Registers, TypeOK, daemonVars
    <3> QED BY <1>3, <3>1 DEF TypeOK
  <2> QED BY <2>1, <2>2, <2>3 DEF Accept
<1>5. CASE Replaced(c)
  <2>1. who[c] \in Agents
    BY <1>5 DEF Replaced, Install, TypeOK
  <2> QED BY <1>2, <1>5, <2>1 DEF Replaced, Install
<1>6. CASE MissHello(c)
  BY <1>3, <1>6 DEF MissHello, RejectHello, daemonVars, netVars, TypeOK
<1>7. CASE Handle(c)
  <2>1. UNCHANGED <<phase, at, welcomed>>
    BY <1>7 DEF Handle, daemonVars, netVars
  <2>2. CASE BroadcastDone(c) \/ Telemetry(c)
    BY <1>3, <2>1, <2>2 DEF BroadcastDone, Telemetry, Attached, TypeOK
  <2>3. CASE Leave(c)
    <3>1. closed' = [closed EXCEPT ![c] = TRUE] /\ \E s \in PcStates : pc' = [pc EXCEPT ![c] = s]
          /\ UNCHANGED lost
      BY <2>3 DEF Leave, LeaveRegistered, LeaveReplaced, PcStates
    <3> QED BY <1>3, <2>1, <3>1 DEF TypeOK
  <2>4. CASE LeaveDone(c)
    <3>1. ~Answers(c)
      BY <2>4 DEF LeaveDone, Attached
    <3>2. UNCHANGED <<closed, lost>> /\ pc' = [pc EXCEPT ![c] = "done"]
      BY <2>4 DEF LeaveDone
    <3>3. ASSUME NEW e \in Conns, Over(e) \/ Answers(e) PROVE Over(e)' \/ Answers(e)'
      BY <2>1, <3>1, <3>2, <3>3 DEF Attached, TypeOK
    <3> QED BY <1>1, <2>1, <3>3
  <2> QED BY <1>7, <2>2, <2>3, <2>4 DEF Handle
<1>8. CASE Heartbeat(c)
  BY <1>3, <1>8 DEF Heartbeat, HeartbeatExpire, daemonVars, netVars, TypeOK
<1>9. CASE Break(c) \/ Noticed(c)
  BY <1>3, <1>9 DEF Break, Noticed, PeerGone, daemonVars, netVars, TypeOK
<1>10. CASE Recycle(c)
  <2>1. /\ \A d \in Daemons : at[d] # c
        /\ pc' = [pc EXCEPT ![c] = "free"] /\ welcomed' = welcomed \ {c}
        /\ closed' = [closed EXCEPT ![c] = FALSE] /\ lost' = [lost EXCEPT ![c] = FALSE]
        /\ UNCHANGED <<phase, at>>
    BY <1>10 DEF Recycle, Reuse, daemonVars
  <2>2. ASSUME NEW e \in Conns, e # c, Over(e) \/ Answers(e) PROVE Over(e)' \/ Answers(e)'
    BY <2>1, <2>2 DEF Attached, TypeOK
  <2> QED BY <1>1, <2>1, <2>2
<1> QED BY <1>4, <1>5, <1>6, <1>7, <1>8, <1>9, <1>10

\* No daemon is left waiting on a connection that main has forgotten: whatever was
\* replaced, crashed or given up, its connection is over, or a handler of main is
\* at it which answers or closes it.  So that the wait for hello_ok has no timeout
\* of its own does no harm (agent.py:130).
THEOREM NobodyForgotten == FleetSpec => []Attended
<1>1. FleetInit => Attended
  BY InitAttended
<1>2. TypeOK /\ FleetInv /\ Attended /\ [FleetNext]_fleetVars => Attended'
  <2>1. ASSUME Attended, CalmDown \/ UNCHANGED fleetVars PROVE Attended'
    BY <2>1 DEF CalmDown, fleetVars, vars, daemonVars, Attended, Gone, Attached
  <2> QED BY <2>1, DaemonAttended, MainAttends DEF FleetNext
<1>3. FleetSpec => []TypeOK
  BY FleetImplements, TypeCorrect
<1> QED BY <1>1, <1>2, <1>3, FleetSafe, PTL DEF FleetSpec

----------------------------------------------------------------------------
(* What stays when the network is calm.                                    *)

\* A daemon is served on a connection that is up, and no other hello in its name
\* is on its way to main or being handled.
Settled(d) ==
    /\ calm /\ Served(d) /\ ~closed[at[d]] /\ ~lost[at[d]]
    /\ \A c \in Conns : c # at[d] /\ hello[c] = Name[d] => pc[c] \notin {"hello", "replace"}

\* What a settled daemon's connection is for main.
LEMMA SettledOwns ==
  ASSUME TypeOK, FleetInv, OnlineHasHandler, NEW d \in Daemons, Settled(d)
  PROVE  /\ at[d] \in Conns /\ hello[at[d]] = Name[d] /\ who[at[d]] = Name[d]
         /\ Attached(at[d]) /\ session[Name[d]] = at[d]
         /\ \A c \in Conns : pc[c] \in {"hello", "replace"} => c # at[d] /\ hello[c] # Name[d]
<1>1. at[d] \in Conns /\ hello[at[d]] = Name[d] /\ at[d] \in welcomed
  BY DEF Settled, Served, FleetInv, OwnConnection
<1>2. who[at[d]] = Name[d] /\ Attached(at[d])
  BY <1>1 DEF Settled, FleetInv, HelloRead, WelcomedServes
<1>3. session[Name[d]] = at[d]
  BY <1>1, SessionAssumption, FleetAssumption DEF Settled, Served, OnlineHasHandler
<1> QED BY <1>1, <1>2, <1>3 DEF Settled, Attached

\* What another daemon does leaves a settled one alone: it dials or leaves a
\* connection that is not this one's.
LEMMA OthersStep ==
  ASSUME TypeOK, FleetInv, OnlineHasHandler, NEW d \in Daemons, Settled(d),
         \A e \in Daemons : Name[e] = Name[d] => e = d,
         NEW e \in Daemons,
         \/ \E c \in Conns : Dial(e, c)
         \/ DialFails(e) \/ Retry(e) \/ Welcome(e)
         \/ HandshakeFails(e) \/ SessionEnds(e) \/ Drop(e)
  PROVE  Settled(d)'
<1> USE FleetAssumption DEF FleetInv, FleetTypes
<1>1. e # d /\ Name[e] # Name[d]
  BY SettledOwns DEF Settled, Served, Dial, DialFails, Retry, Welcome, HandshakeFails, SessionEnds,
     Drop, Gone
<1>2. ASSUME NEW c \in Conns, Dial(e, c) PROVE Settled(d)'
  <2>1. c # at[d]
    BY <1>2, SettledOwns DEF Dial, Connect, Attached
  <2>2. /\ pc' = [pc EXCEPT ![c] = "hello"] /\ UNCHANGED <<closed, lost, ws, online, calm>>
        /\ phase' = [phase EXCEPT ![e] = "handshake"] /\ at' = [at EXCEPT ![e] = c]
        /\ hello' = [hello EXCEPT ![c] = Name[e]]
    BY <1>2 DEF Dial, Connect, regVars
  <2> QED BY <1>1, <2>1, <2>2 DEF Settled, Served, TypeOK
<1>3. CASE DialFails(e) \/ Retry(e) \/ Welcome(e)
  <2>1. /\ UNCHANGED <<pc, closed, lost, ws, online, calm, at, hello>>
        /\ phase'[d] = phase[d]
    BY <1>1, <1>3 DEF DialFails, Retry, Welcome, vars, regVars, netVars
  <2> QED BY <2>1 DEF Settled, Served
<1>4. CASE HandshakeFails(e) \/ SessionEnds(e) \/ Drop(e)
  <2>1. PICK next : HangUp(e, next)
    BY <1>4 DEF HandshakeFails, SessionEnds, Drop
  <2>2. /\ UNCHANGED <<pc, closed, lost, ws, online, calm, hello>>
        /\ phase'[d] = phase[d] /\ at'[d] = at[d]
    BY <1>1, <2>1 DEF HangUp, vars, regVars, netVars
  <2> QED BY <2>2 DEF Settled, Served
<1> QED BY <1>2, <1>3, <1>4

\* What main does for other agents leaves a settled daemon alone, and for its own it
\* has nothing else to do; what broke earlier is not its connection.
LEMMA MainLeaves ==
  ASSUME TypeOK, FleetInv, OnlineHasHandler, NEW d \in Daemons, Settled(d),
         NEW c \in Conns,
         \/ ReadHello(c) \/ Replaced(c) \/ MissHello(c) \/ Handle(c) \/ Heartbeat(c)
         \/ Break(c) \/ Noticed(c) \/ Recycle(c)
  PROVE  Settled(d)'
<1> USE FleetAssumption DEF FleetInv, FleetTypes
<1>0. /\ at[d] \in Conns /\ hello[at[d]] = Name[d] /\ who[at[d]] = Name[d]
      /\ Attached(at[d]) /\ session[Name[d]] = at[d]
      /\ \A e \in Conns : pc[e] \in {"hello", "replace"} => e # at[d] /\ hello[e] # Name[d]
  BY SettledOwns
<1>1. ASSUME UNCHANGED <<phase, at, calm>>,
             \A e \in Conns : hello'[e] \in {hello[e], NoAgent},
             \A e \in Conns : pc'[e] \in {"hello", "replace"} => pc[e] \in {"hello", "replace"},
             ws'[Name[d]] = ws[Name[d]], online'[Name[d]] = online[Name[d]],
             ~closed'[at[d]], ~lost'[at[d]]
      PROVE  Settled(d)'
  BY <1>0, <1>1, SessionAssumption DEF Settled, Served
<1>2. CASE ReadHello(c)
  <2>1. /\ hello[c] \in Agents /\ Accept(c, hello[c]) /\ pc[c] = "hello"
        /\ UNCHANGED <<phase, at, calm, hello>>
    BY <1>2 DEF ReadHello, Registers, daemonVars, Accept, AcceptFresh, AcceptReplacing
  <2>2. hello[c] # Name[d]
    BY <1>0, <2>1
  <2>3. CASE AcceptFresh(c, hello[c])
    <3>1. /\ ws' = [ws EXCEPT ![hello[c]] = c] /\ online' = [online EXCEPT ![hello[c]] = TRUE]
          /\ closed' = [e \in Conns |-> closed[e] \/ e = ws[hello[c]]] /\ UNCHANGED lost
          /\ \E s \in {"announce", "crashed"} : pc' = [pc EXCEPT ![c] = s]
      BY <2>3 DEF AcceptFresh, Register
    <3>2. ws[hello[c]] # at[d]
      BY <1>0, <2>1, <2>2, SessionAssumption DEF OnlineHasHandler
    <3> QED BY <1>0, <1>1, <2>1, <2>2, <3>1, <3>2 DEF TypeOK, Settled
  <2>4. CASE AcceptReplacing(c, hello[c])
    <3>1. /\ ws[hello[c]] # NoConn /\ closed' = [closed EXCEPT ![ws[hello[c]]] = TRUE]
          /\ pc' = [pc EXCEPT ![c] = "replace"] /\ UNCHANGED <<lost, ws, online>>
      BY <2>4 DEF AcceptReplacing, NothingToAwait, HasOpenConn, regVars
    <3>2. ws[hello[c]] # at[d]
      BY <1>0, <2>1, <2>2, <3>1 DEF OnlineHasHandler
    <3> QED BY <1>1, <2>1, <3>1, <3>2 DEF TypeOK, Settled
  <2> QED BY <2>1, <2>3, <2>4 DEF Accept
<1>3. CASE Replaced(c)
  <2>1. /\ pc[c] = "replace" /\ Register(c, who[c])
        /\ UNCHANGED <<phase, at, calm, hello, closed, lost>>
    BY <1>3 DEF Replaced, Install, Registers, daemonVars
  <2>2. who[c] \in Agents /\ who[c] # Name[d]
    BY <1>0, <2>1 DEF TypeOK, HelloRead
  <2>3. /\ ws' = [ws EXCEPT ![who[c]] = c] /\ online' = [online EXCEPT ![who[c]] = TRUE]
        /\ \E s \in {"announce", "crashed"} : pc' = [pc EXCEPT ![c] = s]
    BY <2>1 DEF Register
  <2> QED BY <1>1, <2>1, <2>2, <2>3 DEF TypeOK, Settled
<1>4. CASE MissHello(c)
  BY <1>0, <1>1, <1>4 DEF MissHello, RejectHello, daemonVars, netVars, regVars, TypeOK, Settled
<1>5. CASE Handle(c)
  <2>1. UNCHANGED <<phase, at, calm, hello>>
    BY <1>5 DEF Handle, daemonVars, netVars
  <2>2. CASE BroadcastDone(c) \/ Telemetry(c) \/ LeaveDone(c)
    BY <1>1, <2>1, <2>2 DEF BroadcastDone, Telemetry, LeaveDone, regVars, TypeOK, Settled
  <2>3. CASE Leave(c)
    <3>1. /\ c # at[d] /\ closed' = [closed EXCEPT ![c] = TRUE] /\ UNCHANGED lost
          /\ \E s \in {"leave", "done"} : pc' = [pc EXCEPT ![c] = s]
      BY <2>3 DEF Leave, LeaveRegistered, LeaveReplaced, Settled
    <3>2. ws'[Name[d]] = ws[Name[d]] /\ online'[Name[d]] = online[Name[d]]
      <4>1. CASE LeaveReplaced(c)
        BY <4>1 DEF LeaveReplaced, regVars
      <4>2. CASE LeaveRegistered(c)
        <5>1. who[c] # Name[d]
          BY <1>0, <3>1, <4>2 DEF LeaveRegistered, OwnsSession
        <5> QED BY <4>2, <5>1 DEF LeaveRegistered, TypeOK
      <4> QED BY <2>3, <4>1, <4>2 DEF Leave
    <3> QED BY <1>1, <2>1, <3>1, <3>2 DEF TypeOK, Settled
  <2> QED BY <1>5, <2>2, <2>3 DEF Handle
<1>6. CASE Heartbeat(c)
  BY <1>1, <1>6 DEF Heartbeat, HeartbeatExpire, daemonVars, netVars, regVars, TypeOK, Settled
<1>7. ~Break(c)
  BY DEF Break, Settled
<1>9. CASE Noticed(c)
  <2>1. c # at[d] /\ lost' = [lost EXCEPT ![c] = TRUE]
    BY <1>9 DEF Noticed, PeerGone
  <2> QED BY <1>1, <1>9, <2>1 DEF Noticed, PeerGone, daemonVars, netVars, regVars, TypeOK, Settled
<1>8. CASE Recycle(c)
  <2>1. /\ c # at[d] /\ hello' = [hello EXCEPT ![c] = NoAgent] /\ pc' = [pc EXCEPT ![c] = "free"]
        /\ closed' = [closed EXCEPT ![c] = FALSE] /\ lost' = [lost EXCEPT ![c] = FALSE]
        /\ UNCHANGED <<phase, at, calm, ws, online>>
    BY <1>8 DEF Recycle, Reuse, daemonVars, regVars
  <2> QED BY <1>1, <2>1 DEF TypeOK, Settled
<1> QED BY <1>2, <1>3, <1>4, <1>5, <1>6, <1>7, <1>8, <1>9

\* The safe half of EventuallyOnline: in calm, a daemon that is alone with its name
\* and is served, with no other hello of its own under way, stays served on that
\* connection, whatever main does for other agents and whatever handlers of its
\* earlier connections are still ending.
THEOREM SettledStays ==
  ASSUME NEW d \in Daemons, \A e \in Daemons : Name[e] = Name[d] => e = d
  PROVE  FleetSpec => [][Settled(d) => Settled(d)' /\ UNCHANGED at[d]]_fleetVars
<1>1. ASSUME TypeOK, FleetInv, OnlineHasHandler, [FleetNext]_fleetVars, Settled(d)
      PROVE  Settled(d)' /\ UNCHANGED at[d]
  <2>1. Settled(d)'
    <3>1. CASE UNCHANGED fleetVars
      BY <1>1, <3>1 DEF fleetVars, vars, Settled, Served
    <3>2. ~CalmDown
      BY <1>1 DEF CalmDown, Settled
    <3> QED BY <1>1, <3>1, <3>2, OthersStep, MainLeaves DEF FleetNext
  <2>2. ASSUME NEW e \in Daemons, e # d,
               \/ \E c \in Conns : Dial(e, c)
               \/ DialFails(e) \/ Retry(e) \/ Welcome(e)
               \/ HandshakeFails(e) \/ SessionEnds(e) \/ Drop(e)
        PROVE  UNCHANGED at[d]
    BY <1>1, <2>2 DEF Dial, DialFails, Retry, Welcome, HandshakeFails, SessionEnds, Drop,
       HangUp,
       FleetInv, FleetTypes
  <2>3. ~(\/ \E c \in Conns : Dial(d, c)
          \/ DialFails(d) \/ Retry(d) \/ Welcome(d)
          \/ HandshakeFails(d) \/ SessionEnds(d) \/ Drop(d))
    BY <1>1 DEF Settled, Served, Dial, DialFails, Retry, Welcome, HandshakeFails, SessionEnds, Drop,
       Gone
  <2>4. ASSUME NEW c \in Conns,
               \/ ReadHello(c) \/ Replaced(c) \/ MissHello(c) \/ Handle(c) \/ Heartbeat(c)
               \/ Break(c) \/ Noticed(c) \/ Recycle(c)
        PROVE  UNCHANGED at
    BY <2>4 DEF ReadHello, Replaced, Registers, MissHello, Handle, Heartbeat, Break, Noticed, Recycle,
       daemonVars
  <2>5. UNCHANGED at[d]
    BY <1>1, <2>2, <2>3, <2>4 DEF FleetNext, CalmDown, fleetVars, daemonVars
  <2> QED BY <2>1, <2>5
<1>2. TypeOK /\ FleetInv /\ OnlineHasHandler /\ [FleetNext]_fleetVars
        => [Settled(d) => Settled(d)' /\ UNCHANGED at[d]]_fleetVars
  BY <1>1
<1>3. FleetSpec => [](TypeOK /\ OnlineHasHandler)
  BY FleetImplements, TypeCorrect, OnlineSafe, PTL
<1> QED BY <1>2, <1>3, FleetSafe, PTL DEF FleetSpec

----------------------------------------------------------------------------
(* The daemons are those of AgentDaemon, seen from outside.                *)

\* A step of the fleet is a step of a daemon's loop, or shows nothing of it.
LEMMA StepLoops ==
  ASSUME FleetTypes, [FleetNext]_fleetVars, NEW d \in Daemons
  PROVE  [LoopOf(d)!Next]_(LoopOf(d)!lvars)
<1> USE DEF FleetTypes, LoopOf!Goes, LoopOf!lvars
<1>1. ASSUME NEW e \in Daemons, e # d,
             \/ \E c \in Conns : Dial(e, c)
             \/ DialFails(e) \/ Retry(e) \/ Welcome(e)
             \/ HandshakeFails(e) \/ SessionEnds(e) \/ Drop(e)
      PROVE  phase'[d] = phase[d]
  BY <1>1 DEF Dial, DialFails, Retry, Welcome, HandshakeFails, SessionEnds, Drop, HangUp
<1>2. ASSUME NEW c \in Conns,
             \/ ReadHello(c) \/ Replaced(c) \/ MissHello(c) \/ Handle(c) \/ Heartbeat(c)
             \/ Break(c) \/ Noticed(c) \/ Recycle(c)
      PROVE  phase' = phase
  BY <1>2 DEF ReadHello, Replaced, Registers, MissHello, Handle, Heartbeat, Break, Noticed, Recycle,
     daemonVars
<1>3. ASSUME CalmDown \/ UNCHANGED fleetVars PROVE phase' = phase
  BY <1>3 DEF CalmDown, fleetVars, daemonVars
<1>4. ASSUME NEW c \in Conns, Dial(d, c) PROVE LoopOf(d)!Next
  BY <1>4 DEF Dial, LoopOf!Next, LoopOf!Dial
<1>5. CASE DialFails(d)
  BY <1>5 DEF DialFails, LoopOf!Next, LoopOf!DialFails
<1>6. CASE Retry(d)
  BY <1>6 DEF Retry, LoopOf!Next, LoopOf!Retry
<1>7. CASE Welcome(d)
  BY <1>7 DEF Welcome, LoopOf!Next, LoopOf!Accepted
<1>8. CASE HandshakeFails(d)
  BY <1>8 DEF HandshakeFails, HangUp, LoopOf!Next, LoopOf!Rejected
<1>9. CASE SessionEnds(d)
  BY <1>9 DEF SessionEnds, HangUp, LoopOf!Next, LoopOf!Ends, LoopOf!Raises
<1>10. CASE Drop(d)
  BY <1>10 DEF Drop, HangUp, LoopOf!Next, LoopOf!Rejected, LoopOf!Ends, LoopOf!Raises
<1> QED BY <1>1, <1>2, <1>3, <1>4, <1>5, <1>6, <1>7, <1>8, <1>9, <1>10 DEF FleetNext

\* Each daemon of the fleet, whatever main, the network and the other daemons
\* do, implements the loop that AgentDaemon implements: the two modules have the
\* same daemon.
THEOREM LoopsKept == ASSUME NEW d \in Daemons PROVE FleetSpec => LoopOf(d)!Spec
<1>1. FleetInit => LoopOf(d)!Init
  BY DEF FleetInit, LoopOf!Init
<1>2. FleetInv /\ [FleetNext]_fleetVars => [LoopOf(d)!Next]_(LoopOf(d)!lvars)
  BY StepLoops DEF FleetInv
<1> QED BY <1>1, <1>2, FleetSafe, PTL DEF FleetSpec, LoopOf!Spec
=============================================================================
