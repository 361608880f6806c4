------------------------- MODULE MgmtSession_proof -------------------------
(***************************************************************************)
(* The safety of the agent registry, for any set of connections and of     *)
(* agents.  The argument has two layers.                                   *)
(*                                                                         *)
(* Whatever the agents do: the session guard of the finally clause works   *)
(* because the connection on record is always one whose handler registered *)
(* it, holds the agent's session and has not left its loop.  A handler     *)
(* whose session is not the agent's is therefore never the one on record,  *)
(* and the one whose session it is takes its own connection off.  Handlers *)
(* that replace connections never wait for one another (ClosesEnd).        *)
(*                                                                         *)
(* If no hello of an agent arrives while an earlier one is being replaced: *)
(* the only open serving connection of an agent is the one on record, and  *)
(* none is open while a handler waits for a close.                         *)
(***************************************************************************)
EXTENDS MgmtSession, TLAPS

\* The inductive invariant of the first layer.
RegistryInv == TypeOK /\ OnlineHasHandler /\ AuditTellsPresence

\* Initially nothing is connected, so the record of no agent has to be explained.
LEMMA InitRegistry == ASSUME Init PROVE RegistryInv
  BY SessionAssumption
     DEF Init, RegistryInv, TypeOK, OnlineHasHandler, AuditTellsPresence, Attached, PcStates

\* A registration keeps the types, whichever way hello_ok goes.
LEMMA RegisterType ==
  ASSUME TypeOK, NEW c \in Conns, NEW a \in Agents, Register(c, a)
  PROVE  /\ pc' \in [Conns -> PcStates]
         /\ ws' \in [Agents -> Conns \cup {NoConn}]
         /\ online' \in [Agents -> BOOLEAN]
         /\ session' \in [Agents -> Conns \cup {NoConn}]
         /\ lastAudit' \in [Agents -> {"none", "agent_online", "agent_offline"}]
         /\ \A d \in Conns \ {c} : pc'[d] = pc[d]
         /\ pc'[c] \in {"announce", "crashed"}
  BY DEF TypeOK, Register, PcStates

\* Every step of a handler or of the environment keeps the types: in
\* particular a handler that registers or replaces knows its agent.
LEMMA NextType == ASSUME TypeOK, Next PROVE TypeOK'
<1> SUFFICES ASSUME NEW c \in Conns,
                    \/ Connect(c) \/ RejectHello(c) \/ \E a \in Agents : Accept(c, a)
                    \/ Install(c) \/ BroadcastDone(c) \/ Telemetry(c) \/ Leave(c)
                    \/ LeaveDone(c) \/ PeerGone(c) \/ HeartbeatExpire(c) \/ Reuse(c)
             PROVE  TypeOK'
  BY DEF Next
<1>1. CASE Connect(c)
  BY <1>1 DEF Connect, TypeOK, PcStates, Attached, regVars
<1>2. CASE RejectHello(c)
  BY <1>2 DEF RejectHello, TypeOK, PcStates, Attached, regVars
<1>3. ASSUME NEW a \in Agents, AcceptFresh(c, a) PROVE TypeOK'
  <2>1. Register(c, a)
    BY <1>3 DEF AcceptFresh
  <2> QED
    BY <1>3, <2>1, RegisterType DEF AcceptFresh, TypeOK, Attached
<1>4. ASSUME NEW a \in Agents, AcceptReplacing(c, a) PROVE TypeOK'
  BY <1>4 DEF AcceptReplacing, NothingToAwait, HasOpenConn, TypeOK, PcStates, Attached, regVars
<1>5. CASE Install(c)
  <2>1. Register(c, who[c]) /\ who[c] \in Agents
    BY <1>5 DEF Install, TypeOK
  <2> QED
    BY <1>5, <2>1, RegisterType DEF Install, TypeOK, Attached
<1>6. CASE BroadcastDone(c)
  BY <1>6 DEF BroadcastDone, TypeOK, PcStates, Attached, regVars
<1>7. CASE Telemetry(c)
  BY <1>7 DEF Telemetry, TypeOK, PcStates, Attached
<1>8. CASE Leave(c)
  <2>1. CASE LeaveRegistered(c)
    BY <1>8, <2>1 DEF Leave, LeaveRegistered, TypeOK, PcStates, Attached
  <2>2. CASE LeaveReplaced(c)
    BY <1>8, <2>2 DEF Leave, LeaveReplaced, TypeOK, PcStates, Attached, regVars
  <2> QED
    BY <1>8, <2>1, <2>2 DEF Leave
<1>9. CASE LeaveDone(c)
  BY <1>9 DEF LeaveDone, TypeOK, PcStates, Attached, regVars
<1>10. CASE PeerGone(c)
  BY <1>10 DEF PeerGone, TypeOK, Attached, regVars
<1>11. CASE HeartbeatExpire(c)
  BY <1>11 DEF HeartbeatExpire, TypeOK, Attached, regVars
<1>12. CASE Reuse(c)
  BY <1>12 DEF Reuse, TypeOK, PcStates, Attached, regVars
<1> QED
  BY <1>1, <1>2, <1>3, <1>4, <1>5, <1>6, <1>7, <1>8, <1>9, <1>10, <1>11, <1>12 DEF Accept

\* A step that leaves the registry and the audit log alone, moves no
\* connection on record out of its state and forgets nobody's agent keeps
\* both registry invariants.
LEMMA QuietStep ==
  ASSUME RegistryInv, TypeOK', UNCHANGED regVars,
         \A c \in Conns : \A a \in Agents : ws[a] = c =>
             /\ who'[c] = who[c]
             /\ pc'[c] = "crashed" <=> pc[c] = "crashed"
             /\ Attached(c) => Attached(c)'
  PROVE  RegistryInv'
<1>1. OnlineHasHandler'
  BY DEF RegistryInv, TypeOK, OnlineHasHandler, regVars
<1>2. AuditTellsPresence'
  BY DEF RegistryInv, TypeOK, OnlineHasHandler, AuditTellsPresence, regVars
<1> QED
  BY <1>1, <1>2 DEF RegistryInv

\* A registration puts a connection on record that has its handler, and
\* disturbs no other agent's record.
LEMMA RegisterStep ==
  ASSUME RegistryInv, TypeOK', NEW c \in Conns, NEW a \in Agents,
         Register(c, a), who'[c] = a,
         \A d \in Conns \ {c} : who'[d] = who[d],
         \A b \in Agents : ws[b] # c
  PROVE  RegistryInv'
<1>1. ASSUME NEW b \in Agents, b # a
      PROVE  /\ ws'[b] = ws[b] /\ online'[b] = online[b] /\ session'[b] = session[b]
             /\ lastAudit'[b] = lastAudit[b]
             /\ ws[b] # NoConn => pc'[ws[b]] = pc[ws[b]] /\ who'[ws[b]] = who[ws[b]]
  BY <1>1, RegisterType DEF RegistryInv, TypeOK, Register
<1>2. /\ ws'[a] = c /\ online'[a] /\ session'[a] = c
      /\ \/ Attached(c)' /\ lastAudit'[a] = "agent_online"
         \/ pc'[c] = "crashed"
  BY DEF RegistryInv, TypeOK, Register, Attached
<1>3. OnlineHasHandler'
  BY <1>1, <1>2, SessionAssumption DEF RegistryInv, TypeOK, OnlineHasHandler, Attached
<1>4. AuditTellsPresence'
  BY <1>1, <1>2, SessionAssumption DEF RegistryInv, TypeOK, OnlineHasHandler, AuditTellsPresence, Attached
<1> QED
  BY <1>3, <1>4 DEF RegistryInv

\* The finally clause of a handler: with the session it takes its own
\* connection off the record, without it nothing on record is its own.
LEMMA LeaveStep ==
  ASSUME RegistryInv, TypeOK', NEW c \in Conns, Leave(c)
  PROVE  RegistryInv'
<1> DEFINE a == who[c]
<1>1. a \in Agents /\ Attached(c)
  BY DEF RegistryInv, TypeOK, Leave, Attached
<1>2. \A b \in Agents : ws[b] = c => b = a /\ session[a] = c
  BY SessionAssumption DEF RegistryInv, TypeOK, OnlineHasHandler
<1>3. \A d \in Conns \ {c} : pc'[d] = pc[d] /\ who'[d] = who[d]
  BY DEF RegistryInv, TypeOK, Leave, LeaveRegistered, LeaveReplaced
<1>4. CASE LeaveReplaced(c)
  <2>1. UNCHANGED regVars /\ \A b \in Agents : ws[b] # c
    BY <1>2, <1>4 DEF LeaveReplaced, OwnsSession
  <2>2. \A d \in Conns : \A b \in Agents : ws[b] = d =>
            /\ who'[d] = who[d]
            /\ pc'[d] = "crashed" <=> pc[d] = "crashed"
            /\ Attached(d) => Attached(d)'
    BY <1>3, <2>1 DEF Attached
  <2> QED
    BY <2>1, <2>2, QuietStep
<1>5. CASE LeaveRegistered(c)
  <2>1. /\ ~online'[a] /\ ws'[a] = NoConn /\ lastAudit'[a] = "agent_offline"
    BY <1>1, <1>5 DEF RegistryInv, TypeOK, LeaveRegistered
  <2>2. ASSUME NEW b \in Agents, b # a
        PROVE  /\ ws'[b] = ws[b] /\ online'[b] = online[b] /\ session'[b] = session[b]
               /\ lastAudit'[b] = lastAudit[b] /\ ws[b] # c
    BY <1>2, <1>5, <2>2 DEF RegistryInv, TypeOK, LeaveRegistered
  <2>3. OnlineHasHandler'
    BY <1>3, <2>1, <2>2 DEF RegistryInv, TypeOK, OnlineHasHandler, Attached
  <2>4. AuditTellsPresence'
    BY <1>3, <2>1, <2>2 DEF RegistryInv, TypeOK, OnlineHasHandler, AuditTellsPresence
  <2> QED
    BY <2>3, <2>4 DEF RegistryInv
<1> QED
  BY <1>4, <1>5 DEF Leave

\* The first layer is inductive.
LEMMA NextRegistry == ASSUME RegistryInv, Next PROVE RegistryInv'
<1>t. TypeOK'
  BY NextType DEF RegistryInv
<1> SUFFICES ASSUME NEW c \in Conns,
                    \/ Connect(c) \/ RejectHello(c) \/ \E a \in Agents : Accept(c, a)
                    \/ Install(c) \/ BroadcastDone(c) \/ Telemetry(c) \/ Leave(c)
                    \/ LeaveDone(c) \/ PeerGone(c) \/ HeartbeatExpire(c) \/ Reuse(c)
             PROVE  RegistryInv'
  BY DEF Next
<1>0. pc[c] \notin {"announce", "serve", "relay", "crashed"} =>
          \A a \in Agents : ws[a] # c
  BY SessionAssumption DEF RegistryInv, TypeOK, OnlineHasHandler, Attached
<1>1. CASE Connect(c) \/ RejectHello(c) \/ BroadcastDone(c) \/ LeaveDone(c)
           \/ PeerGone(c) \/ HeartbeatExpire(c) \/ Reuse(c)
  <2>1. UNCHANGED regVars
    BY <1>1 DEF Connect, RejectHello, BroadcastDone, LeaveDone, PeerGone, HeartbeatExpire, Reuse
  <2>2. ASSUME NEW d \in Conns, NEW a \in Agents, ws[a] = d
        PROVE  /\ who'[d] = who[d]
               /\ pc'[d] = "crashed" <=> pc[d] = "crashed"
               /\ Attached(d) => Attached(d)'
    BY <1>0, <1>1, <2>2 DEF RegistryInv, TypeOK, Attached, Connect, RejectHello,
         BroadcastDone, LeaveDone, PeerGone, HeartbeatExpire, Reuse
  <2> QED
    BY <1>t, <2>1, <2>2, QuietStep
<1>2. ASSUME NEW a \in Agents, AcceptFresh(c, a) PROVE RegistryInv'
  <2>1. /\ Register(c, a) /\ who'[c] = a
        /\ \A d \in Conns \ {c} : who'[d] = who[d]
        /\ \A b \in Agents : ws[b] # c
    BY <1>0, <1>2 DEF AcceptFresh, RegistryInv, TypeOK
  <2> QED
    BY <1>t, <2>1, RegisterStep
<1>3. ASSUME NEW a \in Agents, AcceptReplacing(c, a) PROVE RegistryInv'
  <2>1. UNCHANGED regVars /\ \A b \in Agents : ws[b] # c
    BY <1>0, <1>3 DEF AcceptReplacing
  <2>2. \A d \in Conns : \A b \in Agents : ws[b] = d =>
            /\ who'[d] = who[d]
            /\ pc'[d] = "crashed" <=> pc[d] = "crashed"
            /\ Attached(d) => Attached(d)'
    BY <1>3, <2>1 DEF AcceptReplacing, RegistryInv, TypeOK, Attached
  <2> QED
    BY <1>t, <2>1, <2>2, QuietStep
<1>4. CASE Install(c)
  <2>1. /\ Register(c, who[c]) /\ who[c] \in Agents /\ UNCHANGED who
        /\ \A b \in Agents : ws[b] # c
    BY <1>0, <1>4 DEF Install, RegistryInv, TypeOK
  <2> QED
    BY <1>t, <2>1, RegisterStep
<1>5. CASE Telemetry(c)
  <2>1. UNCHANGED <<ws, online, session, lastAudit, who>>
    BY <1>5 DEF Telemetry
  <2>2. pc[c] = "serve" /\ pc' = [pc EXCEPT ![c] = "relay"]
    BY <1>5 DEF Telemetry
  <2>3. \A d \in Conns : /\ pc'[d] = "crashed" <=> pc[d] = "crashed"
                         /\ Attached(d) => Attached(d)'
    BY <2>2 DEF RegistryInv, TypeOK, Attached
  <2>4. OnlineHasHandler'
    BY <2>1, <2>3 DEF RegistryInv, TypeOK, OnlineHasHandler, Attached
  <2>5. AuditTellsPresence'
    BY <2>1, <2>3 DEF RegistryInv, TypeOK, OnlineHasHandler, AuditTellsPresence
  <2> QED
    BY <1>t, <2>4, <2>5 DEF RegistryInv
<1>6. CASE Leave(c)
  BY <1>t, <1>6, LeaveStep
<1> QED
  BY <1>1, <1>2, <1>3, <1>4, <1>5, <1>6 DEF Accept

\* Stuttering keeps any state predicate; spelled out for the temporal steps.
LEMMA StutterRegistry == ASSUME RegistryInv, UNCHANGED vars PROVE RegistryInv'
  BY DEF RegistryInv, TypeOK, OnlineHasHandler, AuditTellsPresence, Attached, vars

\* The first layer holds in every reachable state, with any overlap of hellos.
THEOREM RegistrySafe == Spec => []RegistryInv
<1>1. Init => RegistryInv
  BY InitRegistry
<1>2. RegistryInv /\ [Next]_vars => RegistryInv'
  BY NextRegistry, StutterRegistry
<1> QED
  BY <1>1, <1>2, PTL DEF Spec

\* Type correctness of the registry and of the handlers' states.
THEOREM TypeCorrect == Spec => []TypeOK
  BY RegistrySafe, PTL DEF RegistryInv

\* The connection on record is always one whose handler will take it off.
THEOREM OnlineSafe == Spec => []OnlineHasHandler
  BY RegistrySafe, PTL DEF RegistryInv

\* The audit log never contradicts what the API shows of an agent.
THEOREM AuditSafe == Spec => []AuditTellsPresence
  BY RegistrySafe, PTL DEF RegistryInv

\* Only the owner of the session takes an agent offline, and only once its
\* connection, the one on record, is closed or lost.
THEOREM OfflineOnlyWhenLost == Spec => NoFalseOffline
<1> DEFINE Lost(a) == ws[a] \in Conns /\ (closed[ws[a]] \/ lost[ws[a]])
<1>1. ASSUME RegistryInv, [Next]_vars, NEW a \in Agents, online[a], ~online'[a]
      PROVE  Lost(a)
  <2>1. PICK c \in Conns : Leave(c)
    BY <1>1 DEF Next, vars, regVars, RegistryInv, TypeOK, Connect, RejectHello, Accept,
         AcceptFresh, AcceptReplacing, Register, Install, BroadcastDone, Telemetry,
         LeaveDone, PeerGone, HeartbeatExpire, Reuse
  <2>2. OwnsSession(c) /\ a = who[c]
    BY <1>1, <2>1 DEF Leave, LeaveRegistered, LeaveReplaced, regVars, RegistryInv, TypeOK
  <2>3. ws[a] = c
    BY <1>1, <2>2 DEF OwnsSession, RegistryInv, OnlineHasHandler
  <2> QED
    BY <2>1, <2>3 DEF Leave
<1>2. RegistryInv /\ [Next]_vars =>
        [\A a \in Agents : online[a] /\ ~online'[a] => Lost(a)]_vars
  BY <1>1
<1> QED
  BY <1>2, RegistrySafe, PTL DEF Spec, NoFalseOffline

----------------------------------------------------------------------------
(* Nobody waits for somebody who waits.                                    *)

\* A handler that awaits the close of the connection it replaces awaits one that
\* was told to close, and whose own handler awaits neither a hello nor a close.
ClosesEnd ==
    \A c \in Conns : pc[c] = "replace" =>
        closed[victim[c]] /\ pc[victim[c]] \notin {"free", "hello", "replace"}

\* A hello replaces a connection on record: its handler has registered.
LEMMA ReplacingWaits ==
  ASSUME RegistryInv, ClosesEnd, NEW c \in Conns, NEW a \in Agents, AcceptReplacing(c, a)
  PROVE  ClosesEnd'
<1>1. ws[a] \in Conns /\ pc[ws[a]] \in {"announce", "serve", "relay", "crashed"}
  BY DEF AcceptReplacing, NothingToAwait, HasOpenConn, RegistryInv, OnlineHasHandler, TypeOK, Attached
<1>2. /\ pc' = [pc EXCEPT ![c] = "replace"] /\ pc[c] = "hello"
      /\ victim' = [victim EXCEPT ![c] = ws[a]]
      /\ closed' = [closed EXCEPT ![ws[a]] = TRUE]
  BY DEF AcceptReplacing
<1>3. ASSUME NEW d \in Conns, pc'[d] = "replace"
      PROVE  closed'[victim'[d]] /\ pc'[victim'[d]] \notin {"free", "hello", "replace"}
  <2>1. CASE d = c
    BY <1>1, <1>2, <2>1 DEF RegistryInv, TypeOK
  <2>2. CASE d # c
    <3>1. pc[d] = "replace" /\ victim'[d] = victim[d] /\ victim[d] \in Conns
      BY <1>2, <1>3, <2>2 DEF RegistryInv, TypeOK
    <3>2. closed[victim[d]] /\ pc[victim[d]] \notin {"free", "hello", "replace"}
      BY <3>1 DEF ClosesEnd
    <3> QED BY <1>1, <1>2, <3>1, <3>2 DEF RegistryInv, TypeOK
  <2> QED BY <2>1, <2>2
<1> QED BY <1>3 DEF ClosesEnd

\* Any other step starts no wait, opens nothing that was told to close, and
\* brings no handler back to its hello that somebody waits for.
LEMMA OthersWait ==
  ASSUME RegistryInv, ClosesEnd, Next, \A c \in Conns, a \in Agents : ~AcceptReplacing(c, a)
  PROVE  ClosesEnd'
<1> SUFFICES ASSUME NEW d \in Conns, pc'[d] = "replace"
             PROVE  closed'[victim'[d]] /\ pc'[victim'[d]] \notin {"free", "hello", "replace"}
  BY DEF ClosesEnd
<1>1. PICK c \in Conns :
         \/ Connect(c) \/ RejectHello(c) \/ \E a \in Agents : AcceptFresh(c, a)
         \/ Install(c) \/ BroadcastDone(c) \/ Telemetry(c) \/ Leave(c)
         \/ LeaveDone(c) \/ PeerGone(c) \/ HeartbeatExpire(c) \/ Reuse(c)
  BY DEF Next, Accept
<1>2. /\ \A e \in Conns \ {c} : pc'[e] = pc[e] /\ (closed[e] => closed'[e])
      /\ pc'[c] # "replace" \/ pc'[c] = pc[c]
      /\ \A e \in Conns \ {c} : victim'[e] = victim[e]
      /\ pc'[c] = "replace" => victim'[c] = victim[c]
  BY <1>1 DEF RegistryInv, TypeOK, Connect, RejectHello, AcceptFresh, Install, Register,
     BroadcastDone, Telemetry, Leave, LeaveRegistered, LeaveReplaced, regVars, LeaveDone, PeerGone,
     HeartbeatExpire, Reuse
<1>3. pc[d] = "replace" /\ victim'[d] = victim[d] /\ victim[d] \in Conns
  BY <1>2 DEF RegistryInv, TypeOK
<1>4. closed[victim[d]] /\ pc[victim[d]] \notin {"free", "hello", "replace"}
  BY <1>3 DEF ClosesEnd
<1>5. ASSUME c = victim[d] PROVE closed'[c] /\ pc'[c] \notin {"free", "hello", "replace"}
  BY <1>1, <1>3, <1>4, <1>5 DEF RegistryInv, TypeOK, Connect, RejectHello, AcceptFresh, Install,
     Register, BroadcastDone, Telemetry, Leave, LeaveRegistered, LeaveReplaced, regVars, LeaveDone,
     PeerGone, HeartbeatExpire, Reuse
<1> QED BY <1>2, <1>3, <1>4, <1>5

\* However the hellos of however many connections overlap, the handlers that
\* replace one another's connections form no chain and no cycle: each awaits one
\* that can end by itself, so close() delays a hello by one close at most.
THEOREM NoWaitingChain == Spec => []ClosesEnd
<1>1. Init => ClosesEnd
  BY DEF Init, ClosesEnd
<1>2. RegistryInv /\ ClosesEnd /\ [Next]_vars => ClosesEnd'
  <2>1. ASSUME ClosesEnd, UNCHANGED vars PROVE ClosesEnd'
    BY <2>1 DEF ClosesEnd, vars
  <2> QED BY <2>1, ReplacingWaits, OthersWait
<1> QED BY <1>1, <1>2, RegistrySafe, PTL DEF Spec

----------------------------------------------------------------------------
(* The second layer: the agents whose hellos do not overlap.               *)

\* While a handler waits for a close, its agent has no open serving
\* connection, and no second handler waits for the same agent.
ReplacingAlone ==
    \A c, d \in Conns :
        pc[c] = "replace" /\ who[c] \notin Overlap /\ who[d] = who[c] =>
            /\ ~(Attached(d) /\ ~closed[d])
            /\ pc[d] = "replace" => d = c

\* The inductive invariant of the second layer, over that of the first.
OrderlyInv == OneLiveSession /\ ReplacingAlone /\ OfflineHasNoTelemetry

\* Initially nothing is connected and there are no readings.
LEMMA InitOrderly == ASSUME Init PROVE OrderlyInv
  BY DEF Init, OrderlyInv, OneLiveSession, ReplacingAlone, OfflineHasNoTelemetry, Attached

\* A registration that finds no other open serving connection and no other
\* waiting handler of its agent leaves its own connection as the only one.
LEMMA RegisterOrderly ==
  ASSUME RegistryInv, OrderlyInv, NEW c \in Conns, NEW a \in Agents,
         Register(c, a), who'[c] = a, ~Attached(c),
         \A d \in Conns \ {c} : who'[d] = who[d],
         UNCHANGED telemetry, \A d \in Conns : closed[d] => closed'[d],
         a \notin Overlap => \A d \in Conns \ {c} : who[d] = a =>
             ~(Attached(d) /\ ~closed'[d]) /\ pc[d] # "replace"
  PROVE  OrderlyInv'
<1>1. /\ \A d \in Conns \ {c} : pc'[d] = pc[d] /\ who'[d] = who[d]
      /\ pc'[c] \in {"announce", "crashed"} /\ who'[c] = a
      /\ \A d \in Conns : closed[d] => closed'[d]
      /\ UNCHANGED telemetry
  BY RegisterType DEF RegistryInv
<1>2. /\ ws'[a] = c /\ online'[a]
      /\ \A b \in Agents \ {a} : ws'[b] = ws[b] /\ online'[b] = online[b]
  BY DEF Register, RegistryInv, TypeOK
<1>3. OneLiveSession'
  BY <1>1, <1>2 DEF OrderlyInv, OneLiveSession, RegistryInv, TypeOK, Attached
<1>4. ReplacingAlone'
  BY <1>1 DEF OrderlyInv, ReplacingAlone, Attached
<1>5. OfflineHasNoTelemetry'
  BY <1>1, <1>2 DEF OrderlyInv, OfflineHasNoTelemetry
<1> QED
  BY <1>3, <1>4, <1>5 DEF OrderlyInv

\* The second layer is inductive relative to the first one.
LEMMA NextOrderly ==
  ASSUME RegistryInv, OrderlyInv, Next PROVE OrderlyInv'
<1> SUFFICES ASSUME NEW c \in Conns,
                    \/ Connect(c) \/ RejectHello(c) \/ \E a \in Agents : Accept(c, a)
                    \/ Install(c) \/ BroadcastDone(c) \/ Telemetry(c) \/ Leave(c)
                    \/ LeaveDone(c) \/ PeerGone(c) \/ HeartbeatExpire(c) \/ Reuse(c)
             PROVE  OrderlyInv'
  BY DEF Next
<1> USE DEF RegistryInv, TypeOK, Attached
<1>1. CASE Connect(c) \/ RejectHello(c) \/ BroadcastDone(c) \/ LeaveDone(c)
           \/ PeerGone(c) \/ HeartbeatExpire(c) \/ Reuse(c)
  <2>1. UNCHANGED regVars
    BY <1>1 DEF Connect, RejectHello, BroadcastDone, LeaveDone, PeerGone, HeartbeatExpire, Reuse
  <2>2. \A d \in Conns :
            /\ Attached(d)' => Attached(d) /\ who'[d] = who[d]
            /\ Attached(d)' /\ ~closed'[d] => ~closed[d]
            /\ pc'[d] = "replace" => pc[d] = "replace" /\ who'[d] = who[d]
    BY <1>1 DEF Connect, RejectHello, BroadcastDone, LeaveDone, PeerGone, HeartbeatExpire, Reuse
  <2>3. OneLiveSession'
    BY <2>1, <2>2 DEF OrderlyInv, OneLiveSession, regVars
  <2>4. ReplacingAlone'
    BY <2>2 DEF OrderlyInv, ReplacingAlone
  <2>5. OfflineHasNoTelemetry'
    BY <2>1 DEF OrderlyInv, OfflineHasNoTelemetry, regVars
  <2> QED
    BY <2>3, <2>4, <2>5 DEF OrderlyInv
<1>2. ASSUME NEW a \in Agents, AcceptFresh(c, a),
             a \notin Overlap => \A d \in Conns : ~(pc[d] = "replace" /\ who[d] = a)
      PROVE  OrderlyInv'
  <2>1. a \notin Overlap =>
            \A d \in Conns \ {c} : who[d] = a => ~(Attached(d) /\ ~closed'[d])
    BY <1>2, SessionAssumption DEF AcceptFresh, OrderlyInv, OneLiveSession
  <2>2. /\ Register(c, a) /\ who'[c] = a /\ ~Attached(c)
        /\ \A d \in Conns \ {c} : who'[d] = who[d]
        /\ UNCHANGED telemetry /\ \A d \in Conns : closed[d] => closed'[d]
    BY <1>2 DEF AcceptFresh
  <2>3. a \notin Overlap => \A d \in Conns \ {c} : who[d] = a =>
            ~(Attached(d) /\ ~closed'[d]) /\ pc[d] # "replace"
    BY <1>2, <2>1
  <2> HIDE DEF RegistryInv, TypeOK, Attached
  <2> QED
    BY <2>2, <2>3, RegisterOrderly
<1>3. ASSUME NEW a \in Agents, AcceptReplacing(c, a),
             a \notin Overlap => \A d \in Conns : ~(pc[d] = "replace" /\ who[d] = a)
      PROVE  OrderlyInv'
  <2>1. OneLiveSession'
    BY <1>3 DEF AcceptReplacing, OrderlyInv, OneLiveSession, regVars
  <2>2. ReplacingAlone'
    BY <1>3 DEF AcceptReplacing, NothingToAwait, HasOpenConn, OrderlyInv, OneLiveSession,
       ReplacingAlone
  <2>3. OfflineHasNoTelemetry'
    BY <1>3 DEF AcceptReplacing, OrderlyInv, OfflineHasNoTelemetry, regVars
  <2> QED
    BY <2>1, <2>2, <2>3 DEF OrderlyInv
<1>4. CASE Install(c)
  <2>1. who[c] \notin Overlap => \A d \in Conns \ {c} : who[d] = who[c] =>
            ~(Attached(d) /\ ~closed[d]) /\ pc[d] # "replace"
    BY <1>4 DEF Install, OrderlyInv, ReplacingAlone
  <2>2. /\ Register(c, who[c]) /\ who[c] \in Agents /\ ~Attached(c)
        /\ UNCHANGED <<closed, telemetry, who>>
    BY <1>4 DEF Install
  <2> HIDE DEF RegistryInv, TypeOK, Attached
  <2> QED
    BY <2>1, <2>2, RegisterOrderly
<1>5. CASE Telemetry(c)
  <2>1. who[c] \notin Overlap => ws[who[c]] = c /\ online[who[c]]
    BY <1>5, SessionAssumption DEF Telemetry, OrderlyInv, OneLiveSession, OnlineHasHandler
  <2>2. OneLiveSession'
    BY <1>5 DEF Telemetry, OrderlyInv, OneLiveSession
  <2>3. ReplacingAlone'
    BY <1>5 DEF Telemetry, OrderlyInv, ReplacingAlone
  <2>4. OfflineHasNoTelemetry'
    BY <1>5, <2>1 DEF Telemetry, OrderlyInv, OfflineHasNoTelemetry
  <2> QED
    BY <2>2, <2>3, <2>4 DEF OrderlyInv
<1>6. CASE Leave(c)
  <2>1. OneLiveSession'
    BY <1>6 DEF Leave, LeaveRegistered, LeaveReplaced, OwnsSession, OrderlyInv,
                OneLiveSession, OnlineHasHandler, regVars
  <2>2. ReplacingAlone'
    BY <1>6 DEF Leave, LeaveRegistered, LeaveReplaced, OrderlyInv, ReplacingAlone
  <2>3. OfflineHasNoTelemetry'
    BY <1>6 DEF Leave, LeaveRegistered, LeaveReplaced, OrderlyInv, OfflineHasNoTelemetry, regVars
  <2> QED
    BY <2>1, <2>2, <2>3 DEF OrderlyInv
<1> QED
  BY <1>1, <1>2, <1>3, <1>4, <1>5, <1>6 DEF Accept

\* Stuttering keeps the second layer too.
LEMMA StutterOrderly == ASSUME OrderlyInv, UNCHANGED vars PROVE OrderlyInv'
  BY DEF OrderlyInv, OneLiveSession, ReplacingAlone, OfflineHasNoTelemetry, Attached, vars

\* The second layer holds in every reachable state.
THEOREM OrderlySafe == Spec => []OrderlyInv
<1>1. Init => OrderlyInv
  BY InitOrderly
<1>2. RegistryInv /\ OrderlyInv /\ [Next]_vars => OrderlyInv'
  BY NextOrderly, StutterOrderly
<1> QED
  BY <1>1, <1>2, RegistrySafe, PTL DEF Spec

\* Replacing leaves no second live session of an agent whose hellos do not
\* overlap, whatever the hellos of the others do.
THEOREM OneLiveSessionSafe == Spec => []OneLiveSession
  BY OrderlySafe, PTL DEF OrderlyInv

\* An agent whose hellos do not overlap shows no readings while it is offline.
THEOREM OfflineReadingsSafe == Spec => []OfflineHasNoTelemetry
  BY OrderlySafe, PTL DEF OrderlyInv
=============================================================================
