-------------------------- MODULE RemoteCall_proof --------------------------
(***************************************************************************)
(* The safety of a remote action, for any set of calls, agents and         *)
(* connections, and that it keeps the promise of OperatorAction.           *)
(*                                                                         *)
(* The argument follows a request around.  A call writes at most one       *)
(* frame, to the connection `via` of the agent it is for; the frame turns  *)
(* into one task, the task into one result, and until the task has run     *)
(* nothing has been done for the call.  A result "ok" exists, as a task,   *)
(* a frame, a future or an answer, only after the host succeeded.          *)
(***************************************************************************)
EXTENDS RemoteCall, TLAPS

\* A connection on record belongs to the agent it is on record for.
RecordOwned == \A a \in Agents : ws[a] # None => Owner[ws[a]] = a

\* Whatever travels for a call travels on the connection it was written to,
\* which is one of its agent; a call that has written nothing has none, and
\* one refused as offline never gets one.
FramesTraced ==
    /\ \A c \in Conns, r \in Calls :
          /\ <<c, r>> \in reqs => c = via[r]
          /\ \A x \in Results \cup {"running"} : <<c, r, x>> \in tasks => c = via[r]
          /\ \A x \in Results : <<c, r, x>> \in resps => c = via[r]
    /\ \A r \in Calls :
          via[r] # None => /\ Owner[via[r]] = target[r]
                           /\ call[r] \notin {"idle", "lock"}
                           /\ outcome[r] # "offline"

\* A request is a frame, then a running task, then perhaps carried out: never
\* two of these at once, carried out once at most, and without effect before.
RunsOnce ==
    \A r \in Calls :
        /\ runs[r] <= 1
        /\ runs[r] # 0 => via[r] # None
        /\ runs[r] = 0 => achieved[r] = {}
        /\ \A c \in Conns :
              /\ <<c, r>> \in reqs => runs[r] = 0 /\ <<c, r, "running">> \notin tasks
              /\ <<c, r, "running">> \in tasks => runs[r] = 0

\* A result "ok", wherever it is, is backed by the host's success.
ResultsTrue ==
    \A r \in Calls :
        /\ achieved[r] \subseteq {target[r]}
        /\ \A c \in Conns :
              <<c, r, "ok">> \in tasks \/ <<c, r, "ok">> \in resps => target[r] \in achieved[r]
        /\ fut[r] = "ok" \/ outcome[r] = "ok" => target[r] \in achieved[r]

\* The inductive invariants: of main's bookkeeping, and of the requests.
CallInv == TypeOK /\ PendingIsInFlight /\ OneWriter
FlowInv == RecordOwned /\ FramesTraced /\ RunsOnce /\ ResultsTrue

\* Main starts with no call, no connection and nothing under way.
LEMMA InitInv == ASSUME Init PROVE CallInv /\ FlowInv
<1>1. TypeOK
  BY DEF Init, TypeOK
<1>2. PendingIsInFlight /\ OneWriter
  BY CallAssumption DEF Init, PendingIsInFlight, OneWriter
<1>3. FlowInv
  BY CallAssumption DEF Init, FlowInv, RecordOwned, FramesTraced, RunsOnce, ResultsTrue
<1> QED
  BY <1>1, <1>2, <1>3 DEF CallInv

\* An answer takes a call that is under way out of forward, and out of pending.
LEMMA AnswerInv ==
  ASSUME CallInv, NEW r \in Calls, NEW answer \in Results,
         call[r] \in {"lock", "flush", "wait"}, Answer(r, answer)
  PROVE  /\ call' \in [Calls -> {"idle", "lock", "flush", "wait", "tell", "done"}]
         /\ outcome' \in [Calls -> Results \cup {"offline", None}]
         /\ pending' \in SUBSET Calls
         /\ \A s \in Calls : call'[s] \in {"tell", "done"} <=> outcome'[s] # None
         /\ \A s \in Calls : call'[s] = "tell" => outcome'[s] \in Results
         /\ \A s \in Calls \ {r} : call'[s] = call[s] /\ outcome'[s] = outcome[s]
         /\ call'[r] = "tell" /\ outcome'[r] = answer
         /\ PendingIsInFlight'
  BY CallAssumption DEF CallInv, TypeOK, PendingIsInFlight, Answer, Results

\* A step of one call keeps main's bookkeeping.
LEMMA CallStepInv == ASSUME CallInv, NEW r \in Calls, CallStep(r) PROVE CallInv'
<1> USE CallAssumption DEF regVars, agentVars
<1>1. CASE CallOffline(r)
  BY <1>1 DEF CallOffline, CallInv, TypeOK, PendingIsInFlight, OneWriter, Results
<1>2. CASE CallStart(r)
  BY <1>2 DEF CallStart, CallInv, TypeOK, PendingIsInFlight, OneWriter
<1>3. CASE SendNothing(r)
  BY <1>3 DEF SendNothing, HasLock, CallInv, TypeOK, PendingIsInFlight, OneWriter
<1>4. CASE SendFrame(r)
  <2>1. ws[target[r]] \in Conns /\ call[r] = "lock" /\ lock[target[r]] = None
    BY <1>4 DEF SendFrame, HasLock, Reachable, CallInv, TypeOK
  <2>2. TypeOK'
    BY <1>4, <2>1 DEF SendFrame, CallInv, TypeOK
  <2>3. PendingIsInFlight'
    BY <1>4, <2>1 DEF SendFrame, CallInv, TypeOK, PendingIsInFlight
  <2>4. OneWriter'
    BY <1>4, <2>1 DEF SendFrame, CallInv, TypeOK, OneWriter
  <2> QED
    BY <2>2, <2>3, <2>4 DEF CallInv
<1>5. CASE FlushDone(r)
  BY <1>5 DEF FlushDone, CallInv, TypeOK, PendingIsInFlight, OneWriter
<1>6. CASE SendRaises(r)
  <2>1. call[r] = "lock" /\ Answer(r, "failed") /\ "failed" \in Results
    BY <1>6 DEF SendRaises, HasLock, Results
  <2> QED
    BY <1>6, <2>1, AnswerInv DEF SendRaises, CallInv, TypeOK, OneWriter
<1>7. CASE FlushRaises(r)
  <2>1. call[r] = "flush" /\ Answer(r, "failed") /\ "failed" \in Results
    BY <1>7 DEF FlushRaises, Results
  <2> QED
    BY <1>7, <2>1, AnswerInv DEF FlushRaises, CallInv, TypeOK, OneWriter
<1>8. CASE CallAnswered(r)
  <2>1. call[r] = "wait" /\ Answer(r, fut[r]) /\ fut[r] \in Results
    BY <1>8 DEF CallAnswered, CallInv, TypeOK
  <2> QED
    BY <1>8, <2>1, AnswerInv DEF CallAnswered, CallInv, TypeOK, OneWriter
<1>9. CASE CallTimeout(r)
  <2>1. call[r] = "wait" /\ Answer(r, "failed") /\ "failed" \in Results
    BY <1>9 DEF CallTimeout, Results
  <2> QED
    BY <1>9, <2>1, AnswerInv DEF CallTimeout, CallInv, TypeOK, OneWriter
<1>10. CASE Told(r)
  BY <1>10 DEF Told, CallInv, TypeOK, PendingIsInFlight, OneWriter
<1> QED
  BY <1>1, <1>2, <1>3, <1>4, <1>5, <1>6, <1>7, <1>8, <1>9, <1>10 DEF CallStep

\* Frames, tasks and sessions do not touch main's bookkeeping of calls; a
\* response only completes a future.
LEMMA OtherStepInv ==
  ASSUME CallInv,
         \/ \E c \in Conns, r \in Calls : FrameStep(c, r)
         \/ \E c \in Conns : SessionStep(c)
         \/ \E a \in Agents : AgentDies(a)
  PROVE  CallInv'
<1> USE CallAssumption DEF regVars, callVars, agentVars
<1>1. UNCHANGED <<call, target, via, pending, lock, outcome>>
  BY DEF FrameStep, ReadRequest, Execute, Reply, ReadResponse, SessionStep, Open,
         Register, Close, Leave, LinkDown, AgentDies
<1>2. TypeOK'
  <2>1. ASSUME NEW c \in Conns, NEW r \in Calls, FrameStep(c, r) PROVE TypeOK'
    <3>1. CASE ReadRequest(c, r)
      BY <3>1 DEF ReadRequest, CallInv, TypeOK, Results
    <3>2. ASSUME NEW x \in Results, Execute(c, r, x) PROVE TypeOK'
      BY <3>2 DEF Execute, CallInv, TypeOK
    <3>3. ASSUME NEW x \in Results, Reply(c, r, x) PROVE TypeOK'
      BY <3>3 DEF Reply, CallInv, TypeOK
    <3>4. ASSUME NEW x \in Results, ReadResponse(c, r, x) PROVE TypeOK'
      BY <3>4 DEF ReadResponse, CallInv, TypeOK
    <3> QED
      BY <2>1, <3>1, <3>2, <3>3, <3>4 DEF FrameStep
  <2>2. ASSUME NEW c \in Conns, SessionStep(c) PROVE TypeOK'
    <3>1. CASE Open(c)
      BY <3>1 DEF Open, CallInv, TypeOK
    <3>2. CASE Register(c)
      <4>1. ws' \in [Agents -> Conns \cup {None}]
        BY <3>2 DEF Register, CallInv, TypeOK
      <4>2. closed' \in [Conns -> BOOLEAN]
        <5>1. [d \in Conns |-> closed[d] \/ d = ws[Owner[c]]] \in [Conns -> BOOLEAN]
          BY DEF CallInv, TypeOK
        <5>2. closed' = closed \/ closed' = [d \in Conns |-> closed[d] \/ d = ws[Owner[c]]]
          BY <3>2 DEF Register
        <5> QED
          BY <5>1, <5>2 DEF CallInv, TypeOK
      <4>3. handler' \in [Conns -> {"none", "serving", "left"}]
        BY <3>2 DEF Register, CallInv, TypeOK
      <4>4. UNCHANGED <<link, reqs, resps, callVars, agentVars>>
        BY <3>2 DEF Register
      <4> QED
        BY <4>1, <4>2, <4>3, <4>4 DEF CallInv, TypeOK
    <3>3. CASE Close(c)
      BY <3>3 DEF Close, CallInv, TypeOK
    <3>4. CASE Leave(c)
      BY <3>4 DEF Leave, CallInv, TypeOK
    <3>5. CASE LinkDown(c)
      BY <3>5 DEF LinkDown, LoseFrames, CallInv, TypeOK
    <3> QED
      BY <2>2, <3>1, <3>2, <3>3, <3>4, <3>5 DEF SessionStep
  <2>3. ASSUME NEW a \in Agents, AgentDies(a) PROVE TypeOK'
    BY <2>3 DEF AgentDies, LoseFrames, CallInv, TypeOK
  <2> QED
    BY <2>1, <2>2, <2>3
<1> QED
  BY <1>1, <1>2 DEF CallInv, PendingIsInFlight, OneWriter

\* The end of a call with an answer: only an "ok" has to be backed.
LEMMA AnswerFlow ==
  ASSUME CallInv, FlowInv, NEW r \in Calls, NEW answer \in Results,
         call[r] \in {"lock", "flush", "wait"}, Answer(r, answer),
         answer = "ok" => fut[r] = "ok",
         UNCHANGED <<ws, target, via, fut, reqs, resps, tasks, runs, achieved>>
  PROVE  FlowInv'
<1>1. /\ \A s \in Calls \ {r} : call'[s] = call[s] /\ outcome'[s] = outcome[s]
      /\ call'[r] = "tell" /\ outcome'[r] = answer
  BY AnswerInv
<1>2. RecordOwned' /\ RunsOnce'
  BY DEF FlowInv, RecordOwned, RunsOnce
<1>3. FramesTraced'
  BY <1>1 DEF FlowInv, FramesTraced, Results
<1>4. ResultsTrue'
  BY <1>1 DEF FlowInv, ResultsTrue
<1> QED
  BY <1>2, <1>3, <1>4 DEF FlowInv

\* Writing the frame: the one step that gives a call its connection.
LEMMA SendFrameFlow ==
  ASSUME CallInv, FlowInv, NEW r \in Calls, SendFrame(r) PROVE FlowInv'
<1> DEFINE c == ws[target[r]]
<1>1. /\ c \in Conns /\ Owner[c] = target[r] /\ target[r] \in Agents
      /\ call[r] = "lock" /\ via[r] = None /\ outcome[r] = None
  BY CallAssumption DEF SendFrame, HasLock, Reachable, CallInv, TypeOK, FlowInv, RecordOwned, FramesTraced
<1>2. /\ via' = [via EXCEPT ![r] = c]
      /\ reqs' \in {reqs, reqs \cup {<<c, r>>}}
      /\ call' \in {[call EXCEPT ![r] = "wait"], [call EXCEPT ![r] = "flush"]}
      /\ UNCHANGED <<ws, target, outcome, fut, resps, tasks, runs, achieved>>
  BY DEF SendFrame, regVars, agentVars
<1>3. \A d \in Conns : /\ <<d, r>> \notin reqs
                       /\ \A x \in Results \cup {"running"} : <<d, r, x>> \notin tasks
                       /\ \A x \in Results : <<d, r, x>> \notin resps
  BY <1>1, CallAssumption DEF FlowInv, FramesTraced
<1>4. \A d \in Conns, s \in Calls : <<d, s>> \in reqs' =>
          <<d, s>> \in reqs \/ (d = c /\ s = r)
  BY <1>1, <1>2
<1>5. /\ via'[r] = c /\ call'[r] \notin {"idle", "lock"}
      /\ \A s \in Calls \ {r} : via'[s] = via[s] /\ call'[s] = call[s]
  BY <1>1, <1>2 DEF CallInv, TypeOK
<1>6. RecordOwned' /\ ResultsTrue'
  BY <1>2 DEF FlowInv, RecordOwned, ResultsTrue
<1>7. FramesTraced'
  BY <1>1, <1>2, <1>3, <1>4, <1>5, CallAssumption DEF FlowInv, FramesTraced
<1>8. RunsOnce'
  <2>1. runs[r] = 0
    BY <1>1 DEF FlowInv, RunsOnce
  <2> QED
    BY <1>1, <1>2, <1>3, <1>4, <1>5, <2>1, CallAssumption DEF FlowInv, RunsOnce
<1> QED
  BY <1>6, <1>7, <1>8 DEF FlowInv

\* A step of one call keeps the account of the requests.
LEMMA CallStepFlow ==
  ASSUME CallInv, FlowInv, NEW r \in Calls, CallStep(r) PROVE FlowInv'
<1> USE DEF regVars, agentVars
<1>1. CASE CallOffline(r)
  <2>1. via[r] = None
    BY <1>1 DEF CallOffline, FlowInv, FramesTraced
  <2>2. FramesTraced'
    BY <1>1, <2>1 DEF CallOffline, CallInv, TypeOK, FlowInv, FramesTraced
  <2> QED
    BY <1>1, <2>2 DEF CallOffline, CallInv, TypeOK, FlowInv, RecordOwned, RunsOnce, ResultsTrue
<1>2. CASE CallStart(r) \/ SendNothing(r) \/ FlushDone(r) \/ Told(r)
  <2>1. /\ UNCHANGED <<ws, target, via, outcome, fut, reqs, resps, tasks, runs, achieved>>
        /\ \A s \in Calls : call'[s] \in {"idle", "lock"} => call[s] \in {"idle", "lock"}
    BY <1>2 DEF CallStart, SendNothing, FlushDone, Told, HasLock, CallInv, TypeOK
  <2> QED
    BY <2>1 DEF FlowInv, RecordOwned, FramesTraced, RunsOnce, ResultsTrue
<1>3. CASE SendFrame(r)
  BY <1>3, SendFrameFlow
<1>4. CASE SendRaises(r) \/ FlushRaises(r) \/ CallTimeout(r)
  <2>1. /\ Answer(r, "failed") /\ call[r] \in {"lock", "flush", "wait"}
        /\ UNCHANGED <<ws, target, via, fut, reqs, resps, tasks, runs, achieved>>
    BY <1>4 DEF SendRaises, FlushRaises, CallTimeout, HasLock
  <2> QED
    BY <2>1, AnswerFlow DEF Results
<1>5. CASE CallAnswered(r)
  <2>1. /\ Answer(r, fut[r]) /\ call[r] = "wait" /\ fut[r] \in Results
        /\ UNCHANGED <<ws, target, via, fut, reqs, resps, tasks, runs, achieved>>
    BY <1>5 DEF CallAnswered, CallInv, TypeOK
  <2> QED
    BY <2>1, AnswerFlow
<1> QED
  BY <1>1, <1>2, <1>3, <1>4, <1>5 DEF CallStep

\* Frames become tasks, tasks act on their host once and become responses,
\* responses become results.
LEMMA FrameStepFlow ==
  ASSUME CallInv, FlowInv, NEW c \in Conns, NEW r \in Calls, FrameStep(c, r)
  PROVE  FlowInv'
<1> USE DEF regVars, callVars
<1>1. CASE ReadRequest(c, r)
  <2>1. /\ UNCHANGED <<ws, call, target, via, outcome, fut, resps, runs, achieved>>
        /\ <<c, r>> \in reqs
        /\ reqs' = reqs \ {<<c, r>>} /\ tasks' = tasks \cup {<<c, r, "running">>}
    BY <1>1 DEF ReadRequest
  <2>2. c = via[r] /\ runs[r] = 0
    BY <2>1 DEF FlowInv, FramesTraced, RunsOnce
  <2>3. \A d \in Conns : <<d, r>> \notin reqs'
    BY <2>1, <2>2 DEF FlowInv, FramesTraced
  <2>4. RecordOwned'
    BY <2>1 DEF FlowInv, RecordOwned
  <2>5. FramesTraced'
    BY <2>1, <2>2 DEF FlowInv, FramesTraced
  <2>6. RunsOnce'
    BY <2>1, <2>2, <2>3 DEF FlowInv, RunsOnce
  <2>7. ResultsTrue'
    BY <2>1 DEF FlowInv, ResultsTrue
  <2> QED
    BY <2>4, <2>5, <2>6, <2>7 DEF FlowInv
<1>2. ASSUME NEW x \in Results, Execute(c, r, x) PROVE FlowInv'
  <2>1. /\ UNCHANGED <<ws, call, target, via, outcome, fut, reqs, resps>>
        /\ <<c, r, "running">> \in tasks
        /\ tasks' = (tasks \ {<<c, r, "running">>}) \cup {<<c, r, x>>}
    BY <1>2 DEF Execute
  <2>2. c = via[r] /\ via[r] # None /\ runs[r] = 0 /\ Owner[c] = target[r]
    BY <2>1, CallAssumption DEF FlowInv, FramesTraced, RunsOnce
  <2>3. \A d \in Conns : <<d, r>> \notin reqs /\ <<d, r, "running">> \notin tasks'
    BY <2>1, <2>2 DEF FlowInv, FramesTraced, RunsOnce, Results
  <2>4. /\ \/ runs'[r] = 1
           \/ runs'[r] = 0 /\ achieved'[r] = achieved[r]
        /\ \A s \in Calls \ {r} : runs'[s] = runs[s]
        /\ achieved'[r] \in {achieved[r], achieved[r] \cup {target[r]}}
        /\ x = "ok" => target[r] \in achieved'[r]
        /\ \A s \in Calls \ {r} : achieved'[s] = achieved[s]
    BY <1>2, <2>2 DEF Execute, CallInv, TypeOK
  <2>5. RecordOwned' /\ FramesTraced'
    BY <2>1, <2>2 DEF FlowInv, RecordOwned, FramesTraced
  <2>6. RunsOnce'
    BY <2>1, <2>2, <2>3, <2>4 DEF FlowInv, RunsOnce, Results
  <2>7. ResultsTrue'
    BY <2>1, <2>4 DEF FlowInv, ResultsTrue
  <2> QED
    BY <2>5, <2>6, <2>7 DEF FlowInv
<1>3. ASSUME NEW x \in Results, Reply(c, r, x) PROVE FlowInv'
  <2>1. /\ UNCHANGED <<ws, call, target, via, outcome, fut, reqs, runs, achieved>>
        /\ <<c, r, x>> \in tasks
        /\ tasks' = tasks \ {<<c, r, x>>}
        /\ resps' \in {resps, resps \cup {<<c, r, x>>}}
    BY <1>3 DEF Reply
  <2>2. RecordOwned' /\ FramesTraced'
    BY <2>1 DEF FlowInv, RecordOwned, FramesTraced
  <2>3. RunsOnce'
    BY <2>1 DEF FlowInv, RunsOnce
  <2>4. ResultsTrue'
    BY <2>1 DEF FlowInv, ResultsTrue
  <2> QED
    BY <2>2, <2>3, <2>4 DEF FlowInv
<1>4. ASSUME NEW x \in Results, ReadResponse(c, r, x) PROVE FlowInv'
  <2>1. /\ UNCHANGED <<ws, call, target, via, outcome, reqs, tasks, runs, achieved>>
        /\ <<c, r, x>> \in resps
        /\ resps' = resps \ {<<c, r, x>>}
        /\ fut' \in {fut, [fut EXCEPT ![r] = x]}
    BY <1>4 DEF ReadResponse, agentVars
  <2>2. RecordOwned' /\ FramesTraced' /\ RunsOnce'
    BY <2>1 DEF FlowInv, RecordOwned, FramesTraced, RunsOnce
  <2>3. ResultsTrue'
    BY <2>1 DEF CallInv, TypeOK, FlowInv, ResultsTrue
  <2> QED
    BY <2>2, <2>3 DEF FlowInv
<1> QED
  BY <1>1, <1>2, <1>3, <1>4 DEF FrameStep

\* Sessions and failures only lose things, or put a connection on record for
\* its own agent.
LEMMA SessionStepFlow ==
  ASSUME CallInv, FlowInv,
         \/ \E c \in Conns : SessionStep(c)
         \/ \E a \in Agents : AgentDies(a)
  PROVE  FlowInv'
<1> USE DEF callVars, agentVars, regVars
<1>1. /\ UNCHANGED <<call, target, via, outcome, fut, runs, achieved>>
      /\ reqs' \subseteq reqs /\ resps' \subseteq resps /\ tasks' \subseteq tasks
  BY DEF SessionStep, Open, Register, Close, Leave, LinkDown, AgentDies, LoseFrames
<1>2. RecordOwned'
  <2>1. ASSUME NEW c \in Conns, Register(c) PROVE RecordOwned'
    BY <2>1, CallAssumption DEF Register, CallInv, TypeOK, FlowInv, RecordOwned
  <2>2. ASSUME NEW c \in Conns, Leave(c) PROVE RecordOwned'
    BY <2>2, CallAssumption DEF Leave, CallInv, TypeOK, FlowInv, RecordOwned
  <2>3. ASSUME NEW c \in Conns, Open(c) \/ Close(c) \/ LinkDown(c) PROVE RecordOwned'
    BY <2>3 DEF Open, Close, LinkDown, FlowInv, RecordOwned
  <2>4. ASSUME NEW a \in Agents, AgentDies(a) PROVE RecordOwned'
    BY <2>4 DEF AgentDies, FlowInv, RecordOwned
  <2> QED
    BY <2>1, <2>2, <2>3, <2>4 DEF SessionStep
<1>3. FramesTraced'
  BY <1>1 DEF FlowInv, FramesTraced
<1>4. RunsOnce'
  BY <1>1 DEF FlowInv, RunsOnce
<1>5. ResultsTrue'
  BY <1>1 DEF FlowInv, ResultsTrue
<1> QED
  BY <1>2, <1>3, <1>4, <1>5 DEF FlowInv

\* Both invariants hold in every reachable state.
THEOREM CallsSafe == Spec => [](CallInv /\ FlowInv)
<1>1. Init => CallInv /\ FlowInv
  BY InitInv
<1>2. CallInv /\ FlowInv /\ [Next]_vars => (CallInv /\ FlowInv)'
  <2>1. ASSUME CallInv, FlowInv, Next PROVE (CallInv /\ FlowInv)'
    BY <2>1, CallStepInv, OtherStepInv, CallStepFlow, FrameStepFlow, SessionStepFlow DEF Next
  <2>2. ASSUME CallInv, FlowInv, UNCHANGED vars PROVE CallInv' /\ FlowInv'
    BY <2>2 DEF vars, CallInv, TypeOK, PendingIsInFlight, OneWriter, FlowInv, RecordOwned,
         FramesTraced, RunsOnce, ResultsTrue
  <2> QED
    BY <2>1, <2>2
<1> QED
  BY <1>1, <1>2, PTL DEF Spec

\* Type correctness of main, the agents and what travels between them.
THEOREM TypeCorrect == Spec => []TypeOK
  BY CallsSafe, PTL DEF CallInv

\* No way out of forward leaks a future or strands a waiting call.
THEOREM PendingSafe == Spec => []PendingIsInFlight
  BY CallsSafe, PTL DEF CallInv

\* One frame at a time is written to an agent.
THEOREM WriterSafe == Spec => []OneWriter
  BY CallsSafe, PTL DEF CallInv

\* The operator is told "ok" only after the named agent's host succeeded.
THEOREM OkSafe == Spec => []OkMeansDone
<1>1. FlowInv => OkMeansDone
  BY DEF FlowInv, ResultsTrue, OkMeansDone
<1> QED
  BY <1>1, CallsSafe, PTL

\* No host acts twice on a call, or at all on one refused as offline.
THEOREM OnceSafe == Spec => []AtMostOnce
<1>1. FlowInv => AtMostOnce
  BY DEF FlowInv, FramesTraced, RunsOnce, AtMostOnce
<1> QED
  BY <1>1, CallsSafe, PTL

----------------------------------------------------------------------------
(* The promise to the operator.                                            *)

\* A step of a call is an issue, a refusal, an answer, or nothing the operator sees.
LEMMA CallStepPromise ==
  ASSUME CallInv, FlowInv, NEW r \in Calls, CallStep(r)
  PROVE  [Promise!Next]_(Promise!avars)
<1> DEFINE st == [s \in Calls |-> Status(s)]
<1> USE DEF regVars, agentVars
<1>1. UNCHANGED <<target, runs, achieved>>
  BY DEF CallStep, CallOffline, CallStart, SendNothing, SendFrame, SendRaises, FlushDone,
       FlushRaises, CallAnswered, CallTimeout, Told
<1>2. \A s \in Calls \ {r} : Status(s)' = Status(s)
  BY DEF Status, CallInv, TypeOK, Answer, CallStep, CallOffline, CallStart, SendNothing,
       SendFrame, SendRaises, FlushDone, FlushRaises, CallAnswered, CallTimeout, Told
<1>3. CASE CallOffline(r)
  <2>1. Status(r) = "idle" /\ Status(r)' = "offline"
    BY <1>3 DEF CallOffline, Status, CallInv, TypeOK
  <2>2. st[r] = "idle" /\ st' = [st EXCEPT ![r] = "offline"]
    BY <1>2, <2>1
  <2>3. Promise!RefuseOffline(r)
    BY <1>1, <2>2 DEF Promise!RefuseOffline
  <2> QED
    BY <2>3 DEF Promise!Next
<1>4. CASE CallStart(r)
  <2>1. Status(r) = "idle" /\ Status(r)' = "issued"
    BY <1>4 DEF CallStart, Status, CallInv, TypeOK
  <2>2. st[r] = "idle" /\ st' = [st EXCEPT ![r] = "issued"]
    BY <1>2, <2>1
  <2>3. Promise!Issue(r)
    BY <1>1, <2>2 DEF Promise!Issue
  <2> QED
    BY <2>3 DEF Promise!Next
<1>5. CASE \/ SendNothing(r) \/ SendFrame(r) \/ FlushDone(r)
           \/ SendRaises(r) \/ FlushRaises(r) \/ CallTimeout(r) \/ CallAnswered(r)
  <2>1. Status(r) = "issued" /\ Status(r)' = "issued"
    BY <1>5 DEF SendNothing, SendFrame, FlushDone, SendRaises, FlushRaises, CallTimeout,
         CallAnswered, HasLock, Answer, Status, CallInv, TypeOK
  <2>2. st' = st
    BY <1>2, <2>1
  <2> QED
    BY <1>1, <2>2 DEF Promise!avars
<1>6. CASE Told(r)
  <2>1. Status(r) = "issued" /\ Status(r)' = outcome[r] /\ outcome[r] # None
    BY <1>6 DEF Told, Status, CallInv, TypeOK
  <2>2. st[r] = "issued" /\ st' = [st EXCEPT ![r] = outcome[r]]
    BY <1>2, <2>1
  <2>3. outcome[r] \in Results
    BY <1>6, <2>1 DEF Told, CallInv, TypeOK
  <2>4. CASE outcome[r] = "failed"
    <3>1. Promise!AnswerFailed(r)
      BY <1>1, <2>2, <2>4 DEF Promise!AnswerFailed
    <3> QED
      BY <3>1 DEF Promise!Next
  <2>5. CASE outcome[r] = "ok"
    <3>1. target[r] \in achieved[r]
      BY <2>5 DEF FlowInv, ResultsTrue
    <3>2. Promise!AnswerOk(r)
      BY <1>1, <2>2, <2>5, <3>1 DEF Promise!AnswerOk
    <3> QED
      BY <3>2 DEF Promise!Next
  <2> QED
    BY <2>3, <2>4, <2>5 DEF Results
<1> QED
  BY <1>3, <1>4, <1>5, <1>6 DEF CallStep

\* Of the other steps the operator's promise only has the host's action in it.
LEMMA OtherStepPromise ==
  ASSUME CallInv, FlowInv,
         \/ \E c \in Conns, r \in Calls : FrameStep(c, r)
         \/ \E c \in Conns : SessionStep(c)
         \/ \E a \in Agents : AgentDies(a)
  PROVE  [Promise!Next]_(Promise!avars)
<1> DEFINE st == [s \in Calls |-> Status(s)]
<1> USE DEF regVars, callVars, agentVars
<1>1. UNCHANGED <<call, target, outcome>>
  BY DEF FrameStep, ReadRequest, Execute, Reply, ReadResponse, SessionStep, Open,
       Register, Close, Leave, LinkDown, AgentDies
<1>2. st' = st
  BY <1>1 DEF Status
<1>3. ASSUME NEW c \in Conns, NEW r \in Calls, NEW x \in Results, Execute(c, r, x)
      PROVE  [Promise!Next]_(Promise!avars)
  <2>1. CASE UNCHANGED <<runs, achieved>>
    BY <1>1, <1>2, <2>1 DEF Promise!avars
  <2>2. CASE ~UNCHANGED <<runs, achieved>>
    <3>1. via[r] = c /\ via[r] # None /\ runs[r] = 0
      BY <1>3, CallAssumption DEF Execute, FlowInv, FramesTraced, RunsOnce
    <3>2. /\ Owner[c] = target[r] /\ call[r] \notin {"idle", "lock"}
          /\ outcome[r] # "offline"
      BY <3>1 DEF FlowInv, FramesTraced
    <3>3. /\ runs' = [runs EXCEPT ![r] = 1]
          /\ achieved' \in {achieved, [achieved EXCEPT ![r] = achieved[r] \cup {target[r]}]}
      BY <1>3, <2>2, <3>1, <3>2 DEF Execute, CallInv, TypeOK
    <3>4. achieved' \in {achieved, [achieved EXCEPT ![r] = {target[r]}]}
      BY <3>3 DEF FlowInv, ResultsTrue
    <3>5. Status(r) \in {"issued", "failed"}
      <4>1. outcome[r] # "ok"
        BY <3>1 DEF FlowInv, RunsOnce, ResultsTrue
      <4> QED
        BY <3>2, <4>1 DEF Status, CallInv, TypeOK, Results
    <3>6. st[r] \in {"issued", "failed"}
      BY <3>5
    <3>7. Promise!Perform(r)
      BY <1>1, <1>2, <3>1, <3>3, <3>4, <3>6 DEF Promise!Perform
    <3> QED
      BY <3>7 DEF Promise!Next
  <2> QED
    BY <2>1, <2>2
<1>4. CASE UNCHANGED <<runs, achieved>>
  BY <1>1, <1>2, <1>4 DEF Promise!avars
<1> QED
  BY <1>3, <1>4 DEF FrameStep, ReadRequest, Reply, ReadResponse, SessionStep, Open,
     Register, Close, Leave, LinkDown, AgentDies

\* Main and the agents together implement what the operator is promised.
THEOREM Implements == Spec => KeepsPromise
<1>1. Init => Promise!Init
  BY DEF Init, Promise!Init, Status
<1>2. CallInv /\ FlowInv /\ [Next]_vars => [Promise!Next]_(Promise!avars)
  <2>1. ASSUME CallInv, FlowInv, Next PROVE [Promise!Next]_(Promise!avars)
    BY <2>1, CallStepPromise, OtherStepPromise DEF Next
  <2>2. ASSUME UNCHANGED vars PROVE UNCHANGED Promise!avars
    BY <2>2 DEF vars, Promise!avars, Status
  <2> QED
    BY <2>1, <2>2
<1> QED
  BY <1>1, <1>2, CallsSafe, PTL DEF Spec, KeepsPromise, Promise!Spec
=============================================================================
