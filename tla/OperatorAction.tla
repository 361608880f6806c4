--------------------------- MODULE OperatorAction ---------------------------
(***************************************************************************)
(* What a remote action promises the operator who asks for it over         *)
(* `POST /api/agents/<name>/...`, whatever happens to connections, agents  *)
(* and messages underneath:                                                *)
(*   - the host performs it at most once, and no other host does;          *)
(*   - the answer "ok" is given only after it succeeded there;             *)
(*   - the answer "offline" (503) means it is not and never will be done;  *)
(*   - the answer "failed" says nothing: it may have been performed, or    *)
(*     still be performed later.                                           *)
(***************************************************************************)
EXTENDS Naturals

CONSTANTS
    Calls,      \* the requests of operators
    Agents      \* the configured agents

VARIABLES
    status,     \* "idle", "issued", or the answer the operator got
    target,     \* the agent a call is for
    runs,       \* how often a host was asked to carry out the call
    achieved    \* the agents where that succeeded

avars == <<status, target, runs, achieved>>

Init ==
    /\ status = [r \in Calls |-> "idle"]
    /\ target \in [Calls -> Agents]
    /\ runs = [r \in Calls |-> 0]
    /\ achieved = [r \in Calls |-> {}]

\* The agent is connected: the request goes on its way.
Issue(r) ==
    /\ status[r] = "idle"
    /\ status' = [status EXCEPT ![r] = "issued"]
    /\ UNCHANGED <<target, runs, achieved>>

\* The agent is not connected: 503, and nothing is sent.
RefuseOffline(r) ==
    /\ status[r] = "idle"
    /\ status' = [status EXCEPT ![r] = "offline"]
    /\ UNCHANGED <<target, runs, achieved>>

\* The target's host carries the call out, with or without success.
Perform(r) ==
    /\ status[r] \in {"issued", "failed"}
    /\ runs[r] = 0
    /\ runs' = [runs EXCEPT ![r] = 1]
    /\ achieved' \in {achieved, [achieved EXCEPT ![r] = {target[r]}]}
    /\ UNCHANGED <<status, target>>

AnswerOk(r) ==
    /\ status[r] = "issued"
    /\ target[r] \in achieved[r]
    /\ status' = [status EXCEPT ![r] = "ok"]
    /\ UNCHANGED <<target, runs, achieved>>

AnswerFailed(r) ==
    /\ status[r] = "issued"
    /\ status' = [status EXCEPT ![r] = "failed"]
    /\ UNCHANGED <<target, runs, achieved>>

Next ==
    \E r \in Calls :
        \/ Issue(r) \/ RefuseOffline(r) \/ Perform(r) \/ AnswerOk(r) \/ AnswerFailed(r)

Spec == Init /\ [][Next]_avars
=============================================================================
