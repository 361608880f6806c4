----------------------------- MODULE DaemonLoop -----------------------------
(***************************************************************************)
(* What the reconnect loop of an agent's daemon promises main, `run` and   *)
(* `_session` of src/agent/agent.py seen from outside:                     *)
(*   - a session begins only with an accepted hello;                       *)
(*   - an attempt that fails, and a session that ends with an exception,   *)
(*     are followed by a pause before the next attempt;                    *)
(*   - the daemon leaves the loop only when it was asked to stop, and      *)
(*     never in the middle of an attempt, a session or a pause.            *)
(* AgentDaemon implements it with its tasks, pauses and signals, and each  *)
(* daemon of Fleet implements it among the connections of main.            *)
(***************************************************************************)

VARIABLES
    place,      \* "connect", "handshake", "serve", "pause" or "exited"
    stop        \* was the daemon asked to stop?

lvars == <<place, stop>>

Init == place = "connect" /\ stop = FALSE

Goes(from, to) == place = from /\ place' = to /\ UNCHANGED stop

\* The WebSocket opens and the hello goes out; or it does not open.
Dial == Goes("connect", "handshake")
DialFails == Goes("connect", "pause")

\* hello_ok is read; or anything else.
Accepted == Goes("handshake", "serve")
Rejected == Goes("handshake", "pause")

\* The session ends: main said bye or the connection closed; or it raised.
Ends == Goes("serve", "connect")
Raises == Goes("serve", "pause")

\* The pause is over.
Retry == Goes("pause", "connect")

Stop == stop' = TRUE /\ UNCHANGED place
Exit == stop /\ Goes("connect", "exited")

Next ==
    \/ Dial \/ DialFails \/ Accepted \/ Rejected \/ Ends \/ Raises \/ Retry
    \/ Stop \/ Exit

Spec == Init /\ [][Next]_lvars
=============================================================================
