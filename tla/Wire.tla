-------------------------------- MODULE Wire --------------------------------
(***************************************************************************)
(* The frames between main and an agent: src/common/protocol.py.           *)
(*                                                                         *)
(* A text is what json.loads makes of it: an object, the message, or       *)
(* something else.  A field with the value None stands for one left out:   *)
(* whoever reads an optional field takes None for it then.  Of the         *)
(* constructors only those whose frames Exchange looks into are here.      *)
(***************************************************************************)

CONSTANT None

ALL_TYPES == {"hello", "hello_ok", "hello_err", "request", "response",
              "telemetry", "ping", "pong", "bye"}

ALL_ACTIONS == {"health", "poweroff", "reboot", "containers.list", "containers.action"}

ALL_CONTAINER_ACTIONS == {"start", "stop", "restart"}

\* A text that is no JSON, or no JSON object.
Garbage == [json |-> "other", msg |-> None]

Encode(msg) == [json |-> "object", msg |-> msg]

\* decode raises ProtocolError on any other text.
Decodable(text) == text.json = "object" /\ text.msg.type \in ALL_TYPES

Decode(text) == text.msg

make_hello(agent, token) == [type |-> "hello", agent |-> agent, token |-> token]

\* make_request raises ProtocolError on an action that is not in ALL_ACTIONS.
make_request(id, action, payload) ==
    [type |-> "request", id |-> id, action |-> action, payload |-> payload]

make_response(id, ok, payload, error) ==
    [type |-> "response", id |-> id, ok |-> ok, payload |-> payload, error |-> error]

make_telemetry(agent, payload) ==
    [type |-> "telemetry", agent |-> agent, payload |-> payload]

make_ping == [type |-> "ping"]
=============================================================================
