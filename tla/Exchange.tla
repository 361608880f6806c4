------------------------------ MODULE Exchange ------------------------------
(***************************************************************************)
(* One exchange after another with main's two listeners, from a client's   *)
(* request to what the client concludes from the answer: the web API and   *)
(* the admission of agents in src/main/main.py, the agent's dispatch of a  *)
(* request (src/agent/agent.py) to the host command, Wake-on-LAN, and the  *)
(* clients: Home Assistant's config flow, poll and buttons, the page, and  *)
(* the agents' daemons.                                                    *)
(*                                                                         *)
(* Exchanges do not overlap here: RemoteCall, MgmtSession and HaEntry have *)
(* what happens when they do.  An HTTP status goes by its name; one that   *)
(* is no status ("refused", also for a connection that breaks, "untrusted",*)
(* "timeout", "not_json", "bad_json") is what aiohttp, TLS or json makes   *)
(* of the attempt; "odd_json" is a 200 whose JSON is none of main's.       *)
(***************************************************************************)
EXTENDS Wire, WakeOnLan, Readings

CONSTANTS
    Names,          \* names of agents, configured or not
    Containers,     \* names of containers
    Verbs,          \* what may stand for {action} in the path
    Whitelist,      \* CONTAINERS of each agent
    Stubs,          \* the agents that run tools/local_hostcmd.py
    Tokens, Ascii,  \* tokens, and those in ASCII
    Secrets,        \* API_TOKEN and AGENT_TOKEN of main
    Envs,           \* AGENT_<i>_NAME, _MAC and _IP of main, in order
    Hosts,          \* what an agent may read of its host, by dotted names
    Boards,         \* what GPUs amd-smi may find: sequences of rows
    OtherTables     \* what else may be in its place

Broadcast == "255.255.255.255"

ASSUME ExchangeAssumption ==
    /\ Ascii \subseteq Tokens /\ Secrets \subseteq [api : Tokens, agent : Tokens]
    /\ Whitelist \in [Names -> SUBSET Containers]
    /\ \A env \in Envs : env \in Seq([name : Names \cup {None}, mac : Seq(Kinds),
                                      ip : STRING \cup {None}])
    /\ Boards \subseteq Seq(Gpus) /\ \A t \in OtherTables : t.rows \in Seq(Seq(STRING))
    /\ None \notin Names \cup {Broadcast, "ok", "unavailable", "hello_ok", "timeout", "refused"}

\* What an agent reports; main's telemetry of an agent that is offline is {}.
\* Without amd-smi there is no table.
NoTable == [header |-> <<>>, rows |-> <<>>]
Table(board) == [header |-> EXPECTED_HEADER, rows |-> [i \in DOMAIN board |-> Printed(board[i])]]
Tables == {Table(board) : board \in Boards} \cup OtherTables \cup {NoTable}
NoReport == [host |-> <<>>, amd_smi |-> NoTable]
Reports == [host : Hosts, amd_smi : Tables] \cup {NoReport}

VARIABLES
    agents,     \* Main.agents: MAC and IP by name
    secret,     \* main's two tokens
    tls,        \* are main's certificate files there, does the client's system trust them?
    online, telemetry,          \* of AgentInfo
    at,         \* where the exchange is
    req,        \* its request
    frame,      \* the text on the agent's connection
    left,       \* "timeout" or "refused" if the client does not get the answer
    ran,        \* the commands that reached a host, with their success
    lan,        \* the packets sent: MAC, destination, length
    log,        \* the calls of audit, each with whether its line was written
    answer,     \* what main answered: status, ok, report
    seen,       \* what the client concluded
    shown       \* what the client shows of each agent of the answer

config == <<agents, secret, tls>>
registry == <<online, telemetry>>
effects == <<ran, lan, log>>
ends == <<answer, seen, shown>>
vars == <<agents, secret, tls, online, telemetry, at, req, frame, left, ran, lan, log,
          answer, seen, shown>>

----------------------------------------------------------------------------
(* Configuration.                                                          *)

\* load_config skips an entry without a name or a MAC; of two with one name
\* the dict keeps the later.
load_config(env) ==
    LET kept == {i \in DOMAIN env : env[i].name # None /\ Strip(env[i].mac) # <<>>}
        last(n) == CHOOSE i \in kept : env[i].name = n
                                       /\ \A j \in kept : env[j].name = n => j <= i
    IN  [n \in {env[i].name : i \in kept} |->
            [mac |-> Strip(env[last(n)].mac), ip |-> env[last(n)].ip]]

\* The paths of create_web_app and create_mgmt_app.
Actions == {"poweroff", "reboot", "container"}
AgentOps == Actions \cup {"wake", "containers", "telemetry"}
TokenOps == AgentOps \cup {"agents", "stream"}
Routes == [web |-> TokenOps \cup {"index"}, mgmt |-> {"ws"}]

\* What each client asks for, and of whom.
Ask(clients, ops, names, containers, verbs) ==
    LET ha == clients \cap {"flow", "poll", "button"} # {} IN
    [client : clients, op : ops, agent : names, container : containers, verb : verbs,
     port : {"web"}, url : IF ha THEN {"main", "nobody", "stranger"} ELSE {"main"},
     verify : IF ha THEN BOOLEAN ELSE {FALSE}, cert : {FALSE}, token : Tokens]

Requests ==
    Ask({"flow", "poll"}, {"agents"}, {None}, {None}, {None})
    \cup Ask({"poll"}, {"containers"}, Names, {None}, {None})
    \cup Ask({"button"}, {"wake", "poweroff", "reboot"}, Names, {None}, {None})
    \cup Ask({"button"}, {"container"}, Names, Containers, ALL_CONTAINER_ACTIONS)
    \cup Ask({"page"}, {"agents", "index", "stream"}, {None}, {None}, {None})
    \cup Ask({"page"}, {"wake", "poweroff", "reboot", "containers"}, Names, {None}, {None})
    \cup Ask({"curl"}, {"telemetry", "ws"}, Names, {None}, {None})
    \cup Ask({"curl"}, {"container"}, Names, Containers, Verbs)
    \cup [client : {"daemon", "curl"}, op : {"ws"}, agent : Names, container : {None},
          verb : {None}, port : {"mgmt"}, url : {"main"}, verify : {TRUE},
          cert : BOOLEAN, token : Tokens]

NoRequest == [client |-> None, op |-> None, agent |-> None, container |-> None, verb |-> None,
              port |-> None, url |-> None, verify |-> FALSE, cert |-> FALSE, token |-> None]

NoAnswer == [status |-> None, ok |-> FALSE, report |-> <<>>]

Init ==
    /\ \E env \in Envs : agents = load_config(env)
    /\ secret \in Secrets
    /\ tls \in [files : BOOLEAN, trusted : BOOLEAN]
    /\ online = {} /\ telemetry = [a \in Names |-> NoReport]
    /\ at = "idle" /\ req = NoRequest /\ frame = Garbage /\ left = None
    /\ ran = {} /\ lan = {} /\ log = {}
    /\ answer = NoAnswer /\ seen = None /\ shown = <<>>

----------------------------------------------------------------------------
(* The way in.                                                             *)

Begin(r) ==
    /\ at = "idle"
    /\ at' = "sent" /\ req' = r
    /\ UNCHANGED <<config, registry, frame, left, effects, ends>>

Ends(status, ok, report) ==
    /\ at' = "answered"
    /\ answer' = [status |-> status, ok |-> ok, report |-> report]
    /\ UNCHANGED <<config, req, left, seen, shown>>

Fails(status) ==
    Ends(status, FALSE, <<>>) /\ UNCHANGED <<registry, frame, effects>>

\* The client accepts main's certificate, and main the client's: on the web
\* port it asks for none, on the agents' port both hold the same file.
Handshake(r) ==
    IF r.port = "mgmt" THEN r.cert ELSE r.verify => tls.trusted

HttpErrors == {"bad_request", "not_found", "unavailable", "bad_gateway", "server_error"}

\* Nobody listens there; main did not start without its certificate files; the
\* connection breaks; or a certificate is not accepted.
Refused ==
    /\ at = "sent"
    /\ \/ Fails("refused")
       \/ req.url = "main" /\ tls.files /\ ~Handshake(req) /\ Fails("untrusted")
       \/ req.url = "stranger" /\ req.verify /\ Fails("untrusted")

\* Another server than main answers as it likes.
StrangerAnswers ==
    /\ at = "sent" /\ req.url = "stranger"
    /\ \/ \E status \in HttpErrors \cup {"unauthorized", "not_json", "bad_json", "odd_json"} :
             Fails(status)
       \/ Ends("ok", TRUE, <<>>) /\ UNCHANGED <<registry, frame, effects>>

\* What a client sends first on a WebSocket: a daemon its hello.
FirstFrames(r) ==
    IF r.op # "ws" THEN {Garbage}
    ELSE IF r.client = "daemon" THEN {Encode(make_hello(r.agent, r.token))}
    ELSE {Garbage, Encode(make_ping)}

\* The request is at main, and goes to a handler if there is a route.
Arrives ==
    /\ at = "sent" /\ req.url = "main" /\ tls.files /\ Handshake(req)
    /\ \/ req.op \notin Routes[req.port] /\ Fails("not_found")
       \/ /\ req.op \in Routes[req.port]
          /\ at' = "main" /\ frame' \in FirstFrames(req)
          /\ UNCHANGED <<config, registry, req, left, effects, ends>>

----------------------------------------------------------------------------
(* The handlers of the web API.                                            *)

\* hmac.compare_digest raises TypeError for strings that are not ASCII.
Comparable(s, t) == {s, t} \subseteq Ascii

\* _require_token lets the request pass.
HasToken == Comparable(req.token, secret.api) /\ req.token = secret.api

RejectToken ==
    /\ at = "main" /\ req.op \in TokenOps
    /\ \/ ~Comparable(req.token, secret.api) /\ Fails("server_error")
       \/ Comparable(req.token, secret.api) /\ ~HasToken /\ Fails("unauthorized")

ValidVerb == req.op = "container" => req.verb \in ALL_CONTAINER_ACTIONS

\* The container action is looked at before the agent.
RejectTarget ==
    /\ at = "main" /\ req.op \in AgentOps /\ HasToken
    /\ \/ ~ValidVerb /\ Fails("bad_request")
       \/ ValidVerb /\ req.agent \notin DOMAIN agents /\ Fails("not_found")

\* The checks of the handler of an agent's path are passed.
Admitted == HasToken /\ ValidVerb /\ req.agent \in DOMAIN agents

\* What main says of agents.
Views(names) == [a \in names |-> [online |-> a \in online, telemetry |-> telemetry[a]]]

View ==
    /\ at = "main"
    /\ \/ req.op = "index" /\ Ends("ok", TRUE, <<>>)
       \/ req.op = "stream" /\ HasToken /\ Ends("ok", TRUE, <<>>)
       \/ req.op = "telemetry" /\ Admitted
          /\ Ends("ok", TRUE, Views({req.agent}))
       \/ req.op = "agents" /\ HasToken
          /\ Ends("ok", TRUE, Views(DOMAIN agents))
    /\ UNCHANGED <<registry, frame, effects>>

Line(event, ok, written) ==
    [event |-> event, agent |-> req.agent, verb |-> req.verb, ok |-> ok, written |-> written]

\* audit appends a line to the file; if it cannot, it warns and that is all.
Audit(event, ok) == \E written \in BOOLEAN : log' = log \cup {Line(event, ok, written)}

\* forward finds no session: 503, which _do_action audits and raises again.
ForwardOffline ==
    /\ at = "main" /\ req.op \in Actions \cup {"containers"} /\ Admitted
    /\ req.agent \notin online
    /\ IF req.op \in Actions THEN Audit(req.op, FALSE) ELSE UNCHANGED log
    /\ Ends("unavailable", FALSE, <<>>)
    /\ UNCHANGED <<registry, frame, ran, lan>>

ActionOf ==
    [poweroff |-> "poweroff", reboot |-> "reboot", containers |-> "containers.list",
     container |-> "containers.action"]

\* The request main makes.  One exchange at a time: its id may be any.
RequestFrame ==
    Encode(make_request("id", ActionOf[req.op],
              IF req.op = "container" THEN [container |-> req.container, action |-> req.verb]
                                      ELSE None))

\* forward finds a session.
Forward ==
    /\ at = "main" /\ req.op \in DOMAIN ActionOf /\ Admitted
    /\ req.agent \in online
    /\ frame' = RequestFrame
    /\ at' = "agent"
    /\ UNCHANGED <<config, registry, req, left, effects, ends>>

----------------------------------------------------------------------------
(* The agent: _handle_request, _execute and _hostcmd.                      *)

Reply(id, ok, error) ==
    /\ frame' = Encode(make_response(id, ok, None, error))
    /\ at' = "reply"
    /\ UNCHANGED <<config, registry, req, left, lan, log, ends>>

\* A slip: the agent trusts main with the whitelist.
PermittedByMain(a, m) == m.action \in ALL_ACTIONS

\* _execute refuses a container that is not in its whitelist, and an action
\* it does not know.
Permitted(a, m) ==
    /\ m.action \in ALL_ACTIONS
    /\ m.action = "containers.action" =>
          m.payload.container \in Whitelist[a] /\ m.payload.action \in ALL_CONTAINER_ACTIONS

\* The dispatcher is told exactly the command and its arguments.
Told(a, m, ok) ==
    LET arg == IF m.action = "containers.action" THEN m.payload
                                                 ELSE [container |-> None, action |-> None]
    IN  [agent |-> a, cmd |-> m.action, ok |-> ok,
         container |-> arg.container, action |-> arg.action]

\* hostcmd.sh succeeds if one of its ways works; the stub always does, and
\* does nothing.
Execute ==
    /\ at = "agent"
    /\ LET m == Decode(frame) IN
       /\ Decodable(frame) /\ m.type = "request"
       /\ \/ ~Permitted(req.agent, m) /\ Reply(m.id, FALSE, "refused") /\ UNCHANGED ran
          \/ /\ Permitted(req.agent, m) /\ req.agent \in Stubs
             /\ Reply(m.id, TRUE, None) /\ UNCHANGED ran
          \/ \E ok \in BOOLEAN :
                /\ Permitted(req.agent, m) /\ req.agent \notin Stubs
                /\ Reply(m.id, ok, IF ok THEN None ELSE "failed")
                /\ ran' = ran \cup {Told(req.agent, m, ok)}

\* A slip: only a failure is logged.
ConcludeQuietly(ok) ==
    /\ IF req.op \in Actions
          THEN (IF ok THEN UNCHANGED log ELSE Audit(req.op, ok)) /\ Ends("ok", ok, <<>>)
          ELSE UNCHANGED log /\ Ends(IF ok THEN "ok" ELSE "bad_gateway", ok, <<>>)
    /\ UNCHANGED <<registry, frame, ran, lan>>

\* _do_action and api_containers turn what they got into the answer.
Conclude(ok) ==
    /\ IF req.op \in Actions
          THEN Audit(req.op, ok) /\ Ends("ok", ok, <<>>)
          ELSE UNCHANGED log /\ Ends(IF ok THEN "ok" ELSE "bad_gateway", ok, <<>>)
    /\ UNCHANGED <<registry, frame, ran, lan>>

Respond ==
    /\ at = "reply"
    /\ Decodable(frame) /\ Decode(frame).type = "response"
    /\ Conclude(Decode(frame).ok)

\* No response in 15 s, or the request could not be written.
NoResponse == at \in {"agent", "reply"} /\ Conclude(FALSE)

----------------------------------------------------------------------------
(* Wake-on-LAN: api_wake and send_wol, which runs in a thread.             *)

Packet(a, dest) ==
    [mac |-> agents[a].mac, dest |-> dest, length |-> PacketLength(agents[a].mac)]

\* The sends that worked before one raised; an exception is a 500 of aiohttp.
WakeFails ==
    /\ at = "main" /\ req.op = "wake" /\ Admitted
    /\ \/ UNCHANGED lan     \* WolError, or the broadcast raised
       \/ /\ Parsed(agents[req.agent].mac) >= 0 /\ agents[req.agent].ip # None
          /\ lan' = lan \cup {Packet(req.agent, Broadcast)}
    /\ Ends("server_error", FALSE, <<>>)
    /\ UNCHANGED <<registry, frame, ran, log>>

Wake ==
    /\ at = "main" /\ req.op = "wake" /\ Admitted
    /\ Parsed(agents[req.agent].mac) >= 0
    /\ lan' = lan \cup {Packet(req.agent, d) : d \in {Broadcast, agents[req.agent].ip} \ {None}}
    /\ Audit("wake", TRUE)
    /\ Ends("ok", TRUE, <<>>)
    /\ UNCHANGED <<registry, frame, ran>>

----------------------------------------------------------------------------
(* An agent's connection: the first frame in handle_mgmt_ws.               *)

FirstMessage == at = "main" /\ req.op = "ws" /\ Decodable(frame)

IsHello == FirstMessage /\ Decode(frame).type = "hello"

KnownAgent == Decode(frame).agent \in DOMAIN agents

HasAgentToken ==
    Comparable(Decode(frame).token, secret.agent) /\ Decode(frame).token = secret.agent

\* A text that is no message is closed on, a message that is no hello refused.
NoHello ==
    /\ at = "main" /\ req.op = "ws" /\ ~IsHello
    /\ Fails(IF FirstMessage THEN "hello_err" ELSE "closed")

\* An unknown name or a wrong token is refused and audited.
RejectAgent ==
    /\ IsHello
    /\ ~KnownAgent \/ (Comparable(Decode(frame).token, secret.agent) /\ ~HasAgentToken)
    /\ Audit("agent_rejected", FALSE)
    /\ Ends("hello_err", FALSE, <<>>)
    /\ UNCHANGED <<registry, frame, ran, lan>>

\* A token that cannot be compared ends the handler, and with it the connection.
HelloRaises ==
    /\ IsHello /\ KnownAgent /\ ~Comparable(Decode(frame).token, secret.agent)
    /\ Fails("closed")

Welcome ==
    /\ IsHello /\ KnownAgent /\ HasAgentToken
    /\ online' = online \cup {req.agent}
    /\ Audit("agent_online", TRUE)
    /\ Ends("hello_ok", TRUE, <<>>)
    /\ UNCHANGED <<telemetry, frame, ran, lan>>

----------------------------------------------------------------------------
(* The clients.                                                            *)

Ha == {"flow", "poll", "button"}

\* The answer does not reach its client: the connection broke on the way, or
\* the 10 s of a request of Home Assistant were over.  Main has gone on all the
\* same, so it is enough to find out in the end.
GiveUp ==
    /\ at = "answered" /\ left = None
    /\ left' \in {"refused"} \cup (IF req.client \in Ha THEN {"timeout"} ELSE {})
    /\ UNCHANGED <<config, registry, at, req, frame, effects, ends>>

\* What the client has of its request.
Received == IF left = None THEN answer.status ELSE left

\* A slip: every error of the client is a failure to connect.
RaisedAsOne(status) ==
    IF status \in HttpErrors \cup {"unauthorized", "untrusted", "refused", "not_json"}
    THEN "CannotConnect" ELSE IF status = "timeout" THEN "TimeoutError"
    ELSE IF status = "bad_json" THEN "ValueError" ELSE "none"

\* The exception of OscontrollApi._request, if any.
Raised(status) ==
    IF status = "unauthorized" THEN "InvalidAuth"
    ELSE IF status \in HttpErrors THEN "OscontrollError"
    ELSE IF status = "untrusted" THEN "SslError"
    ELSE IF status \in {"refused", "not_json"} THEN "CannotConnect"
    ELSE IF status = "timeout" THEN "TimeoutError"
    ELSE IF status = "bad_json" THEN "ValueError"
    ELSE "none"

\* async_step_user: the error keys of what _validate translates.  It leaves
\* the rest as it is, which is no HomeAssistantError and ends the flow.
FlowErrors ==
    [CannotConnect |-> "cannot_connect", InvalidAuth |-> "invalid_auth", SslError |-> "ssl_error"]

FlowShows(exc) ==
    IF exc = "none" THEN "entry"
    ELSE IF exc \in DOMAIN FlowErrors THEN FlowErrors[exc] ELSE "raises"

\* async_press logs an OscontrollError, and does not look at the answer.
PressShows(exc) ==
    IF exc = "none" THEN "done"
    ELSE IF exc \in {"TimeoutError", "ValueError"} THEN "raises" ELSE "warned"

HaReads(report) == [a \in DOMAIN report |-> HaShows(report[a])]
PageReads(report) == [a \in DOMAIN report |-> PageShows(report[a])]

\* A poll raises if its request does, what it got are no agents, or
\* parse_amd_smi raises.  An agent without an answer to "containers" costs itself
\* only, unless it is for want of time.
PollFails(exc) ==
    IF req.op = "agents"
       THEN exc # "none" \/ answer.status = "odd_json"
            \/ \E a \in DOMAIN answer.report :
                  HaShows(answer.report[a]).table.verdict = "raises"
       ELSE exc \in {"TimeoutError", "ValueError"}

Receive ==
    /\ at = "answered"
    /\ LET exc == Raised(Received) IN
       /\ seen' = IF req.client = "flow" THEN FlowShows(exc)
                  ELSE IF req.client = "button" THEN PressShows(exc)
                  ELSE IF req.client = "poll" THEN (IF PollFails(exc) THEN "failed" ELSE "data")
                  ELSE IF Received \in {"ok", "hello_ok"}
                       THEN (IF answer.ok THEN "ok" ELSE "failed")
                  ELSE "error"
       /\ shown' = IF req.op = "agents" /\ req.client = "poll" /\ ~PollFails(exc)
                      THEN HaReads(answer.report)
                   ELSE IF req.op = "agents" /\ req.client = "page" /\ Received = "ok"
                      THEN PageReads(answer.report)
                   ELSE shown
    /\ at' = "over"
    /\ UNCHANGED <<config, registry, req, frame, left, effects, answer>>

\* The exchange is forgotten.
Rest ==
    /\ at = "over"
    /\ at' = "idle" /\ req' = NoRequest /\ frame' = Garbage /\ left' = None
    /\ ran' = {} /\ lan' = {} /\ log' = {}
    /\ answer' = NoAnswer /\ seen' = None /\ shown' = <<>>
    /\ UNCHANGED <<config, registry>>

----------------------------------------------------------------------------
(* Between exchanges: telemetry arrives, sessions end.                     *)

\* _telemetry_loop sends what the host command printed, main stores it.
Report(a, report) ==
    /\ at = "idle" /\ a \in online
    /\ LET text == Encode(make_telemetry(a, report)) IN
          Decodable(text) /\ telemetry' = [telemetry EXCEPT ![a] = Decode(text).payload]
    /\ UNCHANGED <<config, online, at, req, frame, left, effects, ends>>

SessionLost(a) ==
    /\ at = "idle" /\ a \in online
    /\ online' = online \ {a}
    /\ telemetry' = [telemetry EXCEPT ![a] = NoReport]
    /\ UNCHANGED <<config, at, req, frame, left, effects, ends>>

Next ==
    \/ \E r \in Requests : Begin(r)
    \/ Refused \/ StrangerAnswers \/ Arrives
    \/ RejectToken \/ RejectTarget \/ View \/ ForwardOffline \/ Forward
    \/ Execute \/ Respond \/ NoResponse
    \/ Wake \/ WakeFails
    \/ NoHello \/ RejectAgent \/ HelloRaises \/ Welcome
    \/ GiveUp \/ Receive \/ Rest
    \/ \E a \in Names : SessionLost(a) \/ \E report \in Reports : Report(a, report)

Spec == Init /\ [][Next]_vars

----------------------------------------------------------------------------

TypeOK ==
    /\ DOMAIN agents \subseteq Names
    /\ secret \in [api : Tokens, agent : Tokens] /\ tls \in [files : BOOLEAN, trusted : BOOLEAN]
    /\ online \subseteq DOMAIN agents
    /\ telemetry \in [Names -> Reports]
    /\ at \in {"idle", "sent", "main", "agent", "reply", "answered", "over"}
    /\ req \in Requests \cup {NoRequest}
    /\ left \in {None, "timeout", "refused"}

\* Whatever the path of a request through the routes, main's checks, the frame
\* and the agent's own checks: a host only runs what a request with main's token asked
\* this very agent for, on a container of the agent's list; a packet only wakes
\* the agent that was named; and only a configured agent comes online, with
\* main's certificate and token.
OnlyAsked ==
    /\ \A x \in ran :
          /\ req.token = secret.api /\ req.port = "web"
          /\ req.agent = x.agent /\ req.op \in DOMAIN ActionOf /\ x.cmd = ActionOf[req.op]
          /\ x.cmd = "containers.action" =>
                /\ x.container = req.container /\ x.container \in Whitelist[x.agent]
                /\ x.action = req.verb /\ x.action \in ALL_CONTAINER_ACTIONS
    /\ \A p \in lan :
          /\ req.token = secret.api /\ req.op = "wake"
          /\ p.mac = agents[req.agent].mac /\ p.dest \in {Broadcast, agents[req.agent].ip}
    /\ answer.status = "hello_ok" =>
          req.cert /\ req.token = secret.agent /\ req.agent \in DOMAIN agents

\* When main has answered an action, it has audited it exactly once, with the
\* result it answered, if the request was admitted, and not at all otherwise: the
\* file has that line if it could be written.  "ok" means that a host did it
\* or a stub stands for the host.  Nothing is done without an audit but
\* a wake of which only the directed packet failed: main answers it with an
\* error, and SPEC.md:104, "main logs every action", does not hold of it.
AuditTellsAnswer ==
    answer.status # None /\ req.op \in Actions \cup {"wake"} /\ req.url = "main" =>
        /\ log \in IF answer.status \in {"ok", "unavailable"}
                      THEN {{Line(req.op, answer.ok, written)} : written \in BOOLEAN}
                      ELSE {{}}
        /\ answer.ok => lan # {} \/ req.agent \in Stubs \/ \E x \in ran : x.ok
        /\ log = {} => ran = {} /\ (lan # {} => agents[req.agent].ip # None)

\* A packet that is sent is a magic packet of 17 times six bytes, unless the MAC
\* has white space inside, which bytes.fromhex passes over.
PacketIsMagic ==
    \A p \in lan :
        /\ p.length <= 17 * Octets
        /\ p.length # 17 * Octets => \E i \in DOMAIN p.mac : p.mac[i] = " "

\* What the clients conclude when they talk to main: an entry is made only if it
\* accepts the token; the error named is the one there was, and a wrong token or
\* certificate is never taken for a main that cannot be reached; the flow and a
\* press break off only for an error that api.py does not translate; a press
\* is done only if main audited it; the page says "ok" only of what was done.  Of
\* another server they can conclude anything, but a certificate is doubted
\* only if it is to be verified, and where nobody answers nothing is done and
\* no agents are found.
ClientsTell ==
    at = "over" =>
        /\ req.url = "main" =>
              /\ seen = "entry" => req.token = secret.api /\ (req.verify => tls.trusted)
              /\ seen = "invalid_auth" => req.token # secret.api
              /\ seen = "ssl_error" => ~tls.trusted
              /\ seen = "cannot_connect" => Received = "refused"
              /\ seen = "raises" =>
                    left = "timeout" \/ (req.client = "flow" /\ ~Comparable(req.token, secret.api))
              /\ seen = "done" => log # {}
        /\ seen = "ssl_error" => req.verify
        /\ req.url = "nobody" =>
              seen \notin {"entry", "done", "invalid_auth"} /\ (req.op = "agents" => seen # "data")
        /\ req.client = "page" /\ seen = "ok" /\ req.op \in Actions =>
              req.agent \in Stubs \/ \E x \in ran : x.ok

\* Main's own token, entered for main in the config flow, makes an entry if
\* main's certificate is accepted and the answer comes, and in time: "tokens can be
\* any random string" (README.md:47).
RightTokenAdmits ==
    at = "over" /\ req.client = "flow" /\ req.url = "main" /\ Received # "refused"
    /\ Handshake(req) /\ left = None /\ req.token = secret.api => seen = "entry"

\* No token of the report that one of the readers takes for a number and the
\* other does not, like nan.
PlainNumbers(report) ==
    \A a \in DOMAIN report : LET rows == report[a].telemetry.amd_smi.rows IN
        \A i \in DOMAIN rows : \A j \in DOMAIN rows[i] :
            rows[i][j] \in Floats <=> rows[i][j] \in Finite

\* Home Assistant and the page show the same of one answer: of the GPUs that
\* amd-smi printed their numbers, those of a GPU's first row in its
\* sensors.  Except for a table that makes parse_amd_smi raise, where its docstring
\* has it give None (coordinator.py:35-36) and the page still shows the table, as
\* rows or as text: then the poll fails for all agents, and only a row that ends
\* after 14 tokens or an id that is no number does that.
ReadersAgree ==
    at = "over" /\ req.op = "agents" /\ answer.status = "ok" /\ left = None /\ req.client # "flow" =>
        LET table(a) == answer.report[a].telemetry.amd_smi IN
        /\ seen # "failed" /\ PlainNumbers(answer.report) =>
              \A a \in DOMAIN answer.report :
                  \/ parse_amd_smi(table(a)).verdict = "raises"
                  \/ shown[a] = HaShows(answer.report[a]) /\ shown[a] = PageShows(answer.report[a])
        /\ seen # "failed" =>
              \A a \in DOMAIN shown, board \in Boards :
                  table(a) = Table(board) =>
                      LET gpus == shown[a].table.gpus IN
                      /\ gpus = board
                      /\ \A i \in DOMAIN board, key \in DOMAIN GPU_SENSORS :
                            (\A j \in 1 .. i - 1 : board[j].gpu # board[i].gpu) =>
                                GpuSensor(gpus, board[i].gpu, key) = board[i][GPU_SENSORS[key]]
        /\ seen = "failed" =>
              \E a \in DOMAIN answer.report : \E i \in DOMAIN table(a).rows :
                  LET t == table(a).rows[i] IN
                      Len(t) = 14 \/ ~({t[1], t[2]} \subseteq Whole)
=============================================================================
