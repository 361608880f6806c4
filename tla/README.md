# TinyOSControll, formally

A TLA+ verification project for TinyOSControll: a `main` server that controls a
small set of Linux hosts through an `agent` daemon on each, a web page and a Home
Assistant integration. The modules are written from the Python source; TLC
checks them on small instances and TLAPS proves the central safety properties
for every number of agents, connections and calls.

    tlasany M.tla                                   parse
    tlc -workers 2 -config RemoteCall.cfg MCRemoteCall   model-check
    tlapm RemoteCall_proof.tla                      check the proofs

`PROJECT.json` lists the runs, the lines of source each definition stands for,
the hazards the properties are for, and the theorems.

## 1. The system

    browser (app.js) --HTTPS, SSE-+
                                  |                   WSS, JSON frames
    Home Assistant   --HTTPS------+-->  main  <-----------------------  agent --> hostcmd.sh --> host
                                         |  \
                                   audit.jsonl  wake-on-LAN packets

`main` is one asyncio process with two aiohttp applications: the web API on HTTPS
with a token in `X-API-Key`, and the management WebSocket on mutual TLS. Each agent
dials in, says hello, and keeps the WebSocket open; main sends requests down
it and the agent sends telemetry and responses up. Nothing but the audit log is
persisted.

### Inventory

| component | source | state | operations | what makes it correct |
|---|---|---|---|---|
| Management sessions and registry | `main/main.py` 160-234 | per agent: `ws`, `online`, `session`, `telemetry`; per connection: where its handler is | hello, reject, replace a stale connection, register, telemetry frame, response frame, end | what the registry says agrees with the connections there are, however hellos, losses and slow browsers coincide; a replaced handler does no harm to its successor |
| Remote actions | `main.py` 127-144, 253-299; `agent.py` 154-208 | `pending` futures, `send_lock`, the agents' request tasks | `_do_action`, `forward`, `_send`, response, `_handle_request`, `_execute` | an answer never claims what did not happen; nothing runs twice; nothing leaks; every call ends |
| Agent daemon | `agent/agent.py` 72-220 | reconnect loop with its pause, stop event, session, telemetry task, send lock | `run`, `_session`, `_handshake`, `_serve`, `_telemetry_loop`, `_send`, `request_stop` | it always tries again, at the stated pace; it stops; the tasks of one session stay out of the next; it comes to be online |
| Event stream | `main.py` 114-125, 312-329; `web/app.js` 128-267 | `sse_clients`; the page's cards and panels | `broadcast`, `api_stream`, `refresh`, `refreshContainers`, `connectSSE` | no registered stream misses an event; the page ends up showing what main knows |
| Web API: token and views | `main.py` 146-157, 237-251, 277-299, 337-361 | none | `_require_token`, `_agent`, `api_agents`, `api_telemetry`, routes | nothing happens without the token; the status tells what was wrong |
| Wake-on-LAN | `common/wol.py`; `main.py` 301-310 | none | `parse_mac`, `magic_packet`, `send_wol`, `api_wake` | a magic packet or an error; the audit log has what was done |
| Wire protocol | `common/protocol.py` | none | `encode`, `decode`, constructors | a text is refused or is a message of a known type |
| TLS | `common/tlsutil.py`, `tools/gen-certs.sh` | certificate files | three contexts | only a peer with main's certificate gets to the management port |
| Host command dispatcher | `agent/hostcmd.sh`, `tools/local_hostcmd.py` | the host | poweroff, reboot, containers, telemetry | only commands of the fixed list reach the host |
| Home Assistant integration | `custom_components/oscontroll/` | coordinator data, the set of known entities, availability | setup, poll, discovery, button press, unload | entities follow what main reports |
| Config flow | `config_flow.py` | none of its own | `async_step_user`, `_validate` | an entry is made for a token main accepts; the error shown is the one there was |
| GPU table parsers | `coordinator.py` 25-84, `app.js` 47-83 | none | `parse_amd_smi`, `parseAmdSmi` | both read the same numbers from the same table |
| Configuration, start, stop of main | `main.py` 72-97, 364-389 | environment | `load_config`, `_run` | an agent has a name and a MAC; no listener without certificates |
| Deployment | `deploy/`, Dockerfiles, `entrypoint.sh` | containers | - | - |

### What is hard here

Everything on main shares one loop, so there are no data races; what goes wrong
goes wrong at the `await`s. Four of them matter:

* `agent.ws.close()` in the hello of a successor: up to 10 s in which the agent
  may hang up, reconnect and register by another handler;
* `broadcast`, which awaits a write to each browser in turn and so suspends an
  *agent's* handler on a *browser's* socket;
* the send to an agent, with the per-agent lock held, outside `wait_for`;
* `wait_for(fut, 15)`, where timer and answer race.

On the agent it is the tasks: one for telemetry, cancelled with its session, and
one per request, which is not. All share one send lock across sessions. And the
agent dies of its own success when the action is poweroff or reboot.
`PROJECT.json` lists the hazards line by line.

## 2. The modules

| module | models | checked by |
|---|---|---|
| `MgmtSession` | the registry and its handlers | `MgmtSession.cfg` |
| `MgmtSession_proof` | its theorems | tlapm |
| `Fleet`, `MCFleet` | the daemons' reconnect loops and the registry, joined by the connections | `Fleet.cfg`, `FleetTakeover.cfg` |
| `Fleet_proof` | that it implements `MgmtSession`, and where the two sides agree | tlapm |
| `OperatorAction` | abstract: what an action promises the operator | as property of `RemoteCall` |
| `RemoteCall`, `MCRemoteCall` | calls side by side, from operator to host and back | `RemoteCall.cfg` |
| `RemoteCall_proof` | its theorems, the refinement included | tlapm |
| `DaemonLoop` | abstract: what a daemon's reconnect loop promises | as property of `AgentDaemon` |
| `AgentDaemon` | the daemon's loop, sessions and senders | `AgentDaemon.cfg` |
| `AgentDaemon_proof` | its theorems | tlapm |
| `EventStream` | broadcasts to the event streams of several pages | `EventStream.cfg` |
| `EventStream_proof` | its theorems | tlapm |
| `WebPage` | one page: fetches, events, cards and panels | `WebPage.cfg` |
| `WebPage_proof` | its theorems | tlapm |
| `HaEntry` | one config entry of Home Assistant | `HaEntry.cfg`, `HaNotReady.cfg`, `HaSlowAgent.cfg` |
| `HaEntry_proof` | its theorems | tlapm |
| `Wire` | frames: what `decode` refuses, what the constructors make | in `Exchange` |
| `WakeOnLan` | MACs over classes of characters, the magic packet by its length | in `Exchange` |
| `Readings` | the two readers of amd-smi's table, the sensors and the card | in `Exchange` |
| `Exchange`, `MCExchange` | one exchange after another with main's listeners, from the client's request to what the client concludes: configuration, TLS, routes, tokens, dispatch, wake, answers | `Exchange.cfg`, `RightToken.cfg` |
| `Exchange_proof` | its theorems, and those about MACs and tables | tlapm |

How they compose. `Fleet` EXTENDS `MgmtSession`: each action of main in it is an
action of the registry, taken when a daemon's hello or the loss of its connection
calls for it. `RemoteCall` refines `OperatorAction`, and has the registry with what
`forward` reads of it, which is what `MgmtSession` is about. `AgentDaemon` refines
`DaemonLoop`, and so does each daemon of `Fleet`: the loop seen from main is the one
the daemon has. `EventStream` says when a broadcast ends and when a browser can hold
it for ever (`BroadcastFinishes`); `MgmtSession`, `RemoteCall` and `Fleet` have a broadcast
as a state that may last, and `Fleet` alone assumes, by name (`BroadcastsEnd`), that none lasts
for ever. `WebPage` takes from `EventStream` that an event reaches the
streams there are. `AgentDaemon` has main as an environment that owes nothing.
`Exchange` EXTENDS `Wire`, `WakeOnLan` and `Readings`, and follows one request all
the way where the other modules have many requests part of the way.

The definitions whose comment begins "A slip:" are not part of a specification.
Each is a variant of the definition after it with one plausible programming
mistake (a dropped guard, a forgotten reset, a missing timeout); with it in
place TLC finds the property named in `PROJECT.json` violated, which shows
that the property depends on that line of code.

### Steps

A step is the code a coroutine runs between two points where it really
suspends. Three judgements enter:

* `audit` opens and writes a file synchronously. It takes an `asyncio.Lock`, but
  never gives up the loop holding it, so the lock is never contended and
  acquiring it does not suspend. An audit belongs to the step around it. An `OSError`
  of the file is caught and logged (`main.py:111-112`), so the step goes on in either case:
  `Exchange` has the line written or not (`Audit`), and `lastAudit` of the registry is the last
  call of `audit`, not the last line of the file.
* Sending hello_ok (a small first frame into an empty buffer) does not suspend.
  The registration, hello_ok and the audit of "agent_online" are one step,
  with the failure of the send as its other outcome.
* `broadcast` may suspend at every client, so it is a state of the handler.

### MgmtSession

| code | model |
|---|---|
| `handle_mgmt_ws` of one WebSocket | `pc[c]`: `hello`, `replace`, `announce`, `serve`, `relay`, `leave`, `done`, `crashed` |
| `agent.ws`, `.online`, `.session`, `.telemetry` | `ws`, `online`, `session` (the connection whose handler drew the uuid), `telemetry` (are there readings) |
| `ws.closed` / transport gone | `closed` / `lost` |
| hello not in 10 s, malformed, unknown agent, bad token | `RejectHello` |
| line 190-197, no open connection on record, or one whose transport is gone, so that `close()` returns at once (`NothingToAwait`) | `AcceptFresh` |
| the same, with one that is up: `await agent.ws.close()` | `AcceptReplacing`, then `Install` |
| hello_ok raises | `Register`, second disjunct: the handler ends in `crashed` with the agent registered, because the `try/finally` begins below |
| telemetry branch | `Telemetry`, then `BroadcastDone` |
| `finally` with `if agent.session == session` | `LeaveRegistered` / `LeaveReplaced` |
| aiohttp: heartbeat, loss of the peer | `HeartbeatExpire`, `PeerGone` |

`close()` sends a close frame, wakes a handler that sits in `receive()`, and waits
for it. So `Install` waits until the victim has left `serve`; a victim that is
in a broadcast makes `close()` time out, and `Install` may then run at any time.
What the peer sent before its transport broke has been read by then (`PeerGone`
is the moment main notices). `Reuse` returns a finished slot nobody refers to,
so that a bounded set of connections stands for an unbounded history.

`Overlap` separates the two things one wants to know. An agent in it may send its
next hello while an earlier one of it still awaits `close()`: what the code allows.
The hellos of the others do not overlap so: what the code was written for. One run
has an agent of either kind.

### Fleet

| code | model |
|---|---|
| `run`, `_session`, `_handshake` of each daemon | `phase[d]`: `connect`, `handshake`, `serve`, `pause`; `at[d]` is the connection |
| `ws_connect` and the hello | `Dial` (with `Connect` of the registry), `hello[c]` |
| `raw = await ws.receive()` in `_handshake`, which has no timeout | `Welcome`, `HandshakeFails` |
| the end of `_serve`, cleanly or with an exception | `SessionEnds` |
| the connection breaks on the daemon's side, which leaves it; main still has it open | `Drop` |
| main's reader or heartbeat sees that the daemon has left | `Noticed`, later and in any order with the daemon's next attempts |
| main's side breaks; the daemon finds out later | `Break` |
| hello_ok sent | `welcomed`, set by the step that registers |
| the handlers of main | `ReadHello`, `Replaced`, `MissHello`, `Handle`, `Heartbeat` around the actions of `MgmtSession` |

`calm` is a history variable with which one can say "from now on the network breaks
nothing": connections break, hellos get lost and heartbeats are missed only before
it is set, except for a connection that is broken already. A daemon that left a
connection before may still be noticed after. `Name` is the daemon's
`AGENT_NAME`.

### RemoteCall and OperatorAction

Each call is one coroutine: `idle`, `lock` (the send lock), `flush` (writing with
the lock held), `wait` (for the future), `tell` (the result is there and audited, and the
broadcast of it is awaited before the HTTP answer, `main.py:265-269`), `done`. `Told` ends
the broadcast and owes nothing: a browser that never reads keeps the operator waiting. Requests and responses are sets
of frames on connections; the handlers on both sides read in whatever order the
requests' tasks give them. An agent's task runs the host command (`Execute`) and
replies on the connection its request came from (`Reply`), which may be gone.
The registry appears with exactly what `forward` reads of it; its `Register`
allows both outcomes `MgmtSession` shows, old connection closed or left open.

`OperatorAction` is the promise in five actions. An operator who asks for
something gets "ok" only after the host did it, "offline" only if it was never
sent, and "failed" which promises nothing: the host may have done it, and may
still do it afterwards (a timeout does not recall the request). `KeepsPromise`
says `RemoteCall` implements that, with

    status <- if answered, the outcome; "idle" before CallStart; else "issued"

### AgentDaemon

`run` is `phase`; the telemetry task is `tele`; each request's task is `req[r]`
with the session it came in as `origin[r]`; `_send_lock` is `lock`, one for the whole
daemon. `Cleanup` is the `finally` of `_session`: cancel and await the telemetry
task, close the WebSocket. The request tasks go on. `fails` and `stopAt` are
history variables for two properties and influence nothing.

`DaemonLoop` is what main and an operator can count on: five places (`connect`,
`handshake`, `serve`, `pause`, `exited`), a session only after hello_ok, a pause after
every failure, no exit but on a stop and between two attempts. `KeepsLoop` says
`AgentDaemon` implements it with

    place <- "connect" at the top of the loop, "pause" in the backoff, else phase

`Fleet` states the same of each of its daemons, none of which is stopped (`LoopOf(d)`).

### EventStream and WebPage

A write to a browser that reads does not suspend; one to a browser that does not
waits for the buffer to drain (`at[h]`), with the event already in it. A connection
that breaks wakes those who wait: with an exception, or without one if it was
closed cleanly (`Wakes` has both). `resp.write` has no timeout: a browser that stays
connected and never reads holds the broadcast, and with it the agent's handler or the
operator's answer, for as long as it likes. `api_stream` of a browser that is gone notices at its
next keepalive (`StreamEnds`). The events have no content here: `owed` notes which
sender's event a stream has still to get.

`WebPage` is what one page does with events. A fetch is a record: what it asks for,
whether it was sent with a token, and what main answered at some moment between
sending and arrival. `refresh` runs from the timer, from events and from Save,
side by side; nothing orders their answers. The containers are asked for by some
events, by the container buttons, and once at the end of the script (`"load"`). Such a request fails when
main is out of reach, on a 401, and at any time with a 503 or 502: an agent that is online may
time out, lose its connection or have no list (`main.py:295-298`). No timer of the page repeats
it, which is why `PanelConverges` has in its premise that lists are given again and again
(`ListGiven`): after a failure the panel stays old until something else asks.

One thing seen while modelling is stated here rather than checked, because no
document says when a panel is to be filled: the script asks for containers at
load only, so a page opened before a token was saved shows cards without
containers until the next status or action event of each agent.

### HaEntry

| code | model |
|---|---|
| `async_setup_entry` of the entry | `Setup`: the first refresh begins; when it ends, well or not, `entry` is `loaded` |
| `_async_update_data`, one per slot (the timer's, a press's) | `stage`, `snap`, `todo`: `ReadAgents`, `ReadContainers` for each agent, `RefreshDone` / `RefreshFails` |
| `coordinator.data`, `.last_update_success` | `data`, `ok` |
| `async_setup_entry` of a platform: `refresh()`, then `async_add_listener` | `SetupPlatform`: `listening`, or `failed` if `refresh()` raises on `data` None |
| `created_set` of a platform | `created`, keys of agents and of their parts (one GPU and one container per agent stand for all) |
| `async_press` | `Press`, `PressEnds` |
| `async_unload_entry`, a restart of Home Assistant | `Unload` |

Home Assistant's part is modelled from how the code uses it: `async_refresh` of a
`DataUpdateCoordinator` records an exception instead of raising it; the timer runs
while anyone listens, and the sensor of the main server listens in any case, since it is
added before the sensor platform looks at the data; an unavailable button
cannot be pressed.

Everything that makes a poll fail is there. `main` is `up`, `down`, or `errors` (any status of 400
and above, or no JSON, to any request: a changed token, a proxy). `mood[a]` is `offline`,
`online`, or online and `slow` (no answer within the client's 10 s, `Unanswered`), `failing` (502
instead of a list, which costs that agent its containers only) or `garbled` (with a GPU
table on which `parse_amd_smi` raises, `bad`). `Moods` says which of them a run has.

`FirstPollSucceeds` separates what holds for every entry from what needs main
to answer during setup.

### Exchange, Wire, WakeOnLan

| code | model |
|---|---|
| `load_config` from the environment | `load_config`: entries without a name or a MAC are skipped, of two with one name the later stays |
| `_run` and `tlsutil`: the three contexts | `tls`, `Handshake` |
| a request that gets no answer: nobody there, certificate not trusted, connection broken before main reads it | `Refused` |
| a server that is not main at the URL entered in Home Assistant | `StrangerAnswers`: any status, any JSON, no JSON |
| `create_web_app`, `create_mgmt_app` | `Routes`, `Arrives` |
| `_require_token`, `_agent`, the container action's check | `RejectToken`, `RejectTarget`, `Admitted` |
| `api_agents`, `api_telemetry`, `serve_index`, `api_stream` | `View` |
| `audit`, with the `OSError` it swallows | `Audit`: the line written or not |
| `_do_action`, `api_containers` around `forward` | `ForwardOffline`, `Forward`, `Respond`, `NoResponse` with `Conclude` |
| `_handle_request`, `_execute`, `_hostcmd` | `Execute`, `Permitted`, `Told` |
| `api_wake`, `send_wol`, either packet failing | `Wake`, `WakeFails` |
| the checks of a first frame in `handle_mgmt_ws` | `NoHello`, `RejectAgent`, `HelloRaises`, `Welcome` |
| `OscontrollApi._request` | `Raised`: the exception by the way the request ended |
| `_validate` and `async_step_user`, `async_press`, `_async_update_data` | `FlowShows`, `PressShows`, `PollFails` in `Receive` |

An exchange is `idle`, `sent`, at `main`, at the `agent`, in `reply`, `answered`, `over`,
and main and the host go on with it when its client has given up (`left`: by its timeout, or
because the connection broke). What it
did is recorded in `ran` (commands told to a host), `lan` (packets) and `log` (calls of `audit`,
each with whether the line was written), and forgotten with it; configuration, registry and telemetry stay. `ClientsTell`
and the other invariants relate the two ends.

A token is one of a few values, of which some are not ASCII: `hmac.compare_digest`
raises on those. A MAC is a sequence of digit, separator, white space, other. `FromHex`
is `bytes.fromhex`, which skips white space around the two digits of a byte but not
between them: it pairs what is left by neighbourhood. `ScanAssumption` in
`MCExchange` compares it with a scanner that goes from character to character, and
`Unseparated` with `SelectSeq`, on all texts of up to 5 characters.

### Readings

A table is a header and rows of tokens; the tokens are classified by who reads them as
a number (`Floats` for Python's `float`, `Finite` for `parseFloat` with `isFinite`, `Whole`
for `int`). `HaRow` says of a row whether it fits, is not recognized, or raises: an
`IndexError` if it ends after 14 tokens, a `ValueError` for an id that is no integer. `Printed`
is the table as amd-smi prints it; that tool is external. `HaShows` and `PageShows` put
what the sensors and what the card show of one agent side by side.

## 3. The runs

| run | instance | what it shows |
|---|---|---|
| `registry` | 3 connections, 2 agents, the hellos of one overlap; 435 226 states | an agent is online exactly while a handler stands behind its connection (`OnlineHasHandler`); the audit log agrees (`AuditTellsPresence`); no handler takes an agent offline under another's connection (`NoFalseOffline`); unless a browser holds a broadcast for ever, a lost connection leaves the record (`LostGoesOffline`) and an accepted hello gets its session (`AcceptedIsServed`); without overlap, replacing leaves one live session (`OneLiveSession`) and an offline agent shows no readings (`OfflineHasNoTelemetry`) |
| `fleet` | 1 daemon, 3 connections, no overlap; 515 614 states | once the network is calm the daemon comes to be in session for good and main means the same connection (`EventuallyOnline`); a daemon in a session that is up is on record (`Agreed`) |
| `fleet_takeover` | as `fleet`, with overlap | a daemon can be in session for good with its agent shown offline for good (`NotLeftOffline` does *not* hold): finding below |
| `remote_call` | 1 agent, 2 connections, 2 calls; 407 538 states | `PendingIsInFlight`, `OneWriter`, `OkMeansDone`, `AtMostOnce`, the promise (`KeepsPromise`), and every call gets its result (`CallsFinish`) |
| `agent_daemon` | 2 requests, 3 sessions; 61 999 states | `TelemetryInSession`, `OneSender`, `BackoffLaw`, `StopBoundsSessions`; the promise of the loop (`KeepsLoop`); `KeepsTrying`, `StopHeeded`, `ResponsesFinish` |
| `event_stream` | 3 streams, 2 pages, 2 senders; 419 340 states | `NoEventLost`, `LiveIsRegistered`, `OneStream`; `StreamsForgotten`; a broadcast ends unless a browser stays connected and never reads (`BroadcastFinishes`) |
| `web_page` | 1 agent, 3 fetches at once; 200 864 states | with answers out of order, failures and lost events, the badges come to show what main says (`CardsConverge`), and a panel does if main gives lists again and again (`PanelConverges`) |
| `ha_entry` | 1 agent, main answers at setup; 506 820 states | everything reported has its entities (`Discovered`); and once main answers, no agent is slow and no table raises, data come to be main's, for good (`EventuallyShown`), whatever polls failed before |
| `ha_not_ready` | 1 agent, main may be down at setup | `Discovered` does *not* hold: finding below |
| `ha_slow_agent` | 2 agents | one slow agent takes all entities down with main up and no table wrong (`UnavailableOnlyWithoutMain` does *not* hold): finding below |
| `exchange` | 2 agents, one with the stub; 3 tokens; 6 configurations; MACs of 2 bytes; tables of 2 rows; 4 319 668 states | nothing is done that was not asked for with the right token (`OnlyAsked`); what was answered was audited (`AuditTellsAnswer`); packets are magic (`PacketIsMagic`); clients conclude what is true (`ClientsTell`); Home Assistant and the page show the same (`ReadersAgree`) |
| `right_token` | as `exchange` | a right token that is not ASCII is not admitted (`RightTokenAdmits` does *not* hold): finding below |

### Disagreements without a run

Some properties hold only with an exception that a document does not make. No run is
spent on the following; each exception is written into the property where it bites, so
that the property says exactly how far the code goes.

* **The audit log** (`AuditTellsAnswer`). `docs/SPEC.md:104` says "Аудит-лог: main логує
  кожну дію (час, agent, дія, результат)": main logs every action with its result. Two
  ways to do something and have no line for it: `send_wol` has broadcast its packet and then
  raises on the directed one, so `api_wake` ends in a 500 before `audit` (`main.py:305-307`);
  and a file that cannot be written costs a warning on the process's log while the action is
  answered "ok" (`main.py:111-112`). The property has both: `log = {}` only for what did
  nothing or for that wake, and a line that may not have been `written`.
* **GPU tables that raise** (`ReadersAgree`). The docstring of `parse_amd_smi` says "Python port of
  parseAmdSmi() from main/web/app.js. Returns None when the layout is not
  recognized." (`coordinator.py:35-36`). It raises instead of returning None: `IndexError` on a row
  of 14 tokens, whose check stops at `t[13]` and which is then asked for `t[14]`
  (`coordinator.py:54`), and `ValueError` for a GPU or XCP that is no integer (`coordinator.py:70`).
  The page shows the same table, as rows or as text; in Home Assistant the poll of all agents
  fails (`WhatHides`). Nor is it a port of `parseAmdSmi` on tokens like `nan`, which
  `float` takes and `isFinite` does not (`PlainNumbers`).
* **MACs with white space inside** (`PacketIsMagic`). "Parse a MAC string into 6 bytes. Accepts
  ':', '-' or no separators." (`common/wol.py:18`): the length checked is that of the text, and
  `bytes.fromhex` skips white space between bytes (`common/wol.py:22-25`). Such a MAC passes and makes
  a packet too short to wake anything.
* **A hello_ok that cannot be sent** (`OnlineHasHandler`, `LostGoesOffline`, the `crashed` handlers). The
  agent is online on a dead connection until its next hello, because the `try/finally` that would
  take it off begins after hello_ok (`main.py:196-206`).

### Bounds

Why they suffice:

* *3 connections* in the registry: the one on record, the one replacing
  it, and a third that arrives meanwhile; the races are between those. With slots
  reused, histories are not bounded. The second agent catches an action that touches
  the wrong entry.
* *1 daemon* in `fleet`: agents do not share anything in the registry but the
  connections, which `registry` has two agents for; what is new in `fleet` is the
  daemon's half of one agent's races.
* *2 calls, 2 connections of one agent* in `remote_call`: two callers contend for one lock,
  one of them outlives a session. A response matched wrongly needs two calls; a reply
  to the wrong session needs two connections. A second agent makes the liveness check too
  large; the theorems hold for any number. Each connection is used once, so
  behaviours end: deadlock is not checked in this run.
* *`MaxSessions` 3* for the daemon: a task left over from the session before last
  is the longest reach any of its properties has. *`MaxFails` 7* is one more than the failure
  which takes the pause to its cap of 30 s, and only caps a history variable.
  The daemon does exit, so deadlock is not checked.
* *3 streams, 2 pages, 2 senders*: two live pages and the old connection of one,
  under two broadcasts that suspend and end in either order. Streams are reused,
  so main may run for ever.
* *3 fetches, 1 event under way* (`Fetches`, `MaxEvents`) on the page: an older and a
  newer answer, and a request that becomes the next. The agents of a page do not
  meet, except in one answer to `refresh`.
* *1 agent* for `ha_entry`: the two refreshes, the three platforms and a press race
  over one report, and the agent goes through all its moods. The agents of a report are read one
  by one; where they affect each other is what `ha_slow_agent` shows, with two.
* *MACs of 2 bytes* (`Octets`) in `exchange`: long enough for a separator, for white space
  inside, for one digit too few, each in a configuration of its own. *Tables of 2 rows*:
  a GPU that works and one that does not, or two partitions of one; each case of a row
  that ends early, an id or a reading that is no number, a wrong header is in
  `MCOtherTables`. Of the 6 configurations one has an entry that a later one replaces,
  and one an entry without a MAC.

### Fairness

Only what the code owes. asyncio runs every ready handle; `close()` and the hello
timeout are bounded by 10 s; `wait_for` fires after 15 s; the 20 s heartbeat (both sides
use it) closes a connection whose peer no longer reads, which makes a
flush raise. Peers, browsers,
operators, host commands and the network owe nothing: no fairness on connecting,
on executing, on replying, on reading a stream. A browser that stays connected and never
reads suspends a broadcast for ever; the liveness properties say what that costs instead of
assuming it away. `LostGoesOffline` and `AcceptedIsServed` except a handler that is itself held
(`HeldForEver`), and no other; `CallsFinish` is about the result and not about the HTTP answer that waits for
the broadcast; `BroadcastFinishes` excepts a stream that is stalled for good. The one thing assumed
and not owed is `BroadcastsEnd` of `Fleet`: there a held broadcast uses up one of three connections. `AgentDaemon` does not assume that main answers a hello; `Fleet` shows it
does. There both loops run, the 10 s for the hello, the `close()` of a stale connection, the
pause and the heartbeat elapse, and what was sent on a connection that stays up arrives.
Nobody owes calm: `EventuallyOnline` is about behaviours that have it. `asyncio.Lock` is first
come, first served, so a waiter that finds the lock free again and again does
get it: strong fairness for the action of `AgentDaemon` that takes it. In Home Assistant and in the browser:
the event loop and the timers run, and a request ends (within 10 s in the
integration). The page's `Tick` and `Message` have strong fairness only because the
bound on fetches can disable them for a while.

### Finding: Home Assistant starts without main

`docs/HOME_ASSISTANT.md:32` says "new agents and GPUs are picked up automatically
without a restart", and `__init__.py:38-43` turns a failure of the first refresh into
`ConfigEntryNotReady`, for Home Assistant to try again. That branch is never
taken: `async_refresh` does not raise (`async_config_entry_first_refresh` does). If
main cannot be reached while the entry is set up, the platforms are set up with
`coordinator.data` None; `refresh()` of each raises `AttributeError` on it, before the next line
registers it as a listener. The hub's sensor keeps the timer running, later polls succeed, and
nothing is discovered until somebody reloads the entry. `ha_not_ready` exhibits it.

### Finding: one slow agent takes all down

`coordinator.py:115`: "Offline agent or agent error: keep the entry, no containers."
The handler there catches `OscontrollError`. The client's timeout is 10 s in total
(`api.py:12`), main's for an agent 15 s (`main.py:142`); what the former raises is a
`TimeoutError`, which `_request` does not translate. It ends the whole poll, and the
entities of every agent become unavailable while main answers and no table is wrong (`ha_slow_agent`).

### Finding: a takeover during a replacement

`main.py:190` says "replace any stale connection for this agent". The handler
reads `agent.ws` there, awaits its `close()`, and then assigns `agent.ws` without looking
again. Let O be the old connection, and N1 the agent's new one. While N1's
handler awaits the close of O (up to 10 s if O's handler is in a broadcast) the
daemon loses N1, leaves it, and connects with N2. O is marked closed by now, so N2 registers at
once and its daemon is in session. N1 is still open at main, whose reader or heartbeat has not
seen the loss. Now N1's handler returns from `close()` and registers over N2, a live
connection, which nobody closes. Then the loss of N1 is noticed; its handler finds its own session on
record and takes the agent off. What is left: the agent offline with no connection on record, and N2
open, served by its handler, its daemon content and so never dialling again. Main sends it nothing and
shows it offline for as long as N2 lasts, on a network without any further fault.
`fleet_takeover` ends in that state (`NotLeftOffline`). With `Overlap` empty `EventuallyOnline`, which is
stronger, holds (`fleet`).

### Finding: a token that is not ASCII

`README.md:47` says "tokens can be any random string", and the sample configuration of
`docs/SPEC.md:127` has a Cyrillic one. `hmac.compare_digest` (`main.py:150`, and
`main.py:184` for agents) raises `TypeError` on strings that are not ASCII. Every request
with such a token ends in a 500; Home Assistant's config flow shows no error it
knows and breaks off (`right_token`); an agent's connection is closed without hello_err, and
it tries for ever.

## 4. The theorems

All proofs are for arbitrary sets of connections, agents, daemons, calls, tokens and
reports, finite or not, and for any bounds. The assumptions are on constants only:
`SessionAssumption`, `FleetAssumption`, `CallAssumption`, `DaemonAssumption`,
`StreamAssumption`, `EntryAssumption`, `PageAssumption`, `WakeAssumption`, `ReadingsAssumption` and
`ExchangeAssumption`. They say that `None` and the like are not connections, requests or
names; which connection is whose; what an environment, a table and a GPU consist of; that
the bounds are numbers; and that `N/A` is no number. TLC evaluates them in the runs.

Three kinds of result: invariants and action properties of a component; refinements (`Implements`,
`ImplementsLoop`, `LoopsKept`, `FleetImplements`); and the *safe halves* of four liveness
properties. Of `P ~> []Q` the prover can show that Q, once it is reached with nothing older under way,
stays; that it is reached stays with TLC, where the same properties with the settled
state of the proof in the place of Q were checked once on the instances of the runs, and hold.

### MgmtSession_proof

Two layers, because half the properties need no assumption on hellos.

1. `RegistryInv == TypeOK /\ OnlineHasHandler /\ AuditTellsPresence` is inductive for
   any `Overlap` (`RegistrySafe`). `OnlineHasHandler` is where the strength is: it
   ties `ws`, `session` and `who` of one connection to its handler, so that when a
   handler leaves holding the session, the connection it clears is its own,
   and one that does not hold it touches nothing. From it: `TypeCorrect`,
   `OnlineSafe`, `AuditSafe`, and the action property `OfflineOnlyWhenLost`
   (`NoFalseOffline`). With it, `ClosesEnd` is inductive as well (`NoWaitingChain`): a handler that awaits
   the close of a stale connection awaits one that was told to close and whose handler does not itself
   wait for a hello or a close, so replacements form no chain and no cycle. That is what lets
   `AcceptedIsServed` hold.
2. `OrderlyInv == OneLiveSession /\ ReplacingAlone /\ OfflineHasNoTelemetry`, about the
   agents outside `Overlap` (`OrderlySafe`). `OneLiveSession` is not inductive by itself: `Install`
   overwrites `ws[a]`, and one has to know that what it overwrites is closed.
   `ReplacingAlone` says so: while a handler replaces for an agent, no other handler
   does, and every connection that still serves this agent is closed. From it:
   `OneLiveSessionSafe`, `OfflineReadingsSafe`.

### Fleet_proof

1. `FleetImplements`: `FleetSpec => Spec` of the registry. Every step of the composition is one
   of main's, of main's environment, or leaves the registry alone; so what is proved of the
   registry holds among daemons.
2. `FleetInv` (`FleetSafe`) ties the two sides together, connection by connection: `HelloRead` (a
   handler that has read a hello is of the agent in it), `WelcomedServes` (one that has sent
   hello_ok serves, or has closed its connection) and `OwnConnection` (a daemon sits on
   a connection that carries its own hello, and in session on one that was welcomed). With
   `OneLiveSession` and `OnlineHasHandler` from the registry it gives `AgreedSafe`: what the
   daemon takes for its session is where main sends its requests. None of the three is a
   consequence of the registry's invariants, which do not know what a daemon believes.
3. `Attended` (`NobodyForgotten`): a daemon that waits for hello_ok, for which it has no timeout, waits on
   a connection that is over, or whose handler has its hello still before it, or
   that was welcomed and is in its handler's loop. It holds with any `Overlap`: in the takeover above
   the daemon is forgotten by the *registry*, not by its handler.
4. `Settled(d)` (`SettledStays`): in calm, a daemon served on a connection that is up, with no other hello
   in its name under way, stays served on that connection. This is the safe half of `EventuallyOnline`, and
   its last condition is the one the takeover violates.
5. `LoopsKept`: each daemon implements `DaemonLoop`.

### RemoteCall_proof

1. `CallInv == TypeOK /\ PendingIsInFlight /\ OneWriter`: main's bookkeeping
   (`CallsSafe`, `PendingSafe`, `WriterSafe`).
2. `FlowInv`: `RecordOwned` (what is on record for an agent is its own),
   `FramesTraced` (each request and response frame, task and future is for a call that was sent, on the
   connection it was sent on, to its target's), `RunsOnce` (a call is in at most one of: unsent, request under
   way, running task, done, so `runs` is at most 1), `ResultsTrue` (a result "ok", wherever it is on its way,
   means the host succeeded). From it: `OkSafe`, `OnceSafe`.
3. `Implements`: the refinement of `OperatorAction`. Initial states map to initial
   states; each action maps to `Issue`, `RefuseOffline`, `Perform`, an answer, or a
   stutter, and that needs both invariants.

### AgentDaemon_proof

1. `DaemonInv == TypeOK /\ SessionNumbered /\ TelemetryInSession /\ OneSender`
   (`DaemonSafe`). `OneSender` ties the lock to the one task that is sending, whatever session
   it belongs to; `TelemetryInSession` needs `SessionNumbered`, that a session being
   opened or served has a number, so that a telemetry task of no session cannot exist. From
   it: `TypeCorrect`, `TelemetrySafe`, `SenderSafe`.
2. `StopInv` (`StopSafe`, for `StopBoundsSessions`): once stopped, a connection attempt under
   way is the only thing that can still become a session.
3. `PaceInv` (`PaceSafe`, for `BackoffLaw`): the pause is a function of the failures since
   the last clean end. That a pause follows at least one failure is what makes it inductive.
4. `ImplementsLoop`: each step is a step of `DaemonLoop` or leaves it alone, by
   cases; the tasks and the senders are stutters.

### EventStream_proof

`StreamInv == TypeOK /\ Linked` (`StreamSafe`). `Linked` has what the streams and the
broadcasts know of each other: `dead` holds only streams whose browser is gone
(so taking them off never hits a live one: `LiveSafe`); an event that is owed is on
the list of a broadcast under way (`EventsSafe`); the open connection of a page is the one
its EventSource is (`OneStreamSafe`); and nothing refers to a free slot, which is what
makes reuse harmless.

### WebPage_proof

1. `PageInv == TypeOK /\ FetchesFit(fetch)` (`PageSafe`, `TypeCorrect`): the answer to a fetch is of
   the kind it asks for. `TypeOK` alone is not inductive, since answers become cards and panels.
2. `CardsStay`, `PanelStays`, the safe halves of `CardsConverge` and `PanelConverges`: what is
   shown changes only by an answer (`OnlyAnswersShow`), and an answer that was not there before is
   what main says now (`AnswersAreNew`). So a page that shows what is the case, with
   no older answer on its way, shows it until main says something else.

### HaEntry_proof

1. `EntryInv == TypeOK /\ Staged` for any entry: refreshes belong to an entry, platforms to
   a loaded one, entities to a platform (`EntrySafe`, `TypeCorrect`).
2. `DiscoveryInv`, under `FirstPollSucceeds`: `Discovered`, a loaded entry has data, and
   hence no platform fails. `Discovered` is not inductive by itself: when data are
   replaced, that only a listening platform is up to date matters (`DiscoverySafe`).
3. `WhatHides`: all that makes entities unavailable. A refresh that succeeded is followed by a failed one
   only if main does not answer as it should, or an agent of the report being read is
   slow with its containers (the finding of `ha_slow_agent`) or came with a table that raises. An offline agent or
   one whose list main answers with a 502 hides nothing.
4. `FoundStays`, the safe half of `EventuallyShown`: an entry that shows what main says, with no
   refresh under way that has read anything else (`ShowsFound`), goes on to show it, as long as main
   answers and every agent is offline, online or failing (`Harmless`); the moods `WhatHides` names are excluded
   because with them it is false.

### Exchange_proof

1. `ExchangeInv == TypeOK /\ Stages /\ OnlyAsked /\ AuditTellsAnswer` (`ExchangeSafe`). `Stages` is the
   argument: until the agent runs a command nothing is done, said or on record (`Clean`); an
   exchange at the agent was admitted and carries the frame main made of it; one in reply carries
   an answer that is true of the host (`ReplyIsTrue`). So a step that acts or answers knows what
   came before it. From it: `ExchangeTypes`, `OnlyWhatWasAsked`, and `LogTellsAnswers`, which counts the
   calls of `audit`, each with its line written or not.
2. `Explained`: every status of main's has a cause, in the request, in the configuration or in what was done
   (`MainsCause`); where nobody answers the status is `refused`; and a certificate is doubted only if it is to
   be verified (`Cause`). Of a stranger, which may answer anything, nothing more can be said, and nothing
   more is. With `Fitting`, who asks for what, it gives `ClientsTellTrue`: nothing a client
   concludes of main is false, whether it has the answer, a timeout or a broken connection.
3. `AsciiTokenAdmits`: an ASCII token of main's, entered for it, always makes an entry. So the
   finding of `right_token` has no other cause.
4. `PacketsAreMagic`: every packet is a magic packet or comes of a MAC with white space inside, for any
   text as MAC and any `Octets`. `ParsedBytes` counts the bytes of the pairs `FromHex` finds. The
   separators are taken out by a recursive function (`Unseparated`); that it exists
   and keeps to the characters is shown from a least counterexample (`LeastExists`), since the
   library's induction needs an operator as parameter.
5. `ReadersAlike`: over any tokens that `float` and `parseFloat` take alike for numbers (all but
   the likes of `nan`), `parse_amd_smi` and `parseAmdSmi` make the same of every table on which the
   former does not raise. `RowsAlike` has it for one row, by the number of tokens: fewer
   than 14, 14, more.
6. `ReadersAgreeSafe`, for `ReadersAgree`: what a poll installs and what the page shows come of one
   report of main's (`Viewed`, `Concluded`); `TablesAlike` adds `ReadersAlike`, `BoardIsRead` what becomes of a
   table as amd-smi prints it, and `TableToBlame` that a poll fails by a table only if
   one raises.

### What stays with TLC

Liveness (`LostGoesOffline`, `AcceptedIsServed`, `EventuallyOnline`, `CallsFinish`, `KeepsTrying`,
`StopHeeded`, `ResponsesFinish`, `StreamsForgotten`, `BroadcastFinishes`, `CardsConverge`,
`PanelConverges`, `EventuallyShown`): the prover has no account of fairness and
ENABLED. Of `EventuallyOnline`, `CardsConverge`, `PanelConverges` and `EventuallyShown` the safe
halves are proved, as above. The exceptions (`fleet_takeover`, `ha_not_ready`, `ha_slow_agent`,
`right_token`) are TLC's counterexamples. Every invariant and every action property of the passing
runs is stated by a theorem. `AgentDaemon`, `EventStream` and `HaEntry` have their types proved (`TypeCorrect`) and no
run that asks for them.

## 5. Not modelled

* What documents promise and the code does not have: rate limiting of actions
  (`docs/SPEC.md` 4.3).
* Payloads as text: the wording of errors, `last_seen`, the JSON of a frame (`Wire` has what
  `json.loads` makes of it), the lines and tokens of amd-smi's table. Names with
  characters that a URL reserves.
* How TLS works: `Exchange` has whom each context accepts. The generation of certificates.
* What the host does when told: success, failure, death. The inside of `hostcmd.sh` (its
  fallback from systemctl to reboot(2), its reading of `/proc`) is one step.
* Two daemons of one name, which replace each other for ever: no document says what
  should happen.
* Pong replies on the agent (one more sender under the same lock, in `_serve`).
* Home Assistant's device records, translations, diagnostics; how a card or a gauge is
  drawn; flash messages.
* A crash of main (`EventStream` has it, as `Restart`): its only persistent state is the append-only audit log,
  and every agent redials. For the registry it is the initial state.
* Deployment: container files, and an entry point that sets up a group.

## 6. Plan

Done: the registry, remote actions, the daemon, the event stream and the page, the
config entry of Home Assistant; then `Fleet`, the single exchanges with configuration,
tokens, wake-on-LAN, wire format and clients, and the readers of GPU tables; proofs of all their
invariants, with the refinements of `OperatorAction` and `DaemonLoop`. Left, by worth:

1. `HostCmd`: the fallback chains of `hostcmd.sh`, with which of them reaches the host.
2. The safe half of `CallsFinish`: what a call at each stage waits for is there.
3. Liveness of `RemoteCall` with two agents.
