------------------------------ MODULE HaEntry ------------------------------
(***************************************************************************)
(* One config entry of the Home Assistant integration in                   *)
(* src/custom_components/oscontroll: its setup, the polling coordinator,   *)
(* the discovery of entities by the three platforms, and button presses.   *)
(*                                                                         *)
(* A refresh reads /api/agents and then the containers of each agent, one  *)
(* request at a time, and installs what it read at the end.  Two refreshes *)
(* can be under way at once: that of the timer and that of a press.        *)
(* Home Assistant's DataUpdateCoordinator is modelled from its use here:   *)
(* async_refresh records an exception instead of raising it, and the timer *)
(* runs while anybody listens.                                             *)
(***************************************************************************)

CONSTANTS
    Agents,             \* names main may have in its configuration
    NoData,             \* Python's None for coordinator.data
    Moods,              \* how agents may behave in the run: see `mood`
    FirstPollSucceeds   \* does the first poll of every setup go through?

Platforms == {"binary_sensor", "button", "sensor"}
Slots == {"poll", "press"}

VARIABLES
    main,       \* does main's web API answer as it should ("up"), with an
                \* error status or no JSON at all ("errors"), or not ("down")?
    listed,     \* the agents in main's configuration
    mood,       \* "offline" or "online"; or online and "slow" (no list of its
                \* containers in 10 s), "failing" (502 instead of that list), or
                \* "garbled" (with a GPU table that parse_amd_smi raises on)
    entry,      \* "unloaded", "first" (the refresh in setup), "loaded"
    data,       \* coordinator.data
    ok,         \* coordinator.last_update_success: are the entities available?
    plat,       \* setup of a platform: "none", "listening" or "failed"
    created,    \* created_set of a platform: the keys that have an entity
    stage,      \* where a refresh, or the press before it, is suspended
    snap,       \* what a refresh has read
    todo,       \* the agents whose containers it has still to read
    bad         \* those of them it read a table of that raises

world == <<main, listed, mood>>
fetch == <<stage, snap, todo, bad>>
vars  == <<main, listed, mood, entry, data, ok, plat, created, stage, snap, todo, bad>>

Nothing == [a \in {} |-> {}]
Item == [online : BOOLEAN, containers : BOOLEAN]
Reports == UNION {[S -> Item] : S \in SUBSET Agents}

ASSUME EntryAssumption ==
    /\ FirstPollSucceeds \in BOOLEAN /\ NoData \notin Reports
    /\ {"offline", "online"} \subseteq Moods
    /\ Moods \subseteq {"offline", "online", "slow", "failing", "garbled"}

\* The keys that discovery has entities for, given data d: one per agent and
\* one per GPU (sensor) or container (the others), here at most one of each.
\* GPUs come with the telemetry, which only an online agent has.
Keys(p, d) ==
    LET known  == DOMAIN d
        parted == {a \in known : IF p = "sensor" THEN d[a].online ELSE d[a].containers}
    IN  (known \X {"agent"}) \cup (parted \X {"part"})

Init ==
    /\ main \in {"up", "down"}
    /\ listed \in SUBSET Agents
    /\ mood \in [Agents -> {"offline", "online"}]
    /\ entry = "unloaded" /\ data = NoData /\ ok = TRUE
    /\ plat = [p \in Platforms |-> "none"]
    /\ created = [p \in Platforms |-> {}]
    /\ stage = [s \in Slots |-> "idle"]
    /\ snap = [s \in Slots |-> Nothing]
    /\ todo = [s \in Slots |-> {}] /\ bad = [s \in Slots |-> {}]

----------------------------------------------------------------------------
(* Refreshing.                                                             *)

BeginRefresh(s) == stage' = [stage EXCEPT ![s] = "agents"] /\ UNCHANGED <<snap, todo, bad>>

EndRefresh(s) ==
    /\ stage' = [stage EXCEPT ![s] = "idle"]
    /\ snap' = [snap EXCEPT ![s] = Nothing]
    /\ todo' = [todo EXCEPT ![s] = {}]
    /\ bad' = [bad EXCEPT ![s] = {}]
    /\ entry' = "loaded"

\* GET /api/agents is answered, with the GPU table of each agent.
ReadAgents(s) ==
    /\ stage[s] = "agents" /\ main = "up"
    /\ stage' = [stage EXCEPT ![s] = "containers"]
    /\ snap' = [snap EXCEPT ![s] =
                   [a \in listed |-> [online |-> mood[a] # "offline", containers |-> FALSE]]]
    /\ todo' = [todo EXCEPT ![s] = listed]
    /\ bad' = [bad EXCEPT ![s] = {a \in listed : mood[a] = "garbled"}]
    /\ FirstPollSucceeds /\ entry = "first" => bad'[s] = {}
    /\ UNCHANGED <<world, entry, data, ok, plat, created>>

\* The table of an agent is parsed, and GET /api/agents/<a>/containers is
\* answered: with a list, or with an error (503 of an offline agent, 502 of a
\* failing one, or of main itself), or refused because main is gone by now; all
\* but the list leave the agent without containers.
ReadContainers(s, a) ==
    /\ stage[s] = "containers" /\ a \in todo[s] \ bad[s]
    /\ main # "up" \/ mood[a] # "slow"
    /\ todo' = [todo EXCEPT ![s] = @ \ {a}]
    /\ snap' = [snap EXCEPT ![s][a].containers =
                    (main = "up" /\ mood[a] \in {"online", "garbled"})]
    /\ UNCHANGED <<world, entry, data, ok, plat, created, stage, bad>>

\* A slip: the listeners are called before the data are replaced.
RefreshDoneOldData(s) ==
    /\ stage[s] = "containers" /\ todo[s] = {}
    /\ data' = snap[s]
    /\ ok' = TRUE
    /\ created' = [p \in Platforms |->
                      IF plat[p] = "listening" THEN created[p] \cup Keys(p, data)
                                               ELSE created[p]]
    /\ EndRefresh(s)
    /\ UNCHANGED <<world, plat>>

\* All read: the coordinator has new data and tells its listeners, which add
\* the entities that are missing.
RefreshDone(s) ==
    /\ stage[s] = "containers" /\ todo[s] = {}
    /\ data' = snap[s]
    /\ ok' = TRUE
    /\ created' = [p \in Platforms |->
                      IF plat[p] = "listening" THEN created[p] \cup Keys(p, data')
                                               ELSE created[p]]
    /\ EndRefresh(s)
    /\ UNCHANGED <<world, plat>>

\* The request for an agent's containers may end in an exception that is no
\* OscontrollError: TimeoutError after the client's 10 s, or ValueError for
\* what is no JSON.
Unanswered(a) == main # "up" \/ mood[a] = "slow"

\* Whatever get_agents raises, a table that raises in parse_amd_smi, and a
\* request for containers that times out or breaks end the whole refresh.  The
\* coordinator keeps its data, the entities become unavailable.
RefreshFails(s) ==
    /\ \/ stage[s] = "agents" /\ main # "up"
       \/ stage[s] = "containers" /\ \E a \in todo[s] : a \in bad[s] \/ Unanswered(a)
    /\ FirstPollSucceeds => entry = "loaded"
    /\ ok' = FALSE
    /\ EndRefresh(s)
    /\ UNCHANGED <<world, data, plat, created>>

----------------------------------------------------------------------------
(* The entry.                                                              *)

\* async_setup_entry makes a coordinator and awaits its first refresh.  That
\* one does not raise, so setup goes on to the platforms in any case.
Setup ==
    /\ entry = "unloaded"
    /\ entry' = "first"
    /\ BeginRefresh("poll")
    /\ UNCHANGED <<world, data, ok, plat, created>>

\* A platform looks for entities in the data and then listens for new data.
\* Without data that look raises, and the platform never listens.
SetupPlatform(p) ==
    /\ entry = "loaded" /\ plat[p] = "none"
    /\ \/ /\ data # NoData
          /\ plat' = [plat EXCEPT ![p] = "listening"]
          /\ created' = [created EXCEPT ![p] = Keys(p, data)]
       \/ /\ data = NoData
          /\ plat' = [plat EXCEPT ![p] = "failed"]
          /\ UNCHANGED created
    /\ UNCHANGED <<world, entry, data, ok, fetch>>

\* The sensor of the main server listens in any case: it is added before the
\* sensor platform looks at the data.
Listened == plat["sensor"] # "none" \/ \E p \in Platforms : plat[p] = "listening"

\* A slip: the timer is set again only after a refresh that succeeded.
PollWhileOk ==
    /\ Listened /\ stage["poll"] = "idle" /\ ok
    /\ BeginRefresh("poll")
    /\ UNCHANGED <<world, entry, data, ok, plat, created>>

\* The 10 s timer.
Poll ==
    /\ Listened /\ stage["poll"] = "idle"
    /\ BeginRefresh("poll")
    /\ UNCHANGED <<world, entry, data, ok, plat, created>>

\* A button of an agent is pressed; Home Assistant skips unavailable ones.
Press ==
    /\ created["button"] # {} /\ ok /\ stage["press"] = "idle"
    /\ stage' = [stage EXCEPT !["press"] = "action"]
    /\ UNCHANGED <<world, entry, data, ok, plat, created, snap, todo, bad>>

\* The action is answered, or refused with an error that is only logged, and
\* the button refreshes; or 10 s are over, which raises and does not refresh.
PressEnds ==
    /\ stage["press"] = "action"
    /\ BeginRefresh("press") \/ (stage' = [stage EXCEPT !["press"] = "idle"]
                                 /\ UNCHANGED <<snap, todo, bad>>)
    /\ UNCHANGED <<world, entry, data, ok, plat, created>>

\* The entry is unloaded, or Home Assistant restarts: the coordinator, its
\* refreshes and the entities go.
Unload ==
    /\ entry = "loaded" /\ \A p \in Platforms : plat[p] # "none"
    /\ entry' = "unloaded" /\ data' = NoData /\ ok' = TRUE
    /\ plat' = [p \in Platforms |-> "none"]
    /\ created' = [p \in Platforms |-> {}]
    /\ stage' = [s \in Slots |-> "idle"]
    /\ snap' = [s \in Slots |-> Nothing]
    /\ todo' = [s \in Slots |-> {}] /\ bad' = [s \in Slots |-> {}]
    /\ UNCHANGED world

----------------------------------------------------------------------------
(* Main and the agents.                                                    *)

\* Main stops, starts, or comes to answer with errors (its token changed, a
\* proxy before it); it reads its configuration when it starts.
MainChanges ==
    /\ \/ main' \in {"up", "errors", "down"} \ {main} /\ UNCHANGED listed
       \/ main = "down" /\ listed' \in SUBSET Agents /\ UNCHANGED main
    /\ UNCHANGED <<mood, entry, data, ok, plat, created, fetch>>

AgentChanges(a) ==
    /\ mood' \in {[mood EXCEPT ![a] = m] : m \in Moods \ {mood[a]}}
    /\ UNCHANGED <<main, listed, entry, data, ok, plat, created, fetch>>

----------------------------------------------------------------------------

RefreshStep(s) ==
    \/ ReadAgents(s)
    \/ \E a \in Agents : ReadContainers(s, a)
    \/ RefreshDone(s)
    \/ RefreshFails(s)

Next ==
    \/ \E s \in Slots : RefreshStep(s)
    \/ \E p \in Platforms : SetupPlatform(p)
    \/ Setup \/ Poll \/ Press \/ PressEnds \/ Unload
    \/ MainChanges
    \/ \E a \in Agents : AgentChanges(a)

\* Home Assistant's loop and timers run, and every request ends within 10 s.
Fairness ==
    /\ \A s \in Slots : WF_vars(RefreshStep(s))
    /\ \A p \in Platforms : WF_vars(SetupPlatform(p))
    /\ WF_vars(Poll) /\ WF_vars(PressEnds)

Spec == Init /\ [][Next]_vars
FairSpec == Spec /\ Fairness

----------------------------------------------------------------------------

TypeOK ==
    /\ main \in {"up", "errors", "down"} /\ listed \in SUBSET Agents
    /\ mood \in [Agents -> Moods]
    /\ entry \in {"unloaded", "first", "loaded"}
    /\ data \in Reports \cup {NoData} /\ ok \in BOOLEAN
    /\ plat \in [Platforms -> {"none", "listening", "failed"}]
    /\ created \in [Platforms -> SUBSET (Agents \X {"agent", "part"})]
    /\ stage \in [Slots -> {"idle", "action", "agents", "containers"}]
    /\ snap \in [Slots -> Reports]
    /\ todo \in [Slots -> SUBSET Agents] /\ bad \in [Slots -> SUBSET Agents]
    /\ \A s \in Slots : todo[s] \subseteq DOMAIN snap[s]
    /\ \A p \in Platforms : plat[p] = "listening" => data # NoData

\* Every agent, GPU and container that main reports has its entities: "new
\* agents and GPUs are picked up automatically without a restart"
\* (docs/HOME_ASSISTANT.md:32), however refreshes overlap with setup and presses.
Discovered ==
    \A p \in Platforms :
        plat[p] # "none" /\ data # NoData => Keys(p, data) \subseteq created[p]

\* An agent costs only itself: "offline agent or agent error: keep the entry,
\* no containers" (coordinator.py:115).  The entities of all agents become
\* unavailable only when main cannot be reached.
UnavailableOnlyWithoutMain ==
    [][ok /\ ~ok' => main # "up"]_vars

\* How agents behave in a way that no poll fails of.
Harmless == Moods \cap {"offline", "online", "failing"}

\* If main and its agents come to rest, main answers, no agent is slow and no
\* table raises, Home Assistant comes to show what they are, for good: after
\* failed polls, and though an older refresh may end after a newer one and
\* overwrite it.  An agent whose containers cannot be had is shown online.
EventuallyShown ==
    \A m \in [Agents -> Harmless], L \in SUBSET Agents :
        <>[](entry = "loaded" /\ main = "up" /\ mood = m /\ listed = L) =>
            <>[](/\ ok
                 /\ data = [a \in L |-> [online |-> m[a] # "offline",
                                         containers |-> m[a] = "online"]])
============================================================================
