--------------------------- MODULE HaEntry_proof ---------------------------
(***************************************************************************)
(* The entry of the Home Assistant integration, for any set of agents:     *)
(* what it discovers, what hides it, and what it goes on showing.          *)
(*                                                                         *)
(* EntryInv holds whatever happens at setup.  DiscoveryInv needs a first   *)
(* poll that succeeds: it keeps data in every loaded entry, so that each   *)
(* platform set up is one that listens.  FoundStays is the safe half of    *)
(* EventuallyShown.                                                        *)
(***************************************************************************)
EXTENDS HaEntry, TLAPS

\* Refreshes belong to an entry, platforms to a loaded one, and entities to a
\* platform that was set up.
Staged ==
    /\ entry = "unloaded" => \A s \in Slots : stage[s] = "idle"
    /\ entry # "loaded" => \A p \in Platforms : plat[p] = "none"
    /\ \A p \in Platforms : plat[p] = "none" => created[p] = {}

\* The inductive invariants: of any entry, and of one whose setup found main.
EntryInv == TypeOK /\ Staged
DiscoveryInv ==
    /\ Discovered
    /\ entry = "loaded" => data # NoData
    /\ \A p \in Platforms : plat[p] # "failed"

----------------------------------------------------------------------------

\* A report with one item per agent of a set is a report.
LEMMA ReportOfSet ==
  ASSUME NEW S \in SUBSET Agents, NEW f \in [S -> Item] PROVE f \in Reports
BY DEF Reports

\* A report is a function from agents to items.
LEMMA ReportShape ==
  ASSUME NEW d \in Reports
  PROVE  DOMAIN d \in SUBSET Agents /\ d \in [DOMAIN d -> Item]
BY DEF Reports

\* Discovery names agents of the report only.
LEMMA KeysTyped ==
  ASSUME NEW d \in Reports, NEW p \in Platforms
  PROVE  Keys(p, d) \in SUBSET (Agents \X {"agent", "part"})
BY ReportShape DEF Keys

\* The empty report is one.
LEMMA NothingIsReport == Nothing \in Reports
<1>1. Nothing \in [{} -> Item]
  BY DEF Nothing
<1> QED BY <1>1, ReportOfSet

\* Before its setup an entry has nothing.
LEMMA InitEntry == ASSUME Init PROVE EntryInv /\ DiscoveryInv
<1> USE DEF Init
<1>1. ok \in BOOLEAN
  BY Zenon
<1>2. mood \in [Agents -> Moods]
  BY EntryAssumption
<1>3. TypeOK
  BY <1>1, <1>2, NothingIsReport DEF TypeOK
<1> QED BY <1>3 DEF EntryInv, DiscoveryInv, Staged, Discovered

\* The end of a refresh leaves its slot empty and the entry loaded.
LEMMA EndRefreshTyped ==
  ASSUME TypeOK, NEW s \in Slots, EndRefresh(s)
  PROVE  /\ stage' \in [Slots -> {"idle", "action", "agents", "containers"}]
         /\ snap' \in [Slots -> Reports]
         /\ todo' \in [Slots -> SUBSET Agents]
         /\ bad' \in [Slots -> SUBSET Agents]
         /\ \A r \in Slots : todo'[r] \subseteq DOMAIN snap'[r]
         /\ entry' = "loaded"
BY NothingIsReport DEF EndRefresh, TypeOK

\* A refresh that is under way: reading keeps its report a report and never
\* leaves an agent to read that is not in it.
LEMMA ReadingKeeps ==
  ASSUME EntryInv, NEW s \in Slots,
         ReadAgents(s) \/ \E a \in Agents : ReadContainers(s, a)
  PROVE  EntryInv'
<1> USE DEF EntryInv
<1>1. CASE ReadAgents(s)
  <2> DEFINE f == [x \in listed |-> [online |-> mood[x] # "offline", containers |-> FALSE]]
  <2>1. f \in [listed -> Item]
    BY DEF Item
  <2>2. f \in Reports /\ DOMAIN f = listed
    BY <2>1, ReportOfSet DEF TypeOK
  <2>3. snap' = [snap EXCEPT ![s] = f] /\ todo' = [todo EXCEPT ![s] = listed]
    BY <1>1 DEF ReadAgents
  <2> HIDE DEF f
  <2>4. snap' \in [Slots -> Reports] /\ \A r \in Slots : todo'[r] \subseteq DOMAIN snap'[r]
    BY <2>2, <2>3 DEF TypeOK
  <2>5. bad' \in [Slots -> SUBSET Agents]
    BY <1>1 DEF ReadAgents, TypeOK
  <2>6. TypeOK'
    BY <1>1, <2>4, <2>5 DEF ReadAgents, world, TypeOK
  <2> QED BY <1>1, <2>6 DEF ReadAgents, Staged
<1>2. ASSUME NEW a \in Agents, ReadContainers(s, a) PROVE EntryInv'
  <2> DEFINE d == snap[s]
             c == main = "up" /\ mood[a] \in {"online", "garbled"}
             f == [d EXCEPT ![a].containers = c]
  <2>1. d \in Reports /\ a \in DOMAIN d
    BY <1>2 DEF ReadContainers, TypeOK
  <2>2. DOMAIN d \in SUBSET Agents /\ d \in [DOMAIN d -> Item]
    BY <2>1, ReportShape
  <2>3. d[a] \in Item /\ c \in BOOLEAN
    BY <2>1, <2>2
  <2>4. [d[a] EXCEPT !.containers = c] \in Item
    BY <2>3 DEF Item
  <2>5. f \in [DOMAIN d -> Item]
    BY <2>2, <2>4
  <2>6. f \in Reports /\ DOMAIN f = DOMAIN d
    BY <2>2, <2>5, ReportOfSet
  <2>7. snap' = [snap EXCEPT ![s] = f] /\ todo' = [todo EXCEPT ![s] = @ \ {a}]
    BY <1>2 DEF ReadContainers
  <2> HIDE DEF f, c
  <2>8. snap' \in [Slots -> Reports] /\ \A r \in Slots : todo'[r] \subseteq DOMAIN snap'[r]
    BY <2>6, <2>7 DEF TypeOK
  <2>9. TypeOK'
    BY <1>2, <2>7, <2>8 DEF ReadContainers, world, TypeOK
  <2> QED BY <1>2, <2>9 DEF ReadContainers, Staged
<1> QED BY <1>1, <1>2

\* The end of a refresh.  With success the data become what it read, and each
\* platform that listens has an entity for every key in them.
LEMMA EndingKeeps ==
  ASSUME EntryInv, NEW s \in Slots, RefreshDone(s) \/ RefreshFails(s)
  PROVE  EntryInv'
<1> USE DEF EntryInv
<1>1. CASE RefreshDone(s)
  <2>1. data' \in Reports /\ data' # NoData
    BY <1>1, EntryAssumption DEF RefreshDone, TypeOK
  <2>2. \A p \in Platforms : Keys(p, data') \in SUBSET (Agents \X {"agent", "part"})
    BY <2>1, KeysTyped
  <2>3. created' \in [Platforms -> SUBSET (Agents \X {"agent", "part"})]
    BY <1>1, <2>2 DEF RefreshDone, TypeOK
  <2>4. ok' \in BOOLEAN
    BY <1>1, Zenon DEF RefreshDone
  <2>5. EndRefresh(s)
    BY <1>1 DEF RefreshDone
  <2>6. TypeOK'
    BY <1>1, <2>1, <2>3, <2>4, <2>5, EndRefreshTyped DEF RefreshDone, world, TypeOK
  <2>7. \A p \in Platforms : plat[p] = "none" => created'[p] = created[p]
    BY <1>1 DEF RefreshDone
  <2> QED BY <1>1, <2>5, <2>6, <2>7, EndRefreshTyped DEF RefreshDone, Staged
<1>2. CASE RefreshFails(s)
  <2>1. ok' \in BOOLEAN
    BY <1>2, Zenon DEF RefreshFails
  <2>2. EndRefresh(s)
    BY <1>2 DEF RefreshFails
  <2>3. TypeOK'
    BY <1>2, <2>1, <2>2, EndRefreshTyped DEF RefreshFails, world, TypeOK
  <2> QED BY <1>2, <2>2, <2>3, EndRefreshTyped DEF RefreshFails, Staged
<1> QED BY <1>1, <1>2

\* What the entry and its users do.
LEMMA EntryKeeps ==
  ASSUME EntryInv,
         Setup \/ Poll \/ Press \/ PressEnds \/ Unload
           \/ \E p \in Platforms : SetupPlatform(p)
  PROVE  EntryInv'
<1> USE DEF EntryInv, Slots
<1>1. CASE Setup
  BY <1>1 DEF Setup, BeginRefresh, world, TypeOK, Staged
<1>2. CASE Poll
  BY <1>2 DEF Poll, Listened, BeginRefresh, world, TypeOK, Staged, Platforms
<1>3. CASE Press
  <2>1. entry # "unloaded"
    BY <1>3 DEF Press, Staged, Platforms
  <2> QED BY <1>3, <2>1 DEF Press, world, TypeOK, Staged
<1>4. CASE PressEnds
  BY <1>4 DEF PressEnds, BeginRefresh, world, TypeOK, Staged
<1>5. CASE Unload
  <2>1. ok' \in BOOLEAN
    BY <1>5, Zenon DEF Unload
  <2>2. TypeOK'
    BY <1>5, <2>1, NothingIsReport DEF Unload, world, TypeOK
  <2>3. Staged'
    BY <1>5 DEF Unload, Staged
  <2> QED BY <2>2, <2>3
<1>6. ASSUME NEW p \in Platforms, SetupPlatform(p) PROVE EntryInv'
  <2>1. data # NoData => Keys(p, data) \in SUBSET (Agents \X {"agent", "part"})
    BY KeysTyped DEF TypeOK
  <2>2. TypeOK'
    BY <1>6, <2>1 DEF SetupPlatform, world, fetch, TypeOK
  <2>3. \A q \in Platforms : plat'[q] = "none" => plat[q] = "none" /\ created'[q] = created[q]
    BY <1>6 DEF SetupPlatform, TypeOK
  <2>4. entry = "loaded" /\ entry' = entry /\ stage' = stage
    BY <1>6 DEF SetupPlatform, fetch
  <2> QED BY <2>2, <2>3, <2>4 DEF Staged
<1> QED BY <1>1, <1>2, <1>3, <1>4, <1>5, <1>6

\* What main and the agents do.
LEMMA WorldKeeps ==
  ASSUME EntryInv, MainChanges \/ \E a \in Agents : AgentChanges(a)
  PROVE  EntryInv'
<1> USE DEF EntryInv, fetch
<1>1. CASE MainChanges
  <2>1. main' \in {"up", "errors", "down"} /\ listed' \in SUBSET Agents
    BY <1>1 DEF MainChanges, TypeOK
  <2> QED BY <1>1, <2>1 DEF MainChanges, TypeOK, Staged
<1>2. ASSUME NEW a \in Agents, AgentChanges(a) PROVE EntryInv'
  <2>1. mood' \in [Agents -> Moods]
    BY <1>2 DEF AgentChanges, TypeOK
  <2> QED BY <1>2, <2>1 DEF AgentChanges, TypeOK, Staged
<1> QED BY <1>1, <1>2

\* Every step keeps the invariant of an entry.
LEMMA NextEntry == ASSUME EntryInv, [Next]_vars PROVE EntryInv'
<1>1. CASE Next
  BY <1>1, ReadingKeeps, EndingKeeps, EntryKeeps, WorldKeeps DEF Next, RefreshStep
<1>2. CASE UNCHANGED vars
  BY <1>2 DEF vars, EntryInv, TypeOK, Staged
<1> QED BY <1>1, <1>2

----------------------------------------------------------------------------

\* If every setup finds main, each platform listens, and all that is in the
\* data has its entities.
LEMMA NextDiscovery ==
  ASSUME FirstPollSucceeds, EntryInv, DiscoveryInv, [Next]_vars PROVE DiscoveryInv'
<1> USE DEF DiscoveryInv
<1>1. ASSUME NEW s \in Slots, RefreshDone(s) PROVE DiscoveryInv'
  <2>1. data' # NoData
    BY <1>1, EntryAssumption DEF RefreshDone, EntryInv, TypeOK
  <2>2. plat' = plat /\ \A p \in Platforms : plat[p] \in {"none", "listening"}
    BY <1>1 DEF RefreshDone, EntryInv, TypeOK
  <2>3. \A p \in Platforms : plat[p] = "listening" => Keys(p, data') \subseteq created'[p]
    BY <1>1 DEF RefreshDone
  <2> QED BY <2>1, <2>2, <2>3 DEF Discovered
<1>2. ASSUME NEW s \in Slots, RefreshFails(s) PROVE DiscoveryInv'
  <2>1. entry = "loaded"
    BY <1>2 DEF RefreshFails
  <2> QED BY <1>2, <2>1 DEF RefreshFails, Discovered
<1>3. ASSUME NEW p \in Platforms, SetupPlatform(p) PROVE DiscoveryInv'
  <2>1. data # NoData /\ data' = data /\ entry' = entry
    BY <1>3 DEF SetupPlatform
  <2>2. /\ plat' = [plat EXCEPT ![p] = "listening"]
        /\ created' = [created EXCEPT ![p] = Keys(p, data)]
    BY <1>3, <2>1 DEF SetupPlatform
  <2>3. created \in [Platforms -> SUBSET (Agents \X {"agent", "part"})]
        /\ plat \in [Platforms -> {"none", "listening", "failed"}]
    BY DEF EntryInv, TypeOK
  <2> QED BY <2>1, <2>2, <2>3 DEF Discovered
<1>4. CASE Unload
  BY <1>4 DEF Unload, Discovered
<1>5. CASE Setup
  BY <1>5 DEF Setup, Discovered
<1>6. CASE \/ \E s \in Slots : ReadAgents(s) \/ \E a \in Agents : ReadContainers(s, a)
           \/ Poll \/ Press \/ PressEnds
           \/ MainChanges \/ \E a \in Agents : AgentChanges(a)
  <2>1. UNCHANGED <<entry, data, plat, created>>
    BY <1>6 DEF ReadAgents, ReadContainers, Poll, Press, PressEnds, MainChanges,
       AgentChanges
  <2> QED BY <2>1 DEF Discovered
<1>7. CASE UNCHANGED vars
  BY <1>7 DEF vars, Discovered
<1> QED BY <1>1, <1>2, <1>3, <1>4, <1>5, <1>6, <1>7 DEF Next, RefreshStep

\* The invariant of an entry holds in every reachable state.
THEOREM EntrySafe == Spec => []EntryInv
<1>1. Init => EntryInv
  BY InitEntry
<1>2. EntryInv /\ [Next]_vars => EntryInv'
  BY NextEntry
<1> QED BY <1>1, <1>2, PTL DEF Spec

\* The coordinator, the platforms and the refreshes keep their types; a
\* platform never listens on a coordinator without data.
THEOREM TypeCorrect == Spec => []TypeOK
BY EntrySafe, PTL DEF EntryInv

\* If every setup finds main, all that main reports has its entities.
THEOREM DiscoverySafe == ASSUME FirstPollSucceeds PROVE Spec => []Discovered
<1>1. Init => DiscoveryInv
  BY InitEntry
<1>2. EntryInv /\ DiscoveryInv /\ [Next]_vars => DiscoveryInv'
  BY NextDiscovery
<1>3. DiscoveryInv => Discovered
  BY DEF DiscoveryInv
<1> QED BY <1>1, <1>2, <1>3, EntrySafe, PTL DEF Spec
----------------------------------------------------------------------------

\* All that hides the entities while main answers as it should: an agent of
\* the report that is being read which is slow with its containers, or came
\* with a table that raises.  Offline agents, agents whose containers main
\* answers 502 for, and agents of other entries hide nothing.
THEOREM WhatHides ==
  Spec => [][ok /\ ~ok' =>
                \/ main # "up"
                \/ \E s \in Slots, a \in Agents :
                      a \in DOMAIN snap[s] /\ (mood[a] = "slow" \/ a \in bad[s])]_vars
<1> DEFINE Hides == \/ main # "up"
                    \/ \E s \in Slots, a \in Agents :
                          a \in DOMAIN snap[s] /\ (mood[a] = "slow" \/ a \in bad[s])
<1>1. ASSUME TypeOK, NEW r \in Slots, RefreshFails(r) PROVE Hides
  <2>1. CASE main # "up"
    BY <2>1
  <2>2. CASE main = "up"
    <3>1. PICK a \in todo[r] : a \in bad[r] \/ mood[a] = "slow"
      BY <1>1, <2>2 DEF RefreshFails, Unanswered
    <3>2. a \in Agents /\ a \in DOMAIN snap[r]
      BY <1>1 DEF TypeOK
    <3> QED BY <3>1, <3>2
  <2> QED BY <2>1, <2>2
<1>2. ASSUME Next, \A s \in Slots : ~RefreshFails(s) PROVE ok' = ok \/ ok'
  BY <1>2, Zenon DEF Next, RefreshStep, ReadAgents, ReadContainers, RefreshDone, Setup,
     SetupPlatform, Poll, Press, PressEnds, Unload, MainChanges, AgentChanges
<1>3. TypeOK /\ [Next]_vars => [ok /\ ~ok' => Hides]_vars
  BY <1>1, <1>2 DEF vars
<1> QED BY <1>3, TypeCorrect, PTL DEF Spec

----------------------------------------------------------------------------
(* What an entry that has settled goes on showing.                         *)

\* Main answers, its agents do nothing that a poll fails of, and the entry is
\* loaded.
Answering(m, L) == entry = "loaded" /\ main = "up" /\ mood = m /\ listed = L

\* What a complete poll finds then.
Found(m, L) == [a \in L |-> [online |-> m[a] # "offline", containers |-> m[a] = "online"]]

\* The entry shows that, and each refresh under way has read nothing else: of the
\* agents it has still to ask it has no containers.
ShowsFound(m, L) ==
    /\ ok /\ data = Found(m, L)
    /\ \A s \in Slots : stage[s] = "containers" =>
          /\ snap[s] = [a \in L |-> [online |-> m[a] # "offline",
                                    containers |-> a \notin todo[s] /\ m[a] = "online"]]
          /\ bad[s] = {}

\* What a refresh reads of a main that answers.
LEMMA ReadsFound ==
    ASSUME TypeOK, NEW m \in [Agents -> Harmless], NEW L \in SUBSET Agents,
           Answering(m, L), ShowsFound(m, L), NEW s \in Slots,
           ReadAgents(s) \/ \E a \in Agents : ReadContainers(s, a)
    PROVE  ShowsFound(m, L)'
<1> DEFINE Half(left) == [a \in L |-> [online |-> m[a] # "offline",
                                      containers |-> a \notin left /\ m[a] = "online"]]
<1>1. CASE ReadAgents(s)
  <2>1. [a \in listed |-> [online |-> mood[a] # "offline", containers |-> FALSE]] = Half(L)
    BY DEF Answering
  <2>2. snap' = [snap EXCEPT ![s] = Half(L)] /\ todo' = [todo EXCEPT ![s] = L]
    BY <1>1, <2>1 DEF ReadAgents, Answering
  <2>3. stage' = [stage EXCEPT ![s] = "containers"] /\ UNCHANGED <<ok, data>>
    BY <1>1 DEF ReadAgents
  <2>4. bad' = [bad EXCEPT ![s] = {}]
    BY <1>1 DEF ReadAgents, Answering, Harmless
  <2>5. ASSUME NEW r \in Slots, stage'[r] = "containers"
        PROVE  snap'[r] = Half(todo'[r]) /\ bad'[r] = {}
    <3>1. CASE r = s
      BY <2>2, <2>4, <3>1 DEF TypeOK
    <3>2. CASE r # s
      <4>1. /\ snap'[r] = snap[r] /\ todo'[r] = todo[r] /\ bad'[r] = bad[r]
            /\ stage[r] = "containers"
        BY <2>2, <2>3, <2>4, <2>5, <3>2
      <4> QED BY <4>1 DEF ShowsFound
    <3> QED BY <3>1, <3>2
  <2> QED BY <2>3, <2>5 DEF ShowsFound
<1>2. ASSUME NEW a \in Agents, ReadContainers(s, a) PROVE ShowsFound(m, L)'
  <2> DEFINE c == main = "up" /\ mood[a] \in {"online", "garbled"}
             left == todo[s] \ {a}
  <2>1. snap[s] = Half(todo[s]) /\ a \in todo[s] /\ todo[s] \subseteq L
    BY <1>2 DEF ReadContainers, ShowsFound, TypeOK
  <2>2. c = (m[a] = "online")
    BY DEF Answering, Harmless
  <2>3. ASSUME NEW b \in L
        PROVE  [Half(todo[s]) EXCEPT ![a].containers = c][b] = Half(left)[b]
    <3>1. CASE b = a
      BY <2>1, <2>2, <3>1
    <3>2. CASE b # a
      BY <2>1, <3>2
    <3> QED BY <3>1, <3>2
  <2>4. [Half(todo[s]) EXCEPT ![a].containers = c] = Half(left)
    BY <2>3
  <2>5. snap' = [snap EXCEPT ![s] = Half(left)] /\ todo' = [todo EXCEPT ![s] = left]
    BY <1>2, <2>1, <2>4 DEF ReadContainers
  <2>6. UNCHANGED <<stage, bad, ok, data>>
    BY <1>2 DEF ReadContainers
  <2>7. ASSUME NEW r \in Slots, stage'[r] = "containers"
        PROVE  snap'[r] = Half(todo'[r]) /\ bad'[r] = {}
    <3>1. CASE r = s
      <4>1. stage[s] = "containers" /\ bad'[s] = bad[s]
        BY <2>6, <2>7, <3>1
      <4> QED BY <2>5, <3>1, <4>1 DEF ShowsFound, TypeOK
    <3>2. CASE r # s
      <4>1. /\ snap'[r] = snap[r] /\ todo'[r] = todo[r] /\ bad'[r] = bad[r]
            /\ stage[r] = "containers"
        BY <2>5, <2>6, <2>7, <3>2
      <4> QED BY <4>1 DEF ShowsFound
    <3> QED BY <3>1, <3>2
  <2> QED BY <2>6, <2>7 DEF ShowsFound
<1> QED BY <1>1, <1>2

\* The end of a refresh of a main that answers: it does not fail, and it shows
\* what was found.
LEMMA EndsFound ==
    ASSUME TypeOK, NEW m \in [Agents -> Harmless], NEW L \in SUBSET Agents,
           Answering(m, L), ShowsFound(m, L), NEW s \in Slots,
           RefreshDone(s) \/ RefreshFails(s)
    PROVE  ShowsFound(m, L)'
<1>1. ~RefreshFails(s)
  <2>1. \A a \in todo[s] : ~Unanswered(a)
    BY DEF TypeOK, Answering, Harmless, Unanswered
  <2>2. stage[s] = "containers" => bad[s] = {}
    BY DEF ShowsFound
  <2> QED BY <2>1, <2>2 DEF RefreshFails, Answering
<1>2. RefreshDone(s) /\ EndRefresh(s)
  BY <1>1 DEF RefreshDone
<1>3. data' = Found(m, L) /\ ok'
  <2>1. snap[s] = [a \in L |-> [online |-> m[a] # "offline",
                               containers |-> a \notin todo[s] /\ m[a] = "online"]]
    BY <1>2 DEF RefreshDone, ShowsFound
  <2>2. todo[s] = {} /\ data' = snap[s] /\ ok'
    BY <1>2 DEF RefreshDone
  <2> QED BY <2>1, <2>2 DEF Found
<1>4. ASSUME NEW r \in Slots, stage'[r] = "containers"
      PROVE  /\ stage[r] = "containers" /\ snap'[r] = snap[r]
             /\ todo'[r] = todo[r] /\ bad'[r] = bad[r]
  BY <1>2, <1>4 DEF EndRefresh, TypeOK
<1> QED BY <1>3, <1>4 DEF ShowsFound, Found

\* A step from an entry that shows what main says leaves it so.
LEMMA FoundStep ==
    ASSUME TypeOK, NEW m \in [Agents -> Harmless], NEW L \in SUBSET Agents,
           Answering(m, L), ShowsFound(m, L), entry' = "loaded", [Next]_vars
    PROVE  ShowsFound(m, L)'
<1>1. ASSUME ok' = ok, data' = data, snap' = snap, todo' = todo, bad' = bad,
             \A s \in Slots : stage'[s] = "containers" => stage[s] = "containers"
      PROVE  ShowsFound(m, L)'
  BY <1>1 DEF ShowsFound, Found
<1>2. ~Setup /\ ~Unload
  BY DEF Setup, Unload, Answering
<1>3. CASE \/ Poll \/ Press \/ PressEnds \/ MainChanges \/ UNCHANGED vars
           \/ \E p \in Platforms : SetupPlatform(p)
           \/ \E a \in Agents : AgentChanges(a)
  BY <1>1, <1>3 DEF Poll, Press, PressEnds, BeginRefresh, MainChanges, SetupPlatform,
     AgentChanges, vars, fetch, TypeOK
<1> QED BY <1>2, <1>3, ReadsFound, EndsFound DEF Next, RefreshStep

\* The safe half of EventuallyShown: once the entry shows what main says and
\* no refresh under way has read anything else, it goes on showing it until
\* main, an agent or the entry changes: a refresh that began earlier, or one of
\* a press, does no harm.
THEOREM FoundStays ==
    Spec => \A m \in [Agents -> Harmless], L \in SUBSET Agents :
                [][Answering(m, L) /\ ShowsFound(m, L) /\ entry' = "loaded"
                      => ShowsFound(m, L)']_vars
<1> SUFFICES ASSUME NEW m \in [Agents -> Harmless], NEW L \in SUBSET Agents
             PROVE  Spec => [][Answering(m, L) /\ ShowsFound(m, L) /\ entry' = "loaded"
                                  => ShowsFound(m, L)']_vars
  OBVIOUS
<1>1. TypeOK /\ [Next]_vars => [Answering(m, L) /\ ShowsFound(m, L) /\ entry' = "loaded"
                                   => ShowsFound(m, L)']_vars
  BY FoundStep
<1> QED BY <1>1, TypeCorrect, PTL DEF Spec
=============================================================================
