------------------------------ MODULE WebPage ------------------------------
(***************************************************************************)
(* One open page of the web panel, src/main/web/app.js: its fetches, its   *)
(* event stream, and the cards and container panels they fill.             *)
(*                                                                         *)
(* JavaScript runs one callback at a time.  Fetches run side by side: main *)
(* answers them in any order, with what it knows at that moment, and the   *)
(* answers arrive in any order.  Events of one stream arrive in order.     *)
(* EventStream shows that an event reaches the streams there are; those    *)
(* sent while the page has none are never sent again.                      *)
(***************************************************************************)
EXTENDS Naturals, Sequences

CONSTANTS
    Agents,     \* the configured agents
    Boxes,      \* what the containers of an agent can be
    None,       \* nothing shown, no fetch, no answer
    Fetches,    \* bound: fetches under way at once (the browser has one too)
    MaxEvents   \* bound: events under way to the page

ASSUME PageAssumption ==
    None \notin Boxes \cup Agents \cup {"online", "offline"} /\ MaxEvents \in Nat

VARIABLES
    token,      \* is main's token in the browser's storage?
    reach,      \* can the browser reach main?
    status,     \* main's view of an agent: "online" or "offline"
    boxes,      \* the containers on the host
    stream,     \* the EventSource: "none", "lost" (connects again), "open"
    events,     \* events under way in it
    fetch,      \* a fetch: what it asks for and what main answered
    cards,      \* the badge on the card of an agent
    panel       \* the containers shown on a card

worldVars == <<token, reach, status, boxes>>
vars == <<token, reach, status, boxes, stream, events, fetch, cards, panel>>

\* refresh, the request at the end of the script, and refreshContainers.
Asks == {"refresh", "load", "list"}
Statuses == [Agents -> {"online", "offline"}]
Fetch == [ask : Asks, of : Agents \cup {None}, key : BOOLEAN,
          answer : Statuses \cup Boxes \cup {None}]
Kinds == {"telemetry", "online", "offline", "action", "wake"}

Free == {f \in Fetches : fetch[f] = None}
Request(q, a) == [ask |-> q, of |-> a, key |-> token, answer |-> None]
IsFor(f, q, a) == fetch[f] # None /\ fetch[f].ask = q /\ fetch[f].of = a
Answered(f) == fetch[f].answer # None

Init ==
    /\ token \in BOOLEAN /\ reach = TRUE
    /\ status \in Statuses
    /\ boxes \in [Agents -> Boxes]
    /\ stream = IF token THEN "lost" ELSE "none"
    /\ events = <<>>
    /\ \E f, g \in Fetches :
          f # g /\ fetch = [[x \in Fetches |-> None] EXCEPT ![f] = Request("refresh", None),
                                                            ![g] = Request("load", None)]
    /\ cards = [a \in Agents |-> None]
    /\ panel = [a \in Agents |-> None]

----------------------------------------------------------------------------
(* The page.                                                               *)

\* setInterval(refresh, 5000), whatever became of the refreshes before.
Tick ==
    /\ \E f \in Free : fetch' = [fetch EXCEPT ![f] = Request("refresh", None)]
    /\ UNCHANGED <<worldVars, stream, events, cards, panel>>

\* The token is entered and saved: a new EventSource, and a refresh.
Save ==
    /\ token' = TRUE
    /\ stream' = "lost" /\ events' = <<>>
    /\ \E f \in Free :
          fetch' = [fetch EXCEPT ![f] = [Request("refresh", None) EXCEPT !.key = TRUE]]
    /\ UNCHANGED <<reach, status, boxes, cards, panel>>

\* The EventSource connects, at first or again.
StreamOpens ==
    /\ stream = "lost" /\ reach
    /\ stream' = "open"
    /\ UNCHANGED <<worldVars, events, fetch, cards, panel>>

StreamBreaks ==
    /\ stream = "open"
    /\ stream' = "lost" /\ events' = <<>>
    /\ UNCHANGED <<worldVars, fetch, cards, panel>>

\* Events after which onmessage asks for the containers as well.
Listed(kind) == kind \in {"online", "action"}

\* onmessage: a refresh, and for some events the containers of the agent.
Message ==
    /\ events # <<>>
    /\ LET kind == Head(events)[1]
           a    == Head(events)[2]
       IN  \E f, g \in Free :
              /\ Listed(kind) => f # g
              /\ fetch' = IF Listed(kind)
                          THEN [fetch EXCEPT ![f] = Request("refresh", None),
                                             ![g] = Request("list", a)]
                          ELSE [fetch EXCEPT ![f] = Request("refresh", None)]
    /\ events' = Tail(events)
    /\ UNCHANGED <<worldVars, stream, cards, panel>>

\* The POST of a container button is answered: the containers are asked for.
\* What it did to them is a BoxesChange, its event an OtherEvent.
ContainerAction(a) ==
    /\ panel[a] # None
    /\ \E f \in Free : fetch' = [fetch EXCEPT ![f] = Request("list", a)]
    /\ UNCHANGED <<worldVars, stream, events, cards, panel>>

\* A request fails: no connection, 401, or for containers a 503 (the agent is
\* offline) or a 502 (it does not answer in time, its connection breaks, or it
\* has no list).  refresh says so, the others are dropped.
Fails(f) ==
    /\ fetch[f] # None
    /\ \/ ~reach
       \/ ~fetch[f].key
       \/ fetch[f].ask = "list" /\ ~Answered(f)
    /\ fetch' = [fetch EXCEPT ![f] = None]
    /\ UNCHANGED <<worldVars, stream, events, cards, panel>>

\* A slip: only a new card gets its badge.
RefreshArrivesOnce(f) ==
    /\ IsFor(f, "refresh", None) /\ Answered(f)
    /\ cards' = [a \in Agents |-> IF cards[a] = None THEN fetch[f].answer[a] ELSE cards[a]]
    /\ fetch' = [fetch EXCEPT ![f] = None]
    /\ UNCHANGED <<worldVars, stream, events, panel>>

\* An answer to refresh arrives: each agent has its card, with its badge.
RefreshArrives(f) ==
    /\ IsFor(f, "refresh", None) /\ Answered(f)
    /\ cards' = fetch[f].answer
    /\ fetch' = [fetch EXCEPT ![f] = None]
    /\ UNCHANGED <<worldVars, stream, events, panel>>

\* The answer to the request at the end of the script arrives: the containers
\* of every agent that is online are asked for.
LoadArrives(f) ==
    /\ IsFor(f, "load", None) /\ Answered(f)
    /\ LET up == {a \in Agents : fetch[f].answer[a] = "online"}
       IN  \E slot \in [up -> Free \cup {f}] :
              /\ \A a, b \in up : slot[a] = slot[b] => a = b
              /\ fetch' = [x \in Fetches |->
                              IF \E a \in up : slot[a] = x
                              THEN Request("list", CHOOSE a \in up : slot[a] = x)
                              ELSE IF x = f THEN None ELSE fetch[x]]
    /\ UNCHANGED <<worldVars, stream, events, cards, panel>>

\* A slip: a panel that shows something is left alone.
ListArrivesOnce(f, a) ==
    /\ IsFor(f, "list", a) /\ Answered(f)
    /\ panel' = IF cards[a] # None /\ panel[a] = None
                THEN [panel EXCEPT ![a] = fetch[f].answer] ELSE panel
    /\ fetch' = [fetch EXCEPT ![f] = None]
    /\ UNCHANGED <<worldVars, stream, events, cards>>

\* A slip: the card is taken for granted.
ListArrivesAnyway(f, a) ==
    /\ IsFor(f, "list", a) /\ Answered(f)
    /\ panel' = [panel EXCEPT ![a] = fetch[f].answer]
    /\ fetch' = [fetch EXCEPT ![f] = None]
    /\ UNCHANGED <<worldVars, stream, events, cards>>

\* The containers of an agent arrive.  Without a card they are dropped.
ListArrives(f, a) ==
    /\ IsFor(f, "list", a) /\ Answered(f)
    /\ panel' = IF cards[a] # None
                THEN [panel EXCEPT ![a] = fetch[f].answer] ELSE panel
    /\ fetch' = [fetch EXCEPT ![f] = None]
    /\ UNCHANGED <<worldVars, stream, events, cards>>

----------------------------------------------------------------------------
(* Main and the hosts.                                                     *)

\* An event is written to the stream, if there is one.
Emit(kind, a) ==
    /\ Len(events) < MaxEvents
    /\ events' = IF stream = "open" THEN Append(events, <<kind, a>>) ELSE events

\* Main answers a fetch: from its registry, or with what the host says of its
\* containers.
Answers(f) ==
    /\ fetch[f] # None /\ ~Answered(f) /\ reach /\ fetch[f].key
    /\ \/ /\ fetch[f].ask \in {"refresh", "load"}
          /\ fetch' = [fetch EXCEPT ![f].answer = status]
       \/ \E a \in Agents :
             /\ IsFor(f, "list", a) /\ status[a] = "online"
             /\ fetch' = [fetch EXCEPT ![f].answer = boxes[a]]
    /\ UNCHANGED <<worldVars, stream, events, cards, panel>>

\* An agent comes or goes, and main tells the streams.
StatusChanges(a) ==
    /\ status' = [status EXCEPT ![a] = IF @ = "online" THEN "offline" ELSE "online"]
    /\ Emit(status'[a], a)
    /\ UNCHANGED <<token, reach, boxes, stream, fetch, cards, panel>>

\* Readings of an agent, or the actions of other operators.
OtherEvent(a) ==
    /\ \E kind \in {"telemetry", "action", "wake"} : Emit(kind, a)
    /\ UNCHANGED <<worldVars, stream, fetch, cards, panel>>

\* Containers start and stop by themselves and by other operators.
BoxesChange(a) ==
    /\ boxes' \in {[boxes EXCEPT ![a] = b] : b \in Boxes}
    /\ UNCHANGED <<token, reach, status, stream, events, fetch, cards, panel>>

\* The browser's network, or main, goes and comes back.
ReachChanges ==
    /\ reach' = ~reach
    /\ stream' = IF stream = "open" THEN "lost" ELSE stream
    /\ events' = <<>>
    /\ UNCHANGED <<token, status, boxes, fetch, cards, panel>>

----------------------------------------------------------------------------

Settles(f) ==
    \/ Fails(f) \/ Answers(f) \/ RefreshArrives(f) \/ LoadArrives(f)
    \/ \E a \in Agents : ListArrives(f, a)

Next ==
    \/ Tick \/ Save \/ StreamOpens \/ StreamBreaks \/ Message \/ ReachChanges
    \/ \E f \in Fetches : Settles(f)
    \/ \E a \in Agents : ContainerAction(a) \/ StatusChanges(a) \/ OtherEvent(a) \/ BoxesChange(a)

Spec == Init /\ [][Next]_vars

\* Fetches end, the timer fires, events are handled, the EventSource connects.
Fairness ==
    /\ \A f \in Fetches : WF_vars(Settles(f))
    /\ SF_vars(Tick) /\ SF_vars(Message) /\ WF_vars(StreamOpens)

FairSpec == Spec /\ Fairness

----------------------------------------------------------------------------

TypeOK ==
    /\ token \in BOOLEAN /\ reach \in BOOLEAN
    /\ status \in Statuses /\ boxes \in [Agents -> Boxes]
    /\ stream \in {"none", "lost", "open"}
    /\ events \in Seq(Kinds \X Agents) /\ Len(events) <= MaxEvents
    /\ fetch \in [Fetches -> Fetch \cup {None}]
    /\ cards \in [Agents -> {"online", "offline", None}]
    /\ panel \in [Agents -> Boxes \cup {None}]
    /\ stream # "open" => events = <<>>
    /\ \A a \in Agents : panel[a] # None => cards[a] # None

\* If main comes to rest within reach, the badges come to show what it says,
\* for good: though refreshes overlap and an older answer may overwrite a
\* newer one, events get lost, and fetches fail (app.js:263).
CardsConverge ==
    \A m \in Statuses :
        <>[](token /\ reach /\ status = m) => <>[](cards = m)

\* Has main answered a request for the containers of an agent with a list?
ListGiven(a) == \E f \in Fetches : IsFor(f, "list", a) /\ Answered(f)

\* If an agent's containers come to rest, and main answers requests for them
\* with the list time and again, the page comes to show them, for good, whatever
\* older answers come in late and whichever requests fail (app.js:177).  No timer
\* of the page repeats a request that failed: that more follow, and that main
\* has the list for some, is a premise.
PanelConverges ==
    \A a \in Agents, b \in Boxes :
        /\ <>[](token /\ reach /\ boxes[a] = b)
        /\ []<>ListGiven(a)
        => <>[](panel[a] = b)
============================================================================
