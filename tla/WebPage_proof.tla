--------------------------- MODULE WebPage_proof ---------------------------
(***************************************************************************)
(* One page of the web panel, for any agents, containers, number of        *)
(* fetches and of events.                                                  *)
(*                                                                         *)
(* PageInv has the types and what each fetch may carry.  The rest is the   *)
(* safe half of the two convergence properties: a page that shows what is  *)
(* the case, with no older answer on its way, goes on to show it.          *)
(***************************************************************************)
EXTENDS WebPage, SequenceTheorems, TLAPS

\* The answer to a fetch is of the kind it asks for.
FetchesFit(g) ==
    /\ g \in [Fetches -> Fetch \cup {None}]
    /\ \A f \in Fetches : g[f] # None =>
          \/ g[f].ask = "list" /\ g[f].of \in Agents /\ g[f].answer \in Boxes \cup {None}
          \/ /\ g[f].ask \in {"refresh", "load"} /\ g[f].of = None
             /\ g[f].answer \in Statuses \cup {None}

\* The inductive invariant of a page.
PageInv == TypeOK /\ FetchesFit(fetch)

----------------------------------------------------------------------------
(* The types.                                                              *)

\* A request is a fetch without an answer.
LEMMA RequestFits ==
    ASSUME token \in BOOLEAN, NEW q \in Asks, NEW a \in Agents \cup {None}
    PROVE  /\ Request(q, a) \in Fetch
           /\ Request(q, a).ask = q /\ Request(q, a).of = a /\ Request(q, a).answer = None
BY DEF Request, Fetch, Asks

\* One fetch more, or a fetch that ends.
LEMMA PutFits ==
    ASSUME FetchesFit(fetch), token \in BOOLEAN, NEW f \in Fetches
    PROVE  /\ FetchesFit([fetch EXCEPT ![f] = None])
           /\ \A q \in {"refresh", "load"} : FetchesFit([fetch EXCEPT ![f] = Request(q, None)])
           /\ \A a \in Agents : FetchesFit([fetch EXCEPT ![f] = Request("list", a)])
<1>1. FetchesFit([fetch EXCEPT ![f] = None])
  BY DEF FetchesFit
<1>2. ASSUME NEW q \in {"refresh", "load"} PROVE FetchesFit([fetch EXCEPT ![f] = Request(q, None)])
  <2>1. q \in Asks
    BY DEF Asks
  <2> DEFINE r == Request(q, None)
  <2>2. r \in Fetch /\ r.ask = q /\ r.of = None /\ r.answer = None
    BY <2>1, RequestFits
  <2> HIDE DEF r
  <2>3. FetchesFit([fetch EXCEPT ![f] = r])
    BY <2>2 DEF FetchesFit
  <2> QED BY <2>3 DEF r
<1>3. ASSUME NEW a \in Agents PROVE FetchesFit([fetch EXCEPT ![f] = Request("list", a)])
  <2>1. "list" \in Asks
    BY DEF Asks
  <2> DEFINE r == Request("list", a)
  <2>2. r \in Fetch /\ r.ask = "list" /\ r.of = a /\ r.answer = None
    BY <2>1, RequestFits
  <2> HIDE DEF r
  <2>3. FetchesFit([fetch EXCEPT ![f] = r])
    BY <2>2 DEF FetchesFit
  <2> QED BY <2>3 DEF r
<1> QED BY <1>1, <1>2, <1>3

\* A page begins with two requests and shows nothing.
LEMMA InitPage == ASSUME Init PROVE PageInv
<1>1. token \in BOOLEAN /\ reach \in BOOLEAN
  BY Zenon DEF Init
<1>2. PICK f, g \in Fetches :
         fetch = [[x \in Fetches |-> None] EXCEPT ![f] = Request("refresh", None),
                                                 ![g] = Request("load", None)]
  BY DEF Init
<1>3. \A x \in Fetches : fetch[x] \in {None, Request("refresh", None), Request("load", None)}
  BY <1>2
<1>4. {"refresh", "load"} \subseteq Asks
  BY DEF Asks
<1>5. fetch \in [Fetches -> Fetch \cup {None}]
  BY <1>1, <1>2, <1>3, <1>4, RequestFits
<1>6. FetchesFit(fetch)
  BY <1>1, <1>3, <1>4, <1>5, RequestFits DEF FetchesFit
<1>7. TypeOK
  BY <1>1, <1>5, PageAssumption DEF Init, TypeOK
<1> QED BY <1>6, <1>7 DEF PageInv

\* A step that leaves the page's world, cards and panels alone keeps the types
\* if its fetches and its events do.
LEMMA FetchStepFits ==
    ASSUME PageInv, UNCHANGED <<worldVars, stream, cards, panel>>,
           events' = events \/ (events # <<>> /\ events' = Tail(events)),
           FetchesFit(fetch')
    PROVE  PageInv'
<1> USE DEF PageInv
<1>1. events' \in Seq(Kinds \X Agents) /\ Len(events') <= MaxEvents
  <2>1. events \in Seq(Kinds \X Agents) /\ Len(events) <= MaxEvents
    BY DEF TypeOK
  <2>2. CASE events' = events
    BY <2>1, <2>2, Zenon
  <2>3. CASE events # <<>> /\ events' = Tail(events)
    <3>1. events' \in Seq(Kinds \X Agents) /\ Len(events') = Len(events) - 1
      BY <2>1, <2>3, HeadTailProperties, Zenon
    <3>2. Len(events) \in Nat
      BY <2>1, LenProperties, Zenon
    <3> QED BY <2>1, <3>1, <3>2, PageAssumption
  <2> QED BY <2>2, <2>3, Zenon
<1>2. fetch' \in [Fetches -> Fetch \cup {None}]
  BY DEF FetchesFit
<1> QED BY <1>1, <1>2 DEF TypeOK, worldVars

\* What the page does by itself: the timer, events and the container buttons.
LEMMA AskingKeeps ==
    ASSUME PageInv, Tick \/ Message \/ \E a \in Agents : ContainerAction(a)
    PROVE  PageInv'
<1>0. FetchesFit(fetch) /\ token \in BOOLEAN /\ Free \subseteq Fetches
  BY DEF PageInv, TypeOK, Free
<1>1. CASE Tick
  BY <1>0, <1>1, PutFits, FetchStepFits DEF Tick
<1>2. CASE Message
  <2> DEFINE kind == Head(events)[1]
             a == Head(events)[2]
  <2>1. events # <<>> /\ a \in Agents
    BY <1>2 DEF Message, PageInv, TypeOK
  <2>2. PICK f, g \in Free :
           fetch' = IF Listed(kind)
                    THEN [fetch EXCEPT ![f] = Request("refresh", None), ![g] = Request("list", a)]
                    ELSE [fetch EXCEPT ![f] = Request("refresh", None)]
    BY <1>2 DEF Message
  <2> DEFINE once == [fetch EXCEPT ![f] = Request("refresh", None)]
             r == Request("list", a)
  <2>3. FetchesFit(once)
    BY <1>0, PutFits
  <2>4. r \in Fetch /\ r.ask = "list" /\ r.of = a /\ r.answer = None
    BY <1>0, <2>1, RequestFits DEF Asks
  <2>5. fetch' = IF Listed(kind) THEN [once EXCEPT ![g] = r] ELSE once
    BY <2>2
  <2> HIDE DEF once, r
  <2>6. FetchesFit([once EXCEPT ![g] = r])
    BY <1>0, <2>1, <2>3, <2>4 DEF FetchesFit
  <2>7. FetchesFit(fetch')
    BY <2>3, <2>5, <2>6
  <2> QED BY <1>2, <2>1, <2>7, FetchStepFits DEF Message
<1>3. ASSUME NEW a \in Agents, ContainerAction(a) PROVE PageInv'
  <2>1. PICK f \in Free : fetch' = [fetch EXCEPT ![f] = Request("list", a)]
    BY <1>3 DEF ContainerAction
  <2>2. FetchesFit(fetch')
    BY <1>0, <2>1, PutFits
  <2> QED BY <1>3, <2>2, FetchStepFits DEF ContainerAction
<1> QED BY <1>1, <1>2, <1>3

\* The token and the connections.
LEMMA ConnectingKeeps ==
    ASSUME PageInv, Save \/ StreamOpens \/ StreamBreaks \/ ReachChanges
    PROVE  PageInv'
<1> USE DEF PageInv, TypeOK, worldVars
<1>1. CASE Save
  <2>1. PICK f \in Fetches :
           fetch' = [fetch EXCEPT ![f] = [Request("refresh", None) EXCEPT !.key = TRUE]]
    BY <1>1 DEF Save, Free
  <2> DEFINE r == [Request("refresh", None) EXCEPT !.key = TRUE]
  <2>2. r \in Fetch /\ r.ask = "refresh" /\ r.of = None /\ r.answer = None
    BY DEF Request, Fetch, Asks
  <2> HIDE DEF r
  <2>3. fetch' = [fetch EXCEPT ![f] = r]
    BY <2>1 DEF r
  <2>4. FetchesFit(fetch')
    BY <2>2, <2>3 DEF FetchesFit
  <2>5. fetch' \in [Fetches -> Fetch \cup {None}]
    BY <2>4 DEF FetchesFit
  <2>6. token' \in BOOLEAN
    BY <1>1, Zenon DEF Save
  <2>7. /\ UNCHANGED <<reach, status, boxes, cards, panel>>
        /\ stream' = "lost" /\ events' = <<>>
    BY <1>1 DEF Save
  <2> QED BY <2>4, <2>5, <2>6, <2>7, PageAssumption
<1>2. CASE StreamOpens
  BY <1>2 DEF StreamOpens
<1>3. CASE StreamBreaks
  BY <1>3, PageAssumption DEF StreamBreaks
<1>4. CASE ReachChanges
  <2>1. reach' \in BOOLEAN
    BY <1>4, Zenon DEF ReachChanges
  <2> QED BY <1>4, <2>1, PageAssumption DEF ReachChanges
<1> QED BY <1>1, <1>2, <1>3, <1>4

\* A fetch fails, or main answers it.
LEMMA AnsweringKeeps ==
    ASSUME PageInv, NEW f \in Fetches, Fails(f) \/ Answers(f)
    PROVE  PageInv'
<1>0. FetchesFit(fetch) /\ token \in BOOLEAN
  BY DEF PageInv, TypeOK
<1>1. CASE Fails(f)
  BY <1>0, <1>1, PutFits, FetchStepFits DEF Fails
<1>2. CASE Answers(f)
  <2>1. fetch[f] \in Fetch
    BY <1>0, <1>2 DEF Answers, FetchesFit
  <2>2. ASSUME NEW x \in Statuses \cup Boxes, fetch' = [fetch EXCEPT ![f].answer = x],
               IF fetch[f].ask = "list" THEN x \in Boxes ELSE x \in Statuses
        PROVE  FetchesFit(fetch')
    <3> DEFINE r == [fetch[f] EXCEPT !.answer = x]
    <3>1. r \in Fetch /\ r.ask = fetch[f].ask /\ r.of = fetch[f].of /\ r.answer = x
      BY <2>1 DEF Fetch
    <3> HIDE DEF r
    <3>2. fetch' = [fetch EXCEPT ![f] = r]
      BY <2>2 DEF r
    <3>3. fetch[f] # None
      BY <1>2 DEF Answers
    <3> QED BY <1>0, <2>2, <3>1, <3>2, <3>3 DEF FetchesFit
  <2>3. status \in Statuses /\ \A a \in Agents : boxes[a] \in Boxes
    BY DEF PageInv, TypeOK
  <2>4. FetchesFit(fetch')
    BY <1>2, <2>2, <2>3 DEF Answers, IsFor
  <2> QED BY <1>2, <2>4, FetchStepFits DEF Answers
<1> QED BY <1>1, <1>2

\* An answer arrives.
LEMMA ArrivingKeeps ==
    ASSUME PageInv, NEW f \in Fetches,
           RefreshArrives(f) \/ LoadArrives(f) \/ \E a \in Agents : ListArrives(f, a)
    PROVE  PageInv'
<1>0. FetchesFit(fetch) /\ token \in BOOLEAN
  BY DEF PageInv, TypeOK
<1>1. CASE RefreshArrives(f)
  <2>1. cards' \in Statuses /\ UNCHANGED <<worldVars, stream, events, panel>>
    BY <1>0, <1>1 DEF RefreshArrives, IsFor, Answered, FetchesFit
  <2>2. cards' \in [Agents -> {"online", "offline", None}] /\ \A a \in Agents : cards'[a] # None
    BY <2>1, PageAssumption DEF Statuses
  <2>3. FetchesFit(fetch')
    BY <1>0, <1>1, PutFits DEF RefreshArrives
  <2>4. fetch' \in [Fetches -> Fetch \cup {None}]
    BY <2>3 DEF FetchesFit
  <2> QED BY <2>1, <2>2, <2>3, <2>4 DEF PageInv, TypeOK, worldVars
<1>2. CASE LoadArrives(f)
  <2> DEFINE up == {a \in Agents : fetch[f].answer[a] = "online"}
  <2>1. PICK slot \in [up -> Free \cup {f}] :
           fetch' = [x \in Fetches |->
                        IF \E a \in up : slot[a] = x
                        THEN Request("list", CHOOSE a \in up : slot[a] = x)
                        ELSE IF x = f THEN None ELSE fetch[x]]
    BY <1>2 DEF LoadArrives
  <2>2. \A a \in Agents : /\ Request("list", a) \in Fetch
                          /\ Request("list", a).ask = "list" /\ Request("list", a).of = a
                          /\ Request("list", a).answer = None
    BY <1>0, RequestFits DEF Asks
  <2>3. \A x \in Fetches : \/ fetch'[x] \in {None, fetch[x]}
                           \/ \E a \in Agents : fetch'[x] = Request("list", a)
    BY <2>1
  <2>4. FetchesFit(fetch')
    <3>1. fetch' \in [Fetches -> Fetch \cup {None}]
      BY <1>0, <2>1, <2>2, <2>3 DEF FetchesFit
    <3> QED BY <1>0, <2>2, <2>3, <3>1 DEF FetchesFit
  <2> QED BY <1>2, <2>4, FetchStepFits DEF LoadArrives
<1>3. ASSUME NEW a \in Agents, ListArrives(f, a) PROVE PageInv'
  <2>1. fetch[f].answer \in Boxes /\ UNCHANGED <<worldVars, stream, events, cards>>
    BY <1>0, <1>3 DEF ListArrives, IsFor, Answered, FetchesFit
  <2>2. /\ panel' \in [Agents -> Boxes \cup {None}]
        /\ \A b \in Agents : panel'[b] # None => cards[b] # None
    BY <1>3, <2>1 DEF ListArrives, PageInv, TypeOK
  <2>3. FetchesFit(fetch')
    BY <1>0, <1>3, PutFits DEF ListArrives
  <2>4. fetch' \in [Fetches -> Fetch \cup {None}]
    BY <2>3 DEF FetchesFit
  <2> QED BY <2>1, <2>2, <2>3, <2>4 DEF PageInv, TypeOK, worldVars
<1> QED BY <1>1, <1>2, <1>3

\* Main and the hosts.
LEMMA WorldKeeps ==
    ASSUME PageInv, NEW a \in Agents, StatusChanges(a) \/ OtherEvent(a) \/ BoxesChange(a)
    PROVE  PageInv'
<1> USE DEF PageInv, TypeOK, worldVars
<1>1. ASSUME NEW kind \in Kinds, Emit(kind, a)
      PROVE  /\ events' \in Seq(Kinds \X Agents) /\ Len(events') <= MaxEvents
             /\ stream # "open" => events' = <<>>
  BY <1>1, PageAssumption DEF Emit
<1>2. CASE StatusChanges(a)
  <2>1. status' \in Statuses
    BY <1>2 DEF StatusChanges, Statuses
  <2>2. status'[a] \in Kinds
    BY <2>1 DEF Statuses, Kinds
  <2> QED BY <1>1, <1>2, <2>1, <2>2 DEF StatusChanges
<1>3. CASE OtherEvent(a)
  BY <1>1, <1>3 DEF OtherEvent, Kinds
<1>4. CASE BoxesChange(a)
  BY <1>4 DEF BoxesChange
<1> QED BY <1>2, <1>3, <1>4

\* Every step keeps the invariant of a page.
LEMMA NextPage == ASSUME PageInv, [Next]_vars PROVE PageInv'
<1>1. CASE Next
  BY <1>1, AskingKeeps, ConnectingKeeps, AnsweringKeeps, ArrivingKeeps, WorldKeeps
  DEF Next, Settles
<1>2. CASE UNCHANGED vars
  BY <1>2 DEF vars, PageInv, TypeOK, FetchesFit
<1> QED BY <1>1, <1>2

\* The invariant holds in every reachable state.
THEOREM PageSafe == Spec => []PageInv
<1>1. Init => PageInv
  BY InitPage
<1>2. PageInv /\ [Next]_vars => PageInv'
  BY NextPage
<1> QED BY <1>1, <1>2, PTL DEF Spec

\* A page keeps its types, shows containers only on a card, and holds
\* events only while its stream is open.
THEOREM TypeCorrect == Spec => []TypeOK
BY PageSafe, PTL DEF PageInv

----------------------------------------------------------------------------
(* What a page that has settled goes on showing.                           *)

\* The badges are m, and so is every answer to refresh on its way.
CardsSettled(m) ==
    /\ cards = m
    /\ \A f \in Fetches : IsFor(f, "refresh", None) /\ Answered(f) => fetch[f].answer = m

\* The containers of an agent are shown as b, and so has it every list on its way.
PanelSettled(a, b) ==
    /\ panel[a] = b
    /\ \A f \in Fetches : IsFor(f, "list", a) /\ Answered(f) => fetch[f].answer = b

\* A new request has no answer yet.
LEMMA RequestUnanswered == \A q, a : Request(q, a).answer = None
BY DEF Request

\* An answer that is on its way has been before, or main gives it now, with what
\* is the case now.
LEMMA AnswersAreNew ==
    ASSUME PageInv, [Next]_vars, NEW f \in Fetches, fetch'[f] # None, fetch'[f].answer # None
    PROVE  \/ fetch'[f] = fetch[f]
           \/ fetch'[f].ask \in {"refresh", "load"} /\ fetch'[f].answer = status
           \/ fetch'[f].ask = "list" /\ fetch'[f].answer = boxes[fetch'[f].of]
<1>0. fetch \in [Fetches -> Fetch \cup {None}] /\ Free \subseteq Fetches
  BY DEF PageInv, TypeOK, Free
<1>1. ASSUME NEW g \in Fetches, NEW r, r = None \/ r.answer = None,
             fetch' = [fetch EXCEPT ![g] = r]
      PROVE  fetch'[f] = fetch[f]
  BY <1>0, <1>1
<1>2. CASE Tick \/ \E a \in Agents : ContainerAction(a)
  BY <1>0, <1>1, <1>2, RequestUnanswered DEF Tick, ContainerAction
<1>3. CASE Save
  <2>1. PICK g \in Fetches :
           fetch' = [fetch EXCEPT ![g] = [Request("refresh", None) EXCEPT !.key = TRUE]]
    BY <1>0, <1>3 DEF Save
  <2>2. [Request("refresh", None) EXCEPT !.key = TRUE].answer = None
    BY DEF Request
  <2> QED BY <1>1, <2>1, <2>2
<1>4. CASE Message
  <2>1. PICK g, h \in Free :
           fetch' \in {[fetch EXCEPT ![g] = Request("refresh", None),
                                    ![h] = Request("list", Head(events)[2])],
                      [fetch EXCEPT ![g] = Request("refresh", None)]}
    BY <1>4 DEF Message
  <2> QED BY <1>0, <2>1, RequestUnanswered
<1>5. ASSUME NEW g \in Fetches, Fails(g) \/ RefreshArrives(g) \/ \E a \in Agents : ListArrives(g, a)
      PROVE  fetch'[f] = fetch[f]
  <2>1. fetch' = [fetch EXCEPT ![g] = None]
    BY <1>5 DEF Fails, RefreshArrives, ListArrives
  <2> QED BY <1>1, <2>1
<1>6. ASSUME NEW g \in Fetches, LoadArrives(g) PROVE fetch'[f] = fetch[f]
  <2> DEFINE up == {a \in Agents : fetch[g].answer[a] = "online"}
  <2>1. PICK slot \in [up -> Free \cup {g}] :
           fetch' = [x \in Fetches |->
                        IF \E a \in up : slot[a] = x
                        THEN Request("list", CHOOSE a \in up : slot[a] = x)
                        ELSE IF x = g THEN None ELSE fetch[x]]
    BY <1>6 DEF LoadArrives
  <2> QED BY <2>1, RequestUnanswered
<1>7. ASSUME NEW g \in Fetches, Answers(g), fetch'[f] # fetch[f]
      PROVE  \/ fetch'[f].ask \in {"refresh", "load"} /\ fetch'[f].answer = status
             \/ fetch'[f].ask = "list" /\ fetch'[f].answer = boxes[fetch'[f].of]
  <2>1. fetch[g] \in Fetch
    BY <1>0, <1>7 DEF Answers
  <2>2. PICK x : /\ fetch' = [fetch EXCEPT ![g].answer = x]
                 /\ \/ fetch[g].ask \in {"refresh", "load"} /\ x = status
                    \/ fetch[g].ask = "list" /\ x = boxes[fetch[g].of]
    BY <1>7 DEF Answers, IsFor
  <2>3. f = g /\ fetch'[g] = [fetch[g] EXCEPT !.answer = x]
    BY <1>0, <1>7, <2>2
  <2>4. fetch'[g].ask = fetch[g].ask /\ fetch'[g].of = fetch[g].of /\ fetch'[g].answer = x
    BY <2>1, <2>3 DEF Fetch
  <2> QED BY <2>2, <2>3, <2>4
<1>8. CASE \/ StreamOpens \/ StreamBreaks \/ ReachChanges \/ UNCHANGED vars
           \/ \E a \in Agents : StatusChanges(a) \/ OtherEvent(a) \/ BoxesChange(a)
  BY <1>8 DEF StreamOpens, StreamBreaks, ReachChanges, StatusChanges, OtherEvent, BoxesChange, vars
<1> QED BY <1>2, <1>3, <1>4, <1>5, <1>6, <1>7, <1>8 DEF Next, Settles

\* Only an answer changes what the page shows.
LEMMA OnlyAnswersShow ==
    ASSUME [Next]_vars
    PROVE  /\ \/ cards' = cards
              \/ \E f \in Fetches : RefreshArrives(f)
           /\ \/ panel' = panel
              \/ \E f \in Fetches, a \in Agents : ListArrives(f, a)
<1>1. ASSUME NEW f \in Fetches, Settles(f)
      PROVE  /\ cards' = cards \/ RefreshArrives(f)
             /\ panel' = panel \/ \E a \in Agents : ListArrives(f, a)
  BY <1>1 DEF Settles, Fails, Answers, RefreshArrives, LoadArrives, ListArrives
<1> QED BY <1>1 DEF Next, vars, Tick, Save, StreamOpens, StreamBreaks, Message, ReachChanges,
        ContainerAction, StatusChanges, OtherEvent, BoxesChange

\* A step from badges that are settled leaves them so, as long as main says the same.
LEMMA CardsStep ==
    ASSUME PageInv, [Next]_vars, NEW m, CardsSettled(m), status = m
    PROVE  CardsSettled(m)'
<1>1. cards' = m
  BY OnlyAnswersShow DEF RefreshArrives, CardsSettled
<1>2. ASSUME NEW f \in Fetches, (IsFor(f, "refresh", None) /\ Answered(f))'
      PROVE  fetch'[f].answer = m
  <2>1. fetch'[f] # None /\ fetch'[f].ask = "refresh" /\ fetch'[f].of = None /\ fetch'[f].answer # None
    BY <1>2 DEF IsFor, Answered
  <2>2. fetch'[f] = fetch[f] \/ fetch'[f].answer = status
    BY <2>1, AnswersAreNew
  <2> QED BY <2>1, <2>2 DEF CardsSettled, IsFor, Answered
<1> QED BY <1>1, <1>2 DEF CardsSettled

\* A step from a panel that is settled leaves it so, as long as the containers
\* are the same.
LEMMA PanelStep ==
    ASSUME PageInv, [Next]_vars, NEW a \in Agents, NEW b, PanelSettled(a, b), boxes[a] = b
    PROVE  PanelSettled(a, b)'
<1>1. panel'[a] = b
  BY OnlyAnswersShow DEF ListArrives, PanelSettled, PageInv, TypeOK
<1>2. ASSUME NEW f \in Fetches, (IsFor(f, "list", a) /\ Answered(f))'
      PROVE  fetch'[f].answer = b
  <2>1. fetch'[f] # None /\ fetch'[f].ask = "list" /\ fetch'[f].of = a /\ fetch'[f].answer # None
    BY <1>2 DEF IsFor, Answered
  <2>2. fetch'[f] = fetch[f] \/ fetch'[f].answer = boxes[a]
    BY <2>1, AnswersAreNew
  <2> QED BY <2>1, <2>2 DEF PanelSettled, IsFor, Answered
<1> QED BY <1>1, <1>2 DEF PanelSettled

\* The safe half of CardsConverge: once the badges show what main says and no
\* older answer to refresh is on its way, nothing but a change at main alters them,
\* however refreshes overlap, fetches fail and events get lost.
THEOREM CardsStay ==
    Spec => \A m \in Statuses : [][CardsSettled(m) /\ status = m => CardsSettled(m)']_vars
<1> SUFFICES ASSUME NEW m \in Statuses
             PROVE  Spec => [][CardsSettled(m) /\ status = m => CardsSettled(m)']_vars
  OBVIOUS
<1>1. PageInv /\ [Next]_vars => [CardsSettled(m) /\ status = m => CardsSettled(m)']_vars
  BY CardsStep
<1> QED BY <1>1, PageSafe, PTL DEF Spec

\* The safe half of PanelConverges: once a panel shows the containers of its agent
\* and no older list is on its way, only a change of the containers alters it.
THEOREM PanelStays ==
    Spec => \A a \in Agents, b \in Boxes :
                [][PanelSettled(a, b) /\ boxes[a] = b => PanelSettled(a, b)']_vars
<1> SUFFICES ASSUME NEW a \in Agents, NEW b \in Boxes
             PROVE  Spec => [][PanelSettled(a, b) /\ boxes[a] = b => PanelSettled(a, b)']_vars
  OBVIOUS
<1>1. PageInv /\ [Next]_vars => [PanelSettled(a, b) /\ boxes[a] = b => PanelSettled(a, b)']_vars
  BY PanelStep
<1> QED BY <1>1, PageSafe, PTL DEF Spec
=============================================================================
