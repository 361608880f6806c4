---------------------------- MODULE EventStream ----------------------------
(***************************************************************************)
(* The event stream from main to the browsers: `Main.broadcast` and        *)
(* `Main.api_stream` in src/main/main.py, and `connectSSE` in              *)
(* src/main/web/app.js.                                                    *)
(*                                                                         *)
(* Any coroutine of main may broadcast, several at once.  A write to a     *)
(* browser that reads its stream does not suspend; one to a browser that   *)
(* does not waits until the browser reads again or the connection breaks,  *)
(* and the other coroutines go on meanwhile.  What an event says is left   *)
(* out.  The handler of a stream sends a comment every 15 s, by which it   *)
(* finds out that its browser is gone.                                     *)
(***************************************************************************)
CONSTANTS
    Streams,    \* connections to /api/stream, reused when nothing refers to one
    Pages,      \* open browser tabs, each with a valid token
    Senders,    \* main's coroutines that broadcast
    None        \* no stream, no page

ASSUME StreamAssumption ==
    None \notin Streams \cup Pages /\ \A S \in SUBSET Streams : S # None

VARIABLES
    pc,         \* api_stream of a connection: "free", "arrived", "serving", "ended"
    peer,       \* the browser's end: "open", "stalled" (does not read), "gone"
    page,       \* the page that opened a connection
    src,        \* the connection behind a page's EventSource
    clients,    \* Main.sse_clients
    todo,       \* broadcast's list, less those written to; None before and after
    at,         \* the stream whose write suspends a broadcast
    dead,       \* broadcast's dead
    owed        \* history: the senders whose event a stream has still to get

webVars  == <<peer, page, src>>
castVars == <<todo, at, dead, owed>>
vars == <<pc, peer, page, src, clients, todo, at, dead, owed>>

Init ==
    /\ pc = [c \in Streams |-> "free"]
    /\ peer = [c \in Streams |-> "gone"]
    /\ page = [c \in Streams |-> None]
    /\ src = [p \in Pages |-> None]
    /\ clients = {}
    /\ todo = [h \in Senders |-> None]
    /\ at = [h \in Senders |-> None]
    /\ dead = [h \in Senders |-> {}]
    /\ owed = [c \in Streams |-> {}]

----------------------------------------------------------------------------
(* The browser.                                                            *)

Fresh(p, c) == pc[c] = "free" /\ pc' = [pc EXCEPT ![c] = "arrived"]
               /\ page' = [page EXCEPT ![c] = p] /\ src' = [src EXCEPT ![p] = c]

\* The page loads, or its EventSource connects again after a loss.
Connect(p, c) ==
    /\ src[p] = None
    /\ Fresh(p, c)
    /\ peer' = [peer EXCEPT ![c] = "open"]
    /\ UNCHANGED <<clients, castVars>>

\* A slip: the EventSource there was is not closed.
SaveKeepsOld(p, c) ==
    /\ src[p] # None
    /\ Fresh(p, c)
    /\ peer' = [peer EXCEPT ![c] = "open"]
    /\ UNCHANGED <<clients, castVars>>

\* What a broken connection does to the broadcasts that wait for it: their
\* write raises, or returns if it broke without an error.
Wakes(c) ==
    LET waiting == {h \in Senders : at[h] = c}
    IN  /\ at' = [h \in Senders |-> IF h \in waiting THEN None ELSE at[h]]
        /\ \/ dead' = [h \in Senders |-> IF h \in waiting THEN dead[h] \cup {c} ELSE dead[h]]
           \/ dead' = dead
        /\ UNCHANGED <<todo, owed>>

\* The token is saved: connectSSE closes the EventSource and makes a new one.
Save(p, c) ==
    /\ src[p] # None
    /\ Fresh(p, c)
    /\ peer' = [peer EXCEPT ![src[p]] = "gone", ![c] = "open"]
    /\ Wakes(src[p])
    /\ UNCHANGED clients

\* The network breaks a connection, or the tab is closed.
Lost(c) ==
    /\ peer[c] # "gone"
    /\ peer' = [peer EXCEPT ![c] = "gone"]
    /\ src' = [p \in Pages |-> IF src[p] = c THEN None ELSE src[p]]
    /\ Wakes(c)
    /\ UNCHANGED <<pc, page, clients>>

\* The browser stops reading, as that of a sleeping machine does.
Stall(c) ==
    /\ peer[c] = "open"
    /\ peer' = [peer EXCEPT ![c] = "stalled"]
    /\ UNCHANGED <<pc, page, src, clients, castVars>>

\* It reads again, and the writes that waited for it return.
Resume(c) ==
    /\ peer[c] = "stalled"
    /\ peer' = [peer EXCEPT ![c] = "open"]
    /\ at' = [h \in Senders |-> IF at[h] = c THEN None ELSE at[h]]
    /\ UNCHANGED <<pc, page, src, clients, todo, dead, owed>>

----------------------------------------------------------------------------
(* Main: the handler of a stream.                                          *)

\* The response is prepared, registered and gets its first line, or it turns
\* out that the browser is gone.
Register(c) ==
    /\ pc[c] = "arrived"
    /\ \/ /\ peer[c] # "gone"
          /\ pc' = [pc EXCEPT ![c] = "serving"]
          /\ clients' = clients \cup {c}
       \/ /\ peer[c] = "gone"
          /\ pc' = [pc EXCEPT ![c] = "ended"]
          /\ UNCHANGED clients
    /\ UNCHANGED <<webVars, castVars>>

\* A slip: nothing but a broadcast takes a stream off the set.
StreamEndsListed(c) ==
    /\ pc[c] = "serving" /\ peer[c] = "gone"
    /\ pc' = [pc EXCEPT ![c] = "ended"]
    /\ UNCHANGED <<webVars, clients, castVars>>

\* The next keepalive raises, and the finally clause takes the stream off.
StreamEnds(c) ==
    /\ pc[c] = "serving" /\ peer[c] = "gone"
    /\ pc' = [pc EXCEPT ![c] = "ended"]
    /\ clients' = clients \ {c}
    /\ UNCHANGED <<webVars, castVars>>

----------------------------------------------------------------------------
(* Main: a broadcast.                                                      *)

Sending(h) == todo[h] # None

\* broadcast takes its list of the streams; with none it is over at once.
Broadcast(h) ==
    /\ ~Sending(h) /\ clients # {}
    /\ todo' = [todo EXCEPT ![h] = clients]
    /\ owed' = [c \in Streams |-> IF c \in clients THEN owed[c] \cup {h} ELSE owed[c]]
    /\ UNCHANGED <<pc, webVars, clients, at, dead>>

\* A slip: the try encloses the loop, so the first dead stream ends it.
WriteStops(h, c) ==
    /\ Sending(h) /\ at[h] = None /\ c \in todo[h]
    /\ todo' = [todo EXCEPT ![h] = IF peer[c] = "gone" THEN {} ELSE @ \ {c}]
    /\ owed' = [owed EXCEPT ![c] = @ \ {h}]
    /\ at' = [at EXCEPT ![h] = IF peer[c] = "stalled" THEN c ELSE None]
    /\ dead' = [dead EXCEPT ![h] = IF peer[c] = "gone" THEN @ \cup {c} ELSE @]
    /\ UNCHANGED <<pc, webVars, clients>>

\* A slip: a stream that cannot take the event at once counts as dead.
WriteImpatient(h, c) ==
    /\ Sending(h) /\ at[h] = None /\ c \in todo[h]
    /\ todo' = [todo EXCEPT ![h] = @ \ {c}]
    /\ owed' = [owed EXCEPT ![c] = @ \ {h}]
    /\ dead' = [dead EXCEPT ![h] = IF peer[c] # "open" THEN @ \cup {c} ELSE @]
    /\ UNCHANGED <<pc, webVars, clients, at>>

\* A slip: a write that raised is tried again.
WriteRetries(h, c) ==
    /\ Sending(h) /\ at[h] = None /\ c \in todo[h]
    /\ todo' = [todo EXCEPT ![h] = IF peer[c] = "gone" THEN @ ELSE @ \ {c}]
    /\ owed' = [owed EXCEPT ![c] = @ \ {h}]
    /\ at' = [at EXCEPT ![h] = IF peer[c] = "stalled" THEN c ELSE None]
    /\ UNCHANGED <<pc, webVars, clients, dead>>

\* The next write: to a gone browser it raises, to a stalled one it suspends
\* with the event in the buffer.  The list is that of a set, in any order.
Write(h, c) ==
    /\ Sending(h) /\ at[h] = None /\ c \in todo[h]
    /\ todo' = [todo EXCEPT ![h] = @ \ {c}]
    /\ owed' = [owed EXCEPT ![c] = @ \ {h}]
    /\ at' = [at EXCEPT ![h] = IF peer[c] = "stalled" THEN c ELSE None]
    /\ dead' = [dead EXCEPT ![h] = IF peer[c] = "gone" THEN @ \cup {c} ELSE @]
    /\ UNCHANGED <<pc, webVars, clients>>

\* The dead streams are taken off.
BroadcastEnds(h) ==
    /\ todo[h] = {} /\ at[h] = None
    /\ clients' = clients \ dead[h]
    /\ todo' = [todo EXCEPT ![h] = None]
    /\ dead' = [dead EXCEPT ![h] = {}]
    /\ UNCHANGED <<pc, webVars, at, owed>>

----------------------------------------------------------------------------

\* Nothing refers to a connection that has ended; its slot can be another.
Reuse(c) ==
    /\ pc[c] = "ended" /\ c \notin clients
    /\ \A h \in Senders :
          at[h] # c /\ c \notin dead[h] /\ (Sending(h) => c \notin todo[h])
    /\ pc' = [pc EXCEPT ![c] = "free"]
    /\ page' = [page EXCEPT ![c] = None]
    /\ owed' = [owed EXCEPT ![c] = {}]
    /\ UNCHANGED <<peer, src, clients, todo, at, dead>>

\* Main dies and starts again.  The browsers connect anew.
Restart ==
    /\ pc' = [c \in Streams |-> "free"] /\ peer' = [c \in Streams |-> "gone"]
    /\ page' = [c \in Streams |-> None] /\ src' = [p \in Pages |-> None]
    /\ clients' = {}
    /\ todo' = [h \in Senders |-> None] /\ at' = [h \in Senders |-> None]
    /\ dead' = [h \in Senders |-> {}] /\ owed' = [c \in Streams |-> {}]

Next ==
    \/ \E p \in Pages, c \in Streams : Connect(p, c) \/ Save(p, c)
    \/ \E c \in Streams : Lost(c) \/ Stall(c) \/ Resume(c) \/ Reuse(c)
    \/ \E c \in Streams : Register(c) \/ StreamEnds(c)
    \/ \E h \in Senders : Broadcast(h) \/ BroadcastEnds(h)
    \/ \E h \in Senders, c \in Streams : Write(h, c)
    \/ Restart

Spec == Init /\ [][Next]_vars

\* Main's loop runs, and the keepalives come.  A browser owes nothing: it may
\* stay stalled for ever.
Fairness ==
    /\ \A c \in Streams : WF_vars(Register(c)) /\ WF_vars(StreamEnds(c))
    /\ \A h \in Senders :
          WF_vars(\E c \in Streams : Write(h, c)) /\ WF_vars(BroadcastEnds(h))

FairSpec == Spec /\ Fairness

----------------------------------------------------------------------------

TypeOK ==
    /\ pc \in [Streams -> {"free", "arrived", "serving", "ended"}]
    /\ peer \in [Streams -> {"open", "stalled", "gone"}]
    /\ page \in [Streams -> Pages \cup {None}]
    /\ src \in [Pages -> Streams \cup {None}]
    /\ clients \in SUBSET Streams
    /\ todo \in [Senders -> (SUBSET Streams) \cup {None}]
    /\ at \in [Senders -> Streams \cup {None}]
    /\ dead \in [Senders -> SUBSET Streams]
    /\ owed \in [Streams -> SUBSET Senders]
    /\ \A h \in Senders : ~Sending(h) => at[h] = None /\ dead[h] = {}

\* When a broadcast is over, every stream that was registered when it began
\* and whose browser is still there has got the event: however many browsers
\* stall or go meanwhile, and whoever else broadcasts (main.py:119).
NoEventLost ==
    \A h \in Senders, c \in Streams :
        ~Sending(h) /\ peer[c] # "gone" => h \notin owed[c]

\* A browser that is served is on the list for events: broadcasts that end
\* while streams come and go take off only what is gone (main.py:124).
LiveIsRegistered ==
    \A c \in Streams : pc[c] = "serving" /\ peer[c] # "gone" => c \in clients

\* A page has one stream, whatever losses and saves of the token coincide
\* (app.js:238): each event reaches it once.
OneStream ==
    \A c, d \in Streams :
        page[c] # None /\ page[c] = page[d] /\ peer[c] # "gone" /\ peer[d] # "gone" => c = d

\* A stream whose browser is gone is forgotten, if nobody broadcasts as well
\* (main.py:327).
StreamsForgotten ==
    \A c \in Streams : (c \in clients /\ peer[c] = "gone") ~> (c \notin clients)

\* A write has no timeout (main.py:121), so a browser that is connected and
\* never reads again holds up a broadcast for ever, and the handler of the agent
\* that waits for it.  Nothing else does: neither browsers that are gone or
\* connect meanwhile, nor any number of stalls that pass, nor other broadcasts.
BroadcastFinishes ==
    \A h \in Senders :
        \/ Sending(h) ~> ~Sending(h)
        \/ <>[](at[h] \in Streams /\ peer[at[h]] = "stalled")
============================================================================
