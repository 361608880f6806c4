------------------------- MODULE EventStream_proof -------------------------
(***************************************************************************)
(* What EventStream keeps for any streams, pages and senders: events are   *)
(* not lost, streams that are served are on the list, a page has one       *)
(* stream.  StreamInv is inductive: dead holds only streams whose browser  *)
(* is gone, an event that is owed is still on its broadcast's list, and a  *)
(* page's open connection is the one its EventSource knows.                *)
(***************************************************************************)
EXTENDS EventStream, TLAPS

\* Broadcasts take off only streams whose browser is gone.
DeadAreGone == \A h \in Senders : \A c \in dead[h] : peer[c] = "gone"

\* A handler ends only when the browser is gone, and nothing refers to a free
\* slot.
FreeIsUnused ==
    /\ \A c \in Streams : pc[c] \in {"free", "ended"} => peer[c] = "gone"
    /\ \A c \in Streams : pc[c] = "free" =>
          /\ page[c] = None /\ owed[c] = {} /\ c \notin clients
          /\ \A h \in Senders :
                at[h] # c /\ c \notin dead[h] /\ (Sending(h) => c \notin todo[h])

\* What a stream has still to get is on the list of a broadcast under way.
OwedIsTodo ==
    \A h \in Senders, c \in Streams : h \in owed[c] => Sending(h) /\ c \in todo[h]

\* A connection with a browser is that of its page's EventSource.
SourceKnown ==
    /\ \A c \in Streams : peer[c] # "gone" => page[c] \in Pages /\ src[page[c]] = c
    /\ \A p \in Pages : src[p] # None => peer[src[p]] # "gone" /\ page[src[p]] = p

\* What the streams and the broadcasts owe each other.
Linked == DeadAreGone /\ FreeIsUnused /\ OwedIsTodo /\ SourceKnown /\ LiveIsRegistered

\* The inductive invariant.
StreamInv == TypeOK /\ Linked

----------------------------------------------------------------------------

\* The invariant holds initially.
LEMMA InitStream == Init => StreamInv
<1> SUFFICES ASSUME Init PROVE StreamInv
  OBVIOUS
<1>1. TypeOK
  BY StreamAssumption DEF Init, TypeOK, Sending
<1>2. Linked
  BY StreamAssumption DEF Init, Linked, DeadAreGone, FreeIsUnused, OwedIsTodo,
     SourceKnown, LiveIsRegistered, Sending
<1> QED BY <1>1, <1>2 DEF StreamInv

\* A page connects through a free slot.
LEMMA ConnectKeeps ==
    ASSUME StreamInv, NEW p \in Pages, NEW c \in Streams, Connect(p, c)
    PROVE  StreamInv'
<1> USE StreamAssumption DEF StreamInv, Linked, Connect, Fresh, castVars, Sending
<1>1. TypeOK'
  BY DEF TypeOK
<1>2. Linked'
  BY DEF TypeOK, DeadAreGone, FreeIsUnused, OwedIsTodo, SourceKnown, LiveIsRegistered
<1> QED BY <1>1, <1>2

\* Saving breaks the page's old connection and makes its new one.
LEMMA SaveKeeps ==
    ASSUME StreamInv, NEW p \in Pages, NEW c \in Streams, Save(p, c)
    PROVE  StreamInv'
<1> USE StreamAssumption DEF StreamInv, Linked, Save, Fresh, Wakes, Sending
<1>1. TypeOK'
  BY DEF TypeOK
<1>2. Linked'
  BY DEF TypeOK, DeadAreGone, FreeIsUnused, OwedIsTodo, SourceKnown, LiveIsRegistered
<1> QED BY <1>1, <1>2

\* A connection that is lost may put itself in dead of those who write to it.
LEMMA LostKeeps ==
    ASSUME StreamInv, NEW c \in Streams, Lost(c)
    PROVE  StreamInv'
<1> USE StreamAssumption DEF StreamInv, Linked, Lost, Wakes, Sending
<1>1. TypeOK'
  BY DEF TypeOK
<1>2. Linked'
  BY DEF TypeOK, DeadAreGone, FreeIsUnused, OwedIsTodo, SourceKnown, LiveIsRegistered
<1> QED BY <1>1, <1>2

\* Stalling is seen by nobody.
LEMMA StallKeeps ==
    ASSUME StreamInv, NEW c \in Streams, Stall(c)
    PROVE  StreamInv'
<1> USE StreamAssumption DEF StreamInv, Linked, Stall, castVars, Sending
<1>1. TypeOK'
  BY DEF TypeOK
<1>2. Linked'
  BY DEF TypeOK, DeadAreGone, FreeIsUnused, OwedIsTodo, SourceKnown, LiveIsRegistered
<1> QED BY <1>1, <1>2

\* Resuming wakes the writers.
LEMMA ResumeKeeps ==
    ASSUME StreamInv, NEW c \in Streams, Resume(c)
    PROVE  StreamInv'
<1> USE StreamAssumption DEF StreamInv, Linked, Resume, Sending
<1>1. TypeOK'
  BY DEF TypeOK
<1>2. Linked'
  BY DEF TypeOK, DeadAreGone, FreeIsUnused, OwedIsTodo, SourceKnown, LiveIsRegistered
<1> QED BY <1>1, <1>2

\* A stream that has just registered is owed nothing.
LEMMA RegisterKeeps ==
    ASSUME StreamInv, NEW c \in Streams, Register(c)
    PROVE  StreamInv'
<1> USE StreamAssumption DEF StreamInv, Linked, Register, webVars, castVars, Sending
<1>1. TypeOK'
  BY DEF TypeOK
<1>2. Linked'
  BY DEF TypeOK, DeadAreGone, FreeIsUnused, OwedIsTodo, SourceKnown, LiveIsRegistered
<1> QED BY <1>1, <1>2

\* A handler takes off itself only, and only without a browser.
LEMMA StreamEndsKeeps ==
    ASSUME StreamInv, NEW c \in Streams, StreamEnds(c)
    PROVE  StreamInv'
<1> USE StreamAssumption DEF StreamInv, Linked, StreamEnds, webVars, castVars, Sending
<1>1. TypeOK'
  BY DEF TypeOK
<1>2. Linked'
  BY DEF TypeOK, DeadAreGone, FreeIsUnused, OwedIsTodo, SourceKnown, LiveIsRegistered
<1> QED BY <1>1, <1>2

\* A slot becomes free when nothing refers to it.
LEMMA ReuseKeeps ==
    ASSUME StreamInv, NEW c \in Streams, Reuse(c)
    PROVE  StreamInv'
<1> USE StreamAssumption DEF StreamInv, Linked, Reuse, Sending
<1>1. TypeOK'
  BY DEF TypeOK
<1>2. Linked'
  BY DEF TypeOK, DeadAreGone, FreeIsUnused, OwedIsTodo, SourceKnown, LiveIsRegistered
<1> QED BY <1>1, <1>2

\* A broadcast owes its event to the streams on its list.
LEMMA BroadcastKeeps ==
    ASSUME StreamInv, NEW h \in Senders, Broadcast(h)
    PROVE  StreamInv'
<1> USE StreamAssumption DEF StreamInv, Linked, Broadcast, webVars, Sending
<1>1. TypeOK'
  BY DEF TypeOK
<1>2. Linked'
  BY DEF TypeOK, DeadAreGone, FreeIsUnused, OwedIsTodo, SourceKnown, LiveIsRegistered
<1> QED BY <1>1, <1>2

\* A write settles what was owed, and marks as dead only what is gone.
LEMMA WriteKeeps ==
    ASSUME StreamInv, NEW h \in Senders, NEW c \in Streams, Write(h, c)
    PROVE  StreamInv'
<1> USE StreamAssumption DEF StreamInv, Linked, Write, webVars, Sending
<1>1. TypeOK'
  BY DEF TypeOK
<1>2. Linked'
  BY DEF TypeOK, DeadAreGone, FreeIsUnused, OwedIsTodo, SourceKnown, LiveIsRegistered
<1> QED BY <1>1, <1>2

\* The end of a broadcast takes off only what is gone, and nobody is owed its event.
LEMMA BroadcastEndsKeeps ==
    ASSUME StreamInv, NEW h \in Senders, BroadcastEnds(h)
    PROVE  StreamInv'
<1> USE StreamAssumption DEF StreamInv, Linked, BroadcastEnds, webVars, Sending
<1>1. TypeOK'
  BY DEF TypeOK
<1>2. Linked'
  BY DEF TypeOK, DeadAreGone, FreeIsUnused, OwedIsTodo, SourceKnown, LiveIsRegistered
<1> QED BY <1>1, <1>2

\* A restart is a new beginning.
LEMMA RestartKeeps ==
    ASSUME StreamInv, Restart
    PROVE  StreamInv'
<1> USE StreamAssumption DEF StreamInv, Linked, Restart, Sending
<1>1. TypeOK'
  BY DEF TypeOK
<1>2. Linked'
  BY DEF TypeOK, DeadAreGone, FreeIsUnused, OwedIsTodo, SourceKnown, LiveIsRegistered
<1> QED BY <1>1, <1>2

----------------------------------------------------------------------------

\* Every step keeps the invariant.
LEMMA NextStream == StreamInv /\ [Next]_vars => StreamInv'
<1> SUFFICES ASSUME StreamInv, [Next]_vars PROVE StreamInv'
  OBVIOUS
<1>1. ASSUME NEW p \in Pages, NEW c \in Streams, Connect(p, c) \/ Save(p, c)
      PROVE  StreamInv'
  BY <1>1, ConnectKeeps, SaveKeeps
<1>2. ASSUME NEW c \in Streams,
             Lost(c) \/ Stall(c) \/ Resume(c) \/ Reuse(c) \/ Register(c) \/ StreamEnds(c)
      PROVE  StreamInv'
  BY <1>2, LostKeeps, StallKeeps, ResumeKeeps, ReuseKeeps, RegisterKeeps, StreamEndsKeeps
<1>3. ASSUME NEW h \in Senders, Broadcast(h) \/ BroadcastEnds(h)
      PROVE  StreamInv'
  BY <1>3, BroadcastKeeps, BroadcastEndsKeeps
<1>4. ASSUME NEW h \in Senders, NEW c \in Streams, Write(h, c)
      PROVE  StreamInv'
  BY <1>4, WriteKeeps
<1>5. CASE Restart
  BY <1>5, RestartKeeps
<1>6. CASE UNCHANGED vars
  BY <1>6 DEF vars, StreamInv, TypeOK, Linked, DeadAreGone, FreeIsUnused, OwedIsTodo,
     SourceKnown, LiveIsRegistered, Sending
<1> QED BY <1>1, <1>2, <1>3, <1>4, <1>5, <1>6 DEF Next

\* The inductive invariant holds in every reachable state.
THEOREM StreamSafe == Spec => []StreamInv
  BY InitStream, NextStream, PTL DEF Spec

\* The streams, the pages and the broadcasts keep their types.
THEOREM TypeCorrect == Spec => []TypeOK
<1>1. StreamInv => TypeOK
  BY DEF StreamInv
<1> QED BY <1>1, StreamSafe, PTL

\* A broadcast that is over has reached every stream that was registered when
\* it began and still has a browser.
THEOREM EventsSafe == Spec => []NoEventLost
<1>1. StreamInv => NoEventLost
  BY DEF StreamInv, Linked, OwedIsTodo, NoEventLost
<1> QED BY <1>1, StreamSafe, PTL

\* A stream that is served and has a browser is in sse_clients.
THEOREM LiveSafe == Spec => []LiveIsRegistered
<1>1. StreamInv => LiveIsRegistered
  BY DEF StreamInv, Linked
<1> QED BY <1>1, StreamSafe, PTL

\* A page never has two open connections.
THEOREM OneStreamSafe == Spec => []OneStream
<1>1. StreamInv => OneStream
  BY DEF StreamInv, Linked, SourceKnown, OneStream
<1> QED BY <1>1, StreamSafe, PTL
============================================================================
