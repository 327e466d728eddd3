---------------------------- MODULE EventRouting ----------------------------
(***************************************************************************)
(* Events of one published object, from the provider's emission to the     *)
(* callbacks of the consumer's handles.  The consumer's connection keeps   *)
(* one registration per handle and the host keeps one sink per event and   *)
(* connection (rpc_peer.cpp, plain_transport_host.cpp); the two are kept   *)
(* in step by Subscribe and Unsubscribe frames on a FIFO wire.             *)
(*                                                                         *)
(* sendSubscribe and sendUnsubscribe hold RpcPeer::m_mu across the write,  *)
(* so each of them is one step.  The host decodes the frames of one read   *)
(* in one strand handler (a batch); an undecodable frame fails the         *)
(* connection from within that handler.  The host's own destruction is not *)
(* part of the module.                                                     *)
(***************************************************************************)
EXTENDS Naturals, Sequences

CONSTANTS
  Conns,            \* connections of consumers to the host
  Regs,             \* registrations the handles will make
  RegConn, RegKey,  \* the connection and the event name of each of them
  Emissions,        \* events the provider will emit
  EventName,        \* their names
  Names, Wildcard,  \* event names, and the empty one that subscribes to all; "none"
                    \* stands for an event that was not emitted yet
  Mixes,            \* a bound: the registrations made in one behaviour
  Fallible,         \* a bound: connections that may fail
  Undecodable       \* a bound: how many frames the host cannot decode

ASSUME RegAssumption ==
  /\ RegConn \in [Regs -> Conns]
  /\ RegKey \in [Regs -> Names]
  /\ EventName \in [Emissions -> Names]
  /\ Wildcard \in Names /\ "none" \notin Names
ASSUME BoundsAssumption == Fallible \subseteq Conns /\ Undecodable \in Nat

VARIABLES
  reg,          \* reg[r]: "new", "on" (in m_eventSubs and m_subKeys) or "off"
  cStopped,     \* consumer side: m_stopped
  up,           \* frames on the way to the host
  batch,        \* frames of the host's current read, not yet dispatched
  host,         \* host side of a connection: "open", "failing", "closed"
  sinks,        \* m_sinks, as pairs of an event name and a connection
  published,    \* the object is in m_published, its signal connected
  fan,          \* fan[m]: "none", or the sinks fanOutEvent has yet to call
  down,         \* event frames on the way to the consumer
  dispatching,  \* event the consumer's I/O thread is delivering, as a sequence
  cbs,          \* the callbacks it copied out and has yet to invoke
  got,          \* got[m][r]: how often r's callback ran for m
  bad,          \* undecodable frames sent so far
  owed          \* history: registrations the host knew of when m was emitted

consumer == <<reg, cStopped, dispatching, cbs, got>>
hostVars == <<host, batch, sinks, published>>
vars == <<consumer, up, hostVars, fan, down, bad, owed>>

Frame(kind, key) == [kind |-> kind, key |-> key]
Sinks == Names \X Conns

Init ==
  /\ reg = [r \in Regs |-> "new"]
  /\ cStopped = {}
  /\ up = [c \in Conns |-> <<>>]
  /\ batch = [c \in Conns |-> <<>>]
  /\ host = [c \in Conns |-> "open"]
  /\ sinks = {}
  /\ published = FALSE
  /\ fan = [m \in Emissions |-> {<<"none", "none">>}]
  /\ down = [c \in Conns |-> <<>>]
  /\ dispatching = [c \in Conns |-> <<>>]
  /\ cbs = [c \in Conns |-> {}]
  /\ got = [m \in Emissions |-> [r \in Regs |-> 0]]
  /\ bad = 0
  /\ owed = [m \in Emissions |-> {}]

On(c, k) == {r \in Regs : reg[r] = "on" /\ RegConn[r] = c /\ RegKey[r] = k}

-----------------------------------------------------------------------------
(* The consumer's connection.                                              *)

\* emitMessage on a stopped connection drops the frame.
EmitUp(c, frame) ==
  up' = IF c \in cStopped THEN up ELSE [up EXCEPT ![c] = Append(@, frame)]

\* Registered and sent for every handle, not only for the first.
SendSubscribe(r) ==
  /\ reg[r] = "new"
  /\ \E mix \in Mixes : {r} \cup {x \in Regs : reg[x] # "new"} \subseteq mix
  /\ reg' = [reg EXCEPT ![r] = "on"]
  /\ EmitUp(RegConn[r], Frame("sub", RegKey[r]))
  /\ UNCHANGED <<cStopped, dispatching, cbs, got, hostVars, fan, down, bad, owed>>

\* Mutation of SendUnsubscribe: the siblings of the handle are not looked at.
UnsubscribeAlways(r) ==
  /\ reg[r] = "on"
  /\ reg' = [reg EXCEPT ![r] = "off"]
  /\ EmitUp(RegConn[r], Frame("unsub", RegKey[r]))
  /\ UNCHANGED <<cStopped, dispatching, cbs, got, hostVars, fan, down, bad, owed>>

\* The Unsubscribe frame is connection-wide, so only the last handle sends it.
SendUnsubscribe(r) ==
  /\ reg[r] = "on"
  /\ reg' = [reg EXCEPT ![r] = "off"]
  /\ IF On(RegConn[r], RegKey[r]) = {r}
     THEN EmitUp(RegConn[r], Frame("unsub", RegKey[r]))
     ELSE UNCHANGED up
  /\ UNCHANGED <<cStopped, dispatching, cbs, got, hostVars, fan, down, bad, owed>>

\* fail(): the registrations are cleared with the maps.
ConsumerFail(c) ==
  /\ c \in Fallible
  /\ c \notin cStopped
  /\ cStopped' = cStopped \cup {c}
  /\ reg' = [r \in Regs |-> IF RegConn[r] = c /\ reg[r] = "on" THEN "off" ELSE reg[r]]
  /\ UNCHANGED <<dispatching, cbs, got, up, hostVars, fan, down, bad, owed>>

\* Mutation of Collect: the wildcard key is not visited.
CollectNamed(m, c) == {"named"} \X On(c, EventName[m])

\* The callbacks of one event: those of its name, then those of the wildcard,
\* which for an event without a name is the same key.
Collect(m, c) ==
  ({"named"} \X On(c, EventName[m]))
    \cup (IF EventName[m] = Wildcard THEN {} ELSE {"wildcard"} \X On(c, Wildcard))

\* dispatchIncoming of an Event frame: the callbacks are copied out under m_mu.
\* Frames of a read that was under way when fail() ran are still dispatched, so
\* there is no guard on cStopped.
CollectCallbacks(c) ==
  /\ cbs[c] = {} /\ down[c] # <<>>
  /\ LET todo == Collect(Head(down[c]), c) IN
       /\ cbs' = [cbs EXCEPT ![c] = todo]
       /\ dispatching' = [dispatching EXCEPT ![c] = IF todo = {} THEN <<>> ELSE <<Head(down[c])>>]
  /\ down' = [down EXCEPT ![c] = Tail(@)]
  /\ UNCHANGED <<reg, cStopped, got, up, hostVars, fan, bad, owed>>

\* They are invoked with m_mu released.
InvokeCallback(c) ==
  /\ \E cb \in cbs[c] :
       /\ cb[1] = "wildcard" => {x \in cbs[c] : x[1] = "named"} = {}
       /\ cbs' = [cbs EXCEPT ![c] = @ \ {cb}]
       /\ got' = [got EXCEPT ![Head(dispatching[c])][cb[2]] = @ + 1]
       /\ dispatching' = IF cbs[c] = {cb} THEN [dispatching EXCEPT ![c] = <<>>] ELSE dispatching
  /\ UNCHANGED <<reg, cStopped, up, hostVars, fan, down, bad, owed>>

\* A peer of another version sends what the host cannot decode.
SendUndecodable(c) ==
  /\ bad < Undecodable
  /\ c \in Fallible \ cStopped
  /\ bad' = bad + 1
  /\ up' = [up EXCEPT ![c] = Append(@, Frame("bad", Wildcard))]
  /\ UNCHANGED <<consumer, hostVars, fan, down, owed>>

-----------------------------------------------------------------------------
(* The host.                                                               *)

\* A read completes with one or more frames, unless the connection stopped.
HostRead(c) ==
  /\ host[c] = "open" /\ batch[c] = <<>>
  /\ \E n \in 1 .. Len(up[c]) :
       /\ batch' = [batch EXCEPT ![c] = SubSeq(up[c], 1, n)]
       /\ up' = [up EXCEPT ![c] = SubSeq(@, n + 1, Len(@))]
  /\ UNCHANGED <<consumer, host, sinks, published, fan, down, bad, owed>>

\* onSubscribe, whether or not the object is published.
OnSubscribe(k, c) == sinks' = sinks \cup {<<k, c>>}

OnUnsubscribe(k, c) == sinks' = sinks \ {<<k, c>>}

\* One frame of the batch.  m_stopped is not looked at between two frames.
HostFrame(c) ==
  /\ host[c] # "failing" /\ batch[c] # <<>>
  /\ batch' = [batch EXCEPT ![c] = Tail(@)]
  /\ LET f == Head(batch[c]) IN
       \/ f.kind = "sub" /\ OnSubscribe(f.key, c) /\ UNCHANGED host
       \/ f.kind = "unsub" /\ OnUnsubscribe(f.key, c) /\ UNCHANGED host
       \/ /\ f.kind = "bad"
          /\ host' = [host EXCEPT ![c] = IF @ = "open" THEN "failing" ELSE @]
          /\ UNCHANGED sinks
  /\ UNCHANGED <<consumer, up, published, fan, down, bad, owed>>

\* A read or a write completes with an error: fail(), on the strand.
HostFail(c) ==
  /\ c \in Fallible
  /\ host[c] = "open" /\ batch[c] = <<>>
  /\ host' = [host EXCEPT ![c] = "failing"]
  /\ UNCHANGED <<consumer, up, batch, sinks, published, fan, down, bad, owed>>

\* The end of fail(): every sink of the connection goes.
OnConnectionClosed(c) ==
  /\ host[c] = "failing"
  /\ host' = [host EXCEPT ![c] = "closed"]
  /\ sinks' = {s \in sinks : s[2] # c}
  /\ UNCHANGED <<consumer, up, batch, published, fan, down, bad, owed>>

PublishObject ==
  /\ ~published
  /\ published' = TRUE
  /\ UNCHANGED <<consumer, up, host, batch, sinks, fan, down, bad, owed>>

UnpublishObject ==
  /\ published
  /\ published' = FALSE
  /\ UNCHANGED <<consumer, up, host, batch, sinks, fan, down, bad, owed>>

\* fanOutEvent: the sinks of the event's name and of the wildcard.
Matching(m) == {s \in sinks : s[1] \in {EventName[m], Wildcard}}

\* One sink per connection, the named one before the wildcard.
OnePerConnection(m) ==
  {s \in Matching(m) : s[1] = EventName[m] \/ <<EventName[m], s[2]>> \notin sinks}

Pending(m) == fan[m] = {<<"none", "none">>}
Working(c) == c \notin cStopped /\ host[c] = "open"

\* The provider emits m on some thread; the sinks are copied out under m_mu.
FanOutEvent(m) ==
  /\ Pending(m) /\ published
  /\ fan' = [fan EXCEPT ![m] = OnePerConnection(m)]
  /\ owed' = [owed EXCEPT ![m] =
       {r \in Regs : /\ reg[r] = "on" /\ Working(RegConn[r])
                     /\ <<RegKey[r], RegConn[r]>> \in sinks
                     /\ RegKey[r] \in {EventName[m], Wildcard}}]
  /\ UNCHANGED <<consumer, up, hostVars, down, bad>>

\* A sink writes the event down its connection, unless that has stopped.
CallSink(m, s) ==
  /\ ~Pending(m) /\ s \in fan[m]
  /\ fan' = [fan EXCEPT ![m] = @ \ {s}]
  /\ down' = IF host[s[2]] = "open" THEN [down EXCEPT ![s[2]] = Append(@, m)] ELSE down
  /\ UNCHANGED <<consumer, up, hostVars, bad, owed>>

-----------------------------------------------------------------------------
HostStep(c) == HostFrame(c) \/ OnConnectionClosed(c)
ConsumerStep(c) == CollectCallbacks(c) \/ InvokeCallback(c)

Next ==
  \/ \E r \in Regs : SendSubscribe(r) \/ SendUnsubscribe(r)
  \/ \E c \in Conns : \/ ConsumerFail(c) \/ SendUndecodable(c) \/ ConsumerStep(c)
                      \/ HostRead(c) \/ HostStep(c) \/ HostFail(c)
  \/ PublishObject \/ UnpublishObject
  \/ \E m \in Emissions : FanOutEvent(m) \/ \E s \in Sinks : CallSink(m, s)

Spec == Init /\ [][Next]_vars

\* Threads inside the code run on and the wire delivers what was written; nobody
\* is obliged to subscribe, publish, emit or fail.
Fairness ==
  /\ \A c \in Conns : /\ WF_vars(HostRead(c)) /\ WF_vars(HostStep(c))
                      /\ WF_vars(ConsumerStep(c))
  /\ \A m \in Emissions, s \in Sinks : WF_vars(CallSink(m, s))

FairSpec == Spec /\ Fairness

-----------------------------------------------------------------------------
\* Exactly-once delivery, its at-most-once half (fanOutEvent, dispatchIncoming):
\* whatever mix of named and wildcard registrations a connection has, a handle
\* hears of an event once.
OneCopy == \A m \in Emissions, r \in Regs : got[m][r] <= 1

\* Registry and sink table agree once the wire is drained (sendSubscribe,
\* sendUnsubscribe): while both ends work, the host has, or will have when the
\* frames on the way are dispatched, a sink for exactly the events some handle
\* of the connection is registered for.
About(fs, k) == {i \in DOMAIN fs : fs[i].key = k /\ fs[i].kind # "bad"}
InTheEnd(fs, k, now) ==
  IF About(fs, k) = {} THEN now
  ELSE \E i \in About(fs, k) : fs[i].kind = "sub" /\ \A j \in About(fs, k) : j <= i
SinkInTheEnd(c, k) == InTheEnd(batch[c] \o up[c], k, <<k, c>> \in sinks)
WireAgrees ==
  \A c \in Conns, k \in Names : Working(c) => (SinkInTheEnd(c, k) <=> On(c, k) # {})

\* An event reaches every handle whose subscription the host had when it was
\* emitted, unless the handle withdraws or the connection fails, whatever the
\* siblings of the handle and the publication of the object do meanwhile.
EventReaches ==
  \A m \in Emissions, r \in Regs :
    r \in owed[m] ~> \/ got[m][r] = 1
                     \/ reg[r] # "on" \/ ~Working(RegConn[r])
=============================================================================
