---------------------------- MODULE WebTransport ----------------------------
(***************************************************************************)
(* The web transport over one channel pair: the WebTransportConnection of  *)
(* a page at one end, the WebTransportHost at the other, and the           *)
(* WebRpcConnections each makes over its end, one after the other.         *)
(*                                                                         *)
(* Each end has a pump thread, which delivers one message at a time with   *)
(* receiverMu held, and the thread of its owner.  setReceiver takes        *)
(* receiverMu: it waits for a delivery under way, except on the pump       *)
(* itself, whose mutex is recursive.  A connection is destroyed by         *)
(* whoever drops the last reference to it.  The module's event loop is the *)
(* host's thread.  The page is a consumer: it hears results and events.    *)
(***************************************************************************)
EXTENDS Naturals, Sequences, FiniteSets

CONSTANTS
  PageConns,   \* connections the page may make
  HostConns,   \* connections the host may make
  MaxSends     \* bound: messages sent and events emitted

Ends == {"page", "host"}
Conns == PageConns \cup HostConns
None == "none"

ASSUME ConnsAssumption ==
  PageConns \cap HostConns = {} /\ None \notin Conns /\ MaxSends \in Nat

VARIABLES
  closed,     \* ends whose ChannelState is closed
  inbox,      \* inbox[e]: messages for the receiver of e
  receiver,   \* receiver[e]: the connection whose receiver is installed
  pump,       \* pump[e]: [at, conn, msg], where the pump thread of e is
  made,       \* connections made
  retired,    \* ... whose m_stopped is set
  freed,      \* ... that are destroyed
  current,    \* m_conn of the page's WebTransportConnection
  handles,    \* page connections that a PlainLogosObject refers to
  serving,    \* m_connections of the host
  sinks,      \* m_sinks: connections subscribed to the event
  published,  \* the object is published
  replies,    \* calls queued on the module's event loop, by connection
  thread,     \* thread[e]: [at, todo, mine], where the owner's thread is
  hostFreed,  \* the WebTransportHost is destroyed
  sends,      \* messages that may still be sent
  \* history, read by properties only
  late,       \* a message was dispatched to a destroyed host
  deafened    \* connections whose receiver went with an older connection

channel == <<closed, inbox>>
conns == <<made, retired, freed, receiver, deafened>>
host == <<serving, sinks, published, hostFreed, late>>
webVars == <<channel, conns, host, pump, current, handles, replies, thread, sends>>

End(c) == IF c \in PageConns THEN "page" ELSE "host"
Resting == [at |-> "idle", conn |-> None, msg |-> None]
Ready == [at |-> "idle", todo |-> {}, mine |-> {}]
EndAt(e, at) == thread[e].at = at
Goto(e, at, todo, mine) == thread' = [thread EXCEPT ![e] = [at |-> at, todo |-> todo, mine |-> mine]]

WebInit ==
  /\ closed = {} /\ inbox = [e \in Ends |-> <<>>] /\ receiver = [e \in Ends |-> None]
  /\ pump = [e \in Ends |-> Resting] /\ made = {} /\ retired = {} /\ freed = {}
  /\ current = None /\ handles = {} /\ serving = {} /\ sinks = {} /\ published = FALSE
  /\ replies = <<>> /\ thread = [e \in Ends |-> Ready] /\ hostFreed = FALSE
  /\ sends = MaxSends /\ late = FALSE /\ deafened = {}

-----------------------------------------------------------------------------
(* The channel and the references to connections.                          *)

\* Mutation of LockFree: receiverMu is held to copy the receiver only.
CopyLocked(e) == TRUE

\* receiverMu of e, for another thread than the pump.
LockFree(e) == pump[e].at \in {"idle", "taken"}

\* Queued on the far end's inbox; dropped when that end is closed.
Pushed(e, m) == [inbox EXCEPT ![e] = IF e \in closed THEN @ ELSE Append(@, m)]

\* The next object that std::make_shared gives.
Fresh(S) == CHOOSE c \in S : c \notin made

Delivering(c) == \E e \in Ends : pump[e].conn = c
Queue(c) == {i \in DOMAIN replies : replies[i] = c}

\* The destructor of each connection of S removes the receiver, whoever's it is.
Destroy(S, e) ==
  /\ freed' = freed \cup S
  /\ receiver' = IF S = {} THEN receiver ELSE [receiver EXCEPT ![e] = None]
  /\ deafened' = IF S = {} THEN deafened ELSE deafened \cup ({receiver[e]} \ (S \cup {None}))

-----------------------------------------------------------------------------
(* The pump of e.                                                          *)

Pop(e) ==
  /\ pump[e].at = "idle" /\ inbox[e] # <<>> /\ e \notin closed
  /\ pump' = [pump EXCEPT ![e] = [at |-> "taken", conn |-> None, msg |-> Head(inbox[e])]]
  /\ inbox' = [inbox EXCEPT ![e] = Tail(@)]
  /\ UNCHANGED <<closed, conns, host, current, handles, replies, thread, sends>>

\* The receiver is copied and called; with none the message is gone.
Deliver(e) ==
  /\ pump[e].at = "taken"
  /\ pump' = [pump EXCEPT ![e] = IF receiver[e] \in freed \cup {None} THEN Resting
                                 ELSE [@ EXCEPT !.at = "in", !.conn = receiver[e]]]
  /\ UNCHANGED <<channel, conns, host, current, handles, replies, thread, sends>>

\* onChannelMessage: nothing once stopped, which is looked at first.
LookAtStopped(e) ==
  /\ pump[e].at = "in"
  /\ pump' = [pump EXCEPT ![e].at = IF pump[e].conn \in retired THEN "leave" ELSE "dispatch"]
  /\ UNCHANGED <<channel, conns, host, current, handles, replies, thread, sends>>

\* A malformed message fails the connection, unless it has been stopped since.
Malformed(e) ==
  /\ pump[e].at = "dispatch" /\ pump[e].msg = "bad"
  /\ retired' = retired \cup {pump[e].conn}
  /\ pump' = [pump EXCEPT ![e].at = IF pump[e].conn \in retired THEN "leave" ELSE "close"]
  /\ UNCHANGED <<channel, made, freed, receiver, deafened, host, current, handles, replies,
                 thread, sends>>

\* Dispatched: at the page a result or an event, at the host a request.
Arrived ==
  /\ pump["page"].at = "dispatch" /\ pump["page"].msg \in {"result", "event"}
  /\ pump' = [pump EXCEPT !["page"].at = "leave"]
  /\ UNCHANGED <<channel, conns, host, current, handles, replies, thread, sends>>

Incoming(m) == /\ pump["host"].at = "dispatch" /\ pump["host"].msg = m
               /\ pump' = [pump EXCEPT !["host"].at = "leave"]
               /\ late' = (late \/ hostFreed)

\* onCall, and onMethods likewise: queued on the module's event loop, or refused
\* at once.
OnCall ==
  /\ Incoming("call")
  /\ IF published THEN replies' = Append(replies, pump["host"].conn) /\ UNCHANGED inbox
     ELSE /\ inbox' = IF pump["host"].conn \in retired THEN inbox ELSE Pushed("page", "result")
          /\ UNCHANGED replies
  /\ UNCHANGED <<closed, conns, serving, sinks, published, hostFreed, current, handles, thread,
                 sends>>

OnSubscribe ==
  /\ Incoming("subscribe")
  /\ sinks' = sinks \cup {pump["host"].conn}
  /\ UNCHANGED <<channel, conns, serving, published, hostFreed, current, handles, replies,
                 thread, sends>>

OnUnsubscribe ==
  /\ Incoming("unsubscribe")
  /\ sinks' = sinks \ {pump["host"].conn}
  /\ UNCHANGED <<channel, conns, serving, published, hostFreed, current, handles, replies,
                 thread, sends>>

\* Mutation of FailClose: receiverMu is not recursive.
CloseLocked(e) ==
  /\ pump[e].at = "close" /\ LockFree(e)
  /\ receiver' = [receiver EXCEPT ![e] = None]
  /\ pump' = [pump EXCEPT ![e].at = IF e = "host" THEN "notify" ELSE "leave"]
  /\ UNCHANGED <<channel, made, retired, freed, deafened, host, current, handles, replies,
                 thread, sends>>

\* fail, on the pump: closeTransport, then onConnectionClosed.
FailClose(e) ==
  /\ pump[e].at = "close"
  /\ receiver' = [receiver EXCEPT ![e] = None]
  /\ pump' = [pump EXCEPT ![e].at = IF e = "host" THEN "notify" ELSE "leave"]
  /\ UNCHANGED <<channel, made, retired, freed, deafened, host, current, handles, replies,
                 thread, sends>>

OnConnectionClosed ==
  /\ pump["host"].at = "notify"
  /\ sinks' = sinks \ {pump["host"].conn}
  /\ pump' = [pump EXCEPT !["host"].at = "leave"]
  /\ UNCHANGED <<channel, conns, serving, published, hostFreed, late, current, handles, replies,
                 thread, sends>>

\* Whether something else than the pump's delivery refers to c.
Kept(c) == \/ c \in {current} \cup handles \cup serving \cup thread["host"].mine
           \/ Queue(c) # {}

\* The delivery's reference goes, on the pump.
Leave(e) ==
  /\ pump[e].at = "leave"
  /\ LET c == pump[e].conn IN Destroy(IF Kept(c) THEN {} ELSE {c}, e)
  /\ pump' = [pump EXCEPT ![e] = Resting]
  /\ UNCHANGED <<channel, made, retired, host, current, handles, replies, thread, sends>>

Pump(e) ==
  Pop(e) \/ Deliver(e) \/ LookAtStopped(e) \/ Malformed(e) \/ FailClose(e) \/ Leave(e)
Handler == Arrived \/ OnCall \/ OnSubscribe \/ OnUnsubscribe \/ OnConnectionClosed

-----------------------------------------------------------------------------
(* The page's thread: WebTransportConnection and its objects.              *)

\* A destructor waits for receiverMu.
DestroyWaiting(S, e) == (S # {} => LockFree(e)) /\ Destroy(S, e)

\* connectToHost, also at the end of reconnect: a new connection is started.
ConnectToHost ==
  /\ EndAt("page", "connect") \/ (EndAt("page", "idle") /\ current = None)
  /\ PageConns \ made # {} /\ "page" \notin closed /\ LockFree("page")
  /\ current' = Fresh(PageConns) /\ made' = made \cup {current'}
  /\ receiver' = [receiver EXCEPT !["page"] = current']
  /\ thread' = [thread EXCEPT !["page"] = Ready]
  /\ UNCHANGED <<channel, retired, freed, deafened, host, pump, handles, replies, sends>>

\* The channel is closed: connectToHost fails.
ConnectFails ==
  /\ EndAt("page", "connect") /\ "page" \in closed
  /\ thread' = [thread EXCEPT !["page"] = Ready]
  /\ UNCHANGED <<channel, conns, host, pump, current, handles, replies, sends>>

\* reconnect: stop() the connection, which does nothing to one that has failed.
Reconnect ==
  /\ EndAt("page", "idle") /\ current # None /\ PageConns \ made # {}
  /\ retired' = retired \cup {current}
  /\ Goto("page", IF current \in retired THEN "drop" ELSE "close", {}, {})
  /\ UNCHANGED <<channel, made, freed, receiver, deafened, host, pump, current, handles, replies,
                 sends>>

PageClose ==
  /\ EndAt("page", "close") /\ LockFree("page")
  /\ receiver' = [receiver EXCEPT !["page"] = None]
  /\ Goto("page", "drop", {}, {})
  /\ UNCHANGED <<channel, made, retired, freed, deafened, host, pump, current, handles, replies,
                 sends>>

PageDrop ==
  /\ EndAt("page", "drop")
  /\ DestroyWaiting(IF current \in handles \/ Delivering(current) THEN {} ELSE {current}, "page")
  /\ current' = None /\ Goto("page", "connect", {}, {})
  /\ UNCHANGED <<channel, made, retired, host, pump, handles, replies, sends>>

RequestObject ==
  /\ EndAt("page", "idle") /\ current \notin retired \cup handles \cup {None}
  /\ handles' = handles \cup {current}
  /\ UNCHANGED <<channel, conns, host, pump, current, replies, thread, sends>>

ReleaseObject(c) ==
  /\ EndAt("page", "idle") /\ c \in handles
  /\ handles' = handles \ {c}
  /\ DestroyWaiting(IF c = current \/ Delivering(c) THEN {} ELSE {c}, "page")
  /\ UNCHANGED <<channel, made, retired, host, pump, current, replies, thread, sends>>

\* emitMessage on a connection of the page; a page may also send what cannot be decoded.
PageSends(c, m) ==
  /\ EndAt("page", "idle") /\ c \in handles \ retired /\ sends > 0
  /\ sends' = sends - 1 /\ inbox' = Pushed("host", m)
  /\ UNCHANGED <<closed, conns, host, pump, current, handles, replies, thread>>

-----------------------------------------------------------------------------
(* The host's thread.                                                      *)

Bare(c) == Queue(c) = {} /\ ~Delivering(c)

\* attachChannel: drop the connections that are over, then start the new one.  A
\* channel is attached again once its connection is over.
AttachChannel ==
  /\ EndAt("host", "idle") /\ ~hostFreed /\ HostConns \ made # {}
  /\ "host" \notin closed /\ serving \subseteq retired
  /\ serving' = {Fresh(HostConns)} /\ made' = made \cup serving'
  /\ DestroyWaiting({c \in serving : Bare(c)}, "host")
  /\ Goto("host", "start", serving', {})
  /\ UNCHANGED <<channel, retired, sinks, published, hostFreed, late, pump, current, handles,
                 replies, sends>>

AttachStart ==
  /\ EndAt("host", "start") /\ LockFree("host")
  /\ \E c \in thread["host"].todo : receiver' = [receiver EXCEPT !["host"] = c]
  /\ Goto("host", "idle", {}, {})
  /\ UNCHANGED <<channel, made, retired, freed, deafened, host, pump, current, handles, replies,
                 sends>>

\* publishObject and unpublishObject.
Publish(is) ==
  /\ EndAt("host", "idle") /\ ~hostFreed /\ published # is
  /\ published' = is
  /\ UNCHANGED <<channel, conns, serving, sinks, hostFreed, late, pump, current, handles, replies,
                 thread, sends>>

\* fanOutEvent: a copy for every connection with a sink, if it is still there.
FanOutEvent ==
  /\ EndAt("host", "idle") /\ published /\ sends > 0 /\ sends' = sends - 1
  /\ inbox' = IF sinks \ (retired \cup freed) = {} THEN inbox ELSE Pushed("page", "event")
  /\ UNCHANGED <<closed, conns, host, pump, current, handles, replies, thread>>

\* The module answers a call: on its loop, through the connection it came by.
Reply ==
  /\ EndAt("host", "idle") /\ replies # <<>>
  /\ LET c == Head(replies) IN
     /\ inbox' = IF c \in retired THEN inbox ELSE Pushed("page", "result")
     /\ DestroyWaiting(IF c \in serving \/ Queue(c) # {1} \/ Delivering(c) THEN {} ELSE {c}, "host")
  /\ replies' = Tail(replies)
  /\ UNCHANGED <<closed, made, retired, host, pump, current, handles, thread, sends>>

\* ~WebTransportHost: take everything out, stop every connection, let go of them.
DestroyHost ==
  /\ EndAt("host", "idle") /\ ~hostFreed
  /\ Goto("host", "stopping", serving, serving)
  /\ serving' = {} /\ sinks' = {} /\ published' = FALSE
  /\ UNCHANGED <<channel, conns, hostFreed, late, pump, current, handles, replies, sends>>

\* Mutation of StopConnection: without the wait for a delivery.
StopUnwaited ==
  /\ EndAt("host", "stopping")
  /\ \E c \in thread["host"].todo :
       /\ retired' = retired \cup {c}
       /\ Goto("host", "stopping", thread["host"].todo \ {c}, thread["host"].mine)
  /\ UNCHANGED <<channel, made, freed, receiver, deafened, host, pump, current, handles, replies,
                 sends>>

StopConnection ==
  /\ EndAt("host", "stopping")
  /\ \E c \in thread["host"].todo :
       /\ retired' = retired \cup {c}
       /\ IF c \in retired
          THEN Goto("host", "stopping", thread["host"].todo \ {c}, thread["host"].mine)
          ELSE Goto("host", "close", {c}, thread["host"].mine)
  /\ UNCHANGED <<channel, made, freed, receiver, deafened, host, pump, current, handles, replies,
                 sends>>

\* closeTransport, and onConnectionClosed on the host itself.
StopClose ==
  /\ EndAt("host", "close") /\ LockFree("host")
  /\ receiver' = [receiver EXCEPT !["host"] = None]
  /\ sinks' = sinks \ thread["host"].todo
  /\ Goto("host", "stopping", {}, thread["host"].mine)
  /\ UNCHANGED <<channel, made, retired, freed, deafened, serving, published, hostFreed, late,
                 pump, current, handles, replies, sends>>

FreeHost ==
  /\ EndAt("host", "stopping") /\ thread["host"].todo = {}
  /\ DestroyWaiting({c \in thread["host"].mine : Bare(c)}, "host")
  /\ hostFreed' = TRUE /\ Goto("host", "idle", {}, {})
  /\ UNCHANGED <<channel, made, retired, serving, sinks, published, late, pump, current, handles,
                 replies, sends>>

-----------------------------------------------------------------------------
\* close(), by the owner of an end: what is queued is dropped, the pump joined.
Close(e) ==
  /\ EndAt(e, "idle") /\ e \notin closed
  /\ closed' = closed \cup {e} /\ inbox' = [inbox EXCEPT ![e] = <<>>]
  /\ Goto(e, "join", {}, {})
  /\ UNCHANGED <<conns, host, pump, current, handles, replies, sends>>

Joined(e) ==
  /\ EndAt(e, "join") /\ pump[e].at = "idle"
  /\ Goto(e, "idle", {}, {})
  /\ UNCHANGED <<channel, conns, host, pump, current, handles, replies, sends>>

Thread(e) ==
  \/ Joined(e)
  \/ e = "page" /\ ~EndAt(e, "idle") /\ (PageClose \/ PageDrop \/ ConnectFails \/ ConnectToHost)
  \/ e = "host" /\ (AttachStart \/ StopConnection \/ StopClose \/ FreeHost)

WebNext ==
  \/ \E e \in Ends : Pump(e) \/ Thread(e) \/ Close(e)
  \/ Handler \/ ConnectToHost \/ Reconnect \/ RequestObject
  \/ AttachChannel \/ FanOutEvent \/ Reply \/ DestroyHost
  \/ \E is \in BOOLEAN : Publish(is)
  \/ \E c \in PageConns : \/ ReleaseObject(c)
                          \/ \E m \in {"call", "subscribe", "unsubscribe", "bad"} : PageSends(c, m)

WebSpec == WebInit /\ [][WebNext]_webVars

\* The pumps run, and the threads that have begun a teardown go on with it; a
\* mutex that is released again and again is had in the end.
FairWebSpec ==
  /\ WebSpec /\ WF_webVars(Handler)
  /\ \A e \in Ends : WF_webVars(Pump(e)) /\ SF_webVars(Thread(e))

-----------------------------------------------------------------------------
(* Properties.                                                             *)

\* "Once this loop returns no channel thread is still inside this host"
\* (~WebTransportHost), as far as messages go: none is dispatched to a host that
\* has been destroyed.
DispatchEndsWithHost == ~late

\* An open connection hears its channel, once started: its receiver is installed,
\* unless one that an object or a call had kept alive was destroyed after it.
HearsUnlessOlderDestroyed ==
  \A c \in ({current} \cup serving) \ (retired \cup {None}) :
    EndAt(End(c), "idle") => receiver[End(c)] = c \/ c \in deafened

\* Every teardown returns: the host's destructor, reconnect() and close() do not
\* wait for ever for a delivery, also when the delivery fails its connection,
\* detaches the receiver or destroys the connection itself.  User code that a
\* delivery runs is taken to return.
TeardownEnds == \A e \in Ends : ~EndAt(e, "idle") ~> EndAt(e, "idle")
=============================================================================
