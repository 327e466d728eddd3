----------------------------- MODULE HostDispatch -----------------------------
(***************************************************************************)
(* A plain host: the listener and its connections (rpc_server.cpp), the    *)
(* requests that the shared I/O thread hands over to the modules' thread   *)
(* (plain_transport_host.cpp) and the host's destructor, which runs on its *)
(* owner's thread beside both.  Connections call the host through a raw    *)
(* pointer.                                                                *)
(*                                                                         *)
(* The I/O thread runs one handler at a time, in no order the model relies *)
(* on: Asio promises none between two strands.  Published modules outlive  *)
(* the requests posted to them; their owner is not part of this code.      *)
(***************************************************************************)
EXTENDS Naturals, Sequences, FiniteSets

CONSTANTS
  Conns,      \* clients that may connect
  Modules,    \* the modules of the host, a sequence in the order of their names
  Requests,   \* frames the clients will send
  Of          \* Of[r]: [conn, kind ("call", "methods" or "token"), module, name]

ASSUME RequestsAssumption ==
  \A r \in Requests : /\ Of[r].conn \in Conns
                      /\ Of[r].kind \in {"call", "methods", "token"}
                      /\ \E i \in DOMAIN Modules : Modules[i] = Of[r].module

Names == {Modules[i] : i \in DOMAIN Modules}

VARIABLES
  \* PlainTransportHost
  owner,      \* the owner's thread: [at, c, took]
  published,  \* m_published
  \* RpcServerTcp, RpcServerSsl
  tls,        \* which of the two
  listening,  \* m_acceptor: "no", "armed", "idle" (its handler runs), "closed"
  stopped,    \* m_stopped
  conns,      \* m_conns
  doomed,     \* the list stop() took, not yet stopped
  \* RpcConnection
  conn,       \* "away", "backlog", "shaking", "shaken", "made", "open", "over"
  dead,       \* connections whose own m_stopped is set
  cyclic,     \* connections whose m_error is set, which holds the connection itself
  \* the I/O thread and the modules' thread
  io,         \* the handler that runs: [at, c, took]
  inbox,      \* frames that have arrived on a connection
  batch,      \* frames of the current read
  posted,     \* events of the modules' thread: [r, module]
  barrier,    \* "none", "queued", "run": the task the destructor waits for
  \* history, read by properties only
  sent,       \* frames the clients have sent
  answered,   \* answered[r]: how often r was replied to
  misused,    \* the handler was called after its host was freed
  late        \* the destructor stopped waiting

host == <<owner, published>>
server == <<tls, listening, stopped, conns, doomed>>
peers == <<conn, dead, cyclic>>
threads == <<io, inbox, batch, posted, barrier>>
history == <<sent, answered, misused, late>>
vars == <<host, server, peers, threads, history>>

At(at, c) == [at |-> at, c |-> c, took |-> FALSE]
Nobody == "nobody"
Idle == At("idle", Nobody)

Init ==
  /\ owner = Idle /\ published = {}
  /\ tls \in BOOLEAN /\ listening = "no" /\ stopped = FALSE /\ conns = {} /\ doomed = {}
  /\ conn = [c \in Conns |-> "away"] /\ dead = {} /\ cyclic = {}
  /\ io = Idle /\ inbox = [c \in Conns |-> <<>>] /\ batch = <<>> /\ posted = <<>>
  /\ barrier = "none"
  /\ sent = {} /\ answered = [r \in Requests |-> 0]
  /\ misused = FALSE /\ late = FALSE

Freed == owner.at = "freed"

-----------------------------------------------------------------------------
(* The owner's calls and the clients.                                      *)

\* PlainTransportHost::start: open, bind and listen, the first accept armed.
Start ==
  /\ owner = Idle /\ listening = "no"
  /\ listening' = "armed"
  /\ UNCHANGED <<host, tls, stopped, conns, doomed, peers, threads, history>>

PublishObject(m) ==
  /\ owner = Idle /\ m \notin published
  /\ published' = published \cup {m}
  /\ UNCHANGED <<owner, server, peers, threads, history>>

UnpublishObject(m) ==
  /\ owner = Idle /\ m \in published
  /\ published' = published \ {m}
  /\ UNCHANGED <<owner, server, peers, threads, history>>

\* A client's connect is served by the backlog as soon as listen() has run.
Connect(c) ==
  /\ conn[c] = "away" /\ listening \in {"armed", "idle"}
  /\ conn' = [conn EXCEPT ![c] = "backlog"]
  /\ UNCHANGED <<host, server, dead, cyclic, threads, history>>

Send(r) ==
  LET c == Of[r].conn IN
  /\ r \notin sent /\ conn[c] # "away"
  /\ sent' = sent \cup {r}
  /\ inbox' = [inbox EXCEPT ![c] = Append(@, r)]
  /\ UNCHANGED <<host, server, peers, io, batch, posted, barrier, answered, misused, late>>

-----------------------------------------------------------------------------
(* The listener, on the I/O thread.                                        *)

\* The accept completes.  A TLS server starts the handshake, which completes
\* off the strand, and accepts again at once.
Accept(c) ==
  /\ io = Idle /\ listening = "armed" /\ conn[c] = "backlog"
  /\ IF tls THEN /\ conn' = [conn EXCEPT ![c] = "shaking"] /\ UNCHANGED <<io, listening>>
            ELSE /\ conn' = [conn EXCEPT ![c] = "shaken"]
                 /\ io' = At("make", c) /\ listening' = "idle"
  /\ UNCHANGED <<host, tls, stopped, conns, doomed, dead, cyclic, inbox, batch, posted, barrier, history>>

Handshake(c, ok) ==
  /\ io = Idle /\ conn[c] = "shaking"
  /\ IF ok THEN conn' = [conn EXCEPT ![c] = "shaken"] /\ io' = At("make", c)
           ELSE conn' = [conn EXCEPT ![c] = "over"] /\ UNCHANGED io
  /\ UNCHANGED <<host, server, dead, cyclic, inbox, batch, posted, barrier, history>>

\* Mutation of Make: the connection is listed without a look at m_stopped.
MakeAnyway ==
  /\ io.at = "make"
  /\ conn' = [conn EXCEPT ![io.c] = "made"] /\ conns' = conns \cup {io.c}
  /\ io' = At("equip", io.c)
  /\ UNCHANGED <<host, tls, listening, stopped, doomed, dead, cyclic, inbox, batch, posted,
                 barrier, history>>

\* Test and publish under one lock: after stop() the socket is dropped.
Make ==
  /\ io.at = "make"
  /\ IF stopped
     THEN /\ conn' = [conn EXCEPT ![io.c] = "over"] /\ io' = Idle /\ UNCHANGED conns
     ELSE /\ conn' = [conn EXCEPT ![io.c] = "made"] /\ conns' = conns \cup {io.c}
          /\ io' = At("equip", io.c)
  /\ UNCHANGED <<host, tls, listening, stopped, doomed, dead, cyclic, inbox, batch, posted,
                 barrier, history>>

\* setErrorHandler: the handler holds the connection it is stored in.
Equip ==
  /\ io.at = "equip"
  /\ cyclic' = cyclic \cup {io.c}
  /\ io' = At("start", io.c)
  /\ UNCHANGED <<host, server, conn, dead, inbox, batch, posted, barrier, history>>

\* The connection reads, and a TCP server accepts again; on an acceptor that
\* has been closed meanwhile that fails and ends the loop.
Begin ==
  /\ io.at = "start"
  /\ conn' = [conn EXCEPT ![io.c] = "open"]
  /\ listening' = IF listening = "idle" THEN "armed" ELSE listening
  /\ io' = Idle
  /\ UNCHANGED <<host, tls, stopped, conns, doomed, dead, cyclic, inbox, batch, posted, barrier, history>>

-----------------------------------------------------------------------------
(* Requests: the I/O thread looks the module up and posts to its thread.   *)

\* A read completes.  On a stopped connection its bytes are dropped.
Read(c) ==
  /\ io = Idle /\ conn[c] = "open" /\ inbox[c] # <<>>
  /\ IF c \in dead
     THEN conn' = [conn EXCEPT ![c] = "over"] /\ UNCHANGED <<io, inbox, batch>>
     ELSE /\ io' = At("dispatch", c) /\ batch' = inbox[c]
          /\ inbox' = [inbox EXCEPT ![c] = <<>>] /\ UNCHANGED conn
  /\ UNCHANGED <<host, server, dead, cyclic, posted, barrier, history>>

\* reply() writes on the connection the request came from; on a stopped one
\* the frame is dropped.
Reply(r) == answered' = IF Of[r].conn \in dead THEN answered ELSE [answered EXCEPT ![r] = @ + 1]

\* onToken: the frame names the caller the token is for, not the module the
\* push was addressed to; without a module of that name it goes to the first.
TokenModule(r) ==
  IF Of[r].name \in published THEN Of[r].name
  ELSE Modules[CHOOSE i \in DOMAIN Modules :
                 /\ Modules[i] \in published
                 /\ \A j \in 1..(i - 1) : Modules[j] \notin published]

\* Mutation of Receive: a request for an object that is not there is dropped.
ReceiveSilently(r) ==
  /\ misused' = (misused \/ Freed)
  /\ posted' = IF Of[r].module \in published THEN Append(posted, [r |-> r, module |-> Of[r].module])
               ELSE posted
  /\ UNCHANGED answered

\* onCall, onMethods, onToken: an object that is not published is answered at
\* once, except for a token, which is dropped.
Receive(r) ==
  /\ misused' = (misused \/ Freed)
  /\ CASE Of[r].kind = "token" /\ published = {} -> UNCHANGED <<posted, answered>>
       [] Of[r].kind = "token" /\ published # {} ->
            posted' = Append(posted, [r |-> r, module |-> TokenModule(r)]) /\ UNCHANGED answered
       [] Of[r].kind # "token" /\ Of[r].module \notin published -> Reply(r) /\ UNCHANGED posted
       [] OTHER -> posted' = Append(posted, [r |-> r, module |-> Of[r].module]) /\ UNCHANGED answered

\* The frames of one read are dispatched one after the other.
Dispatch ==
  /\ io.at = "dispatch" /\ batch # <<>>
  /\ Receive(Head(batch))
  /\ batch' = Tail(batch)
  /\ UNCHANGED <<host, server, peers, io, inbox, barrier, sent, late>>

DispatchEnds ==
  /\ io.at = "dispatch" /\ batch = <<>>
  /\ io' = Idle
  /\ UNCHANGED <<host, server, peers, inbox, batch, posted, barrier, history>>

\* The modules' thread runs a posted event: callRemoteMethod and
\* getPluginMethods are replied to, informModuleToken is not.
RunPosted ==
  /\ posted # <<>>
  /\ LET e == Head(posted) IN
       IF Of[e.r].kind = "token" THEN UNCHANGED answered ELSE Reply(e.r)
  /\ posted' = Tail(posted)
  /\ UNCHANGED <<host, server, peers, io, inbox, batch, barrier, sent, misused, late>>

-----------------------------------------------------------------------------
(* fail(), on the I/O thread or, through stop(), on the owner's.           *)

\* The first to set m_stopped goes on and takes the error handler.
Taken(c) == [at |-> "notify", c |-> c, took |-> c \in cyclic]

\* A read or a write fails.  The handler of a stopped connection ends here.
ReadFails(c) ==
  /\ io = Idle /\ conn[c] = "open"
  /\ conn' = [conn EXCEPT ![c] = "over"]
  /\ IF c \in dead THEN UNCHANGED <<io, dead, cyclic>>
     ELSE io' = Taken(c) /\ dead' = dead \cup {c} /\ cyclic' = cyclic \ {c}
  /\ UNCHANGED <<host, server, inbox, batch, posted, barrier, history>>

\* onConnectionClosed, a call of the host; then the error handler unlists the
\* connection.
IoNotify ==
  /\ io.at = "notify"
  /\ misused' = (misused \/ Freed)
  /\ io' = [io EXCEPT !.at = "unlist"]
  /\ UNCHANGED <<host, server, peers, inbox, batch, posted, barrier, sent, answered, late>>

Unlist(t) == conns' = IF t.took THEN conns \ {t.c} ELSE conns

IoUnlist ==
  /\ io.at = "unlist"
  /\ Unlist(io) /\ io' = Idle
  /\ UNCHANGED <<host, tls, listening, stopped, doomed, peers, inbox, batch, posted, barrier, history>>

-----------------------------------------------------------------------------
(* The destructor.                                                         *)

\* m_published and the listener are moved out under m_mu.
Destroy ==
  /\ owner = Idle
  /\ owner' = At(IF listening = "no" THEN "freed" ELSE "stop", Nobody)
  /\ published' = {}
  /\ UNCHANGED <<server, peers, threads, history>>

\* RpcServer::stop: the flag and the list under one lock, the acceptor's close
\* queued on its strand.
ServerStop ==
  /\ owner.at = "stop"
  /\ stopped' = TRUE /\ doomed' = conns /\ conns' = {}
  /\ owner' = At("stopping", Nobody)
  /\ UNCHANGED <<published, tls, listening, peers, threads, history>>

\* The queued close: no accept completes any more.
CloseAcceptor ==
  /\ io = Idle /\ stopped /\ listening # "closed"
  /\ listening' = "closed"
  /\ UNCHANGED <<host, tls, stopped, conns, doomed, peers, threads, history>>

StopOne(c) ==
  /\ owner.at = "stopping" /\ c \in doomed
  /\ doomed' = doomed \ {c}
  /\ IF c \in dead THEN UNCHANGED <<owner, dead, cyclic>>
     ELSE owner' = Taken(c) /\ dead' = dead \cup {c} /\ cyclic' = cyclic \ {c}
  /\ UNCHANGED <<published, tls, listening, stopped, conns, conn, threads, history>>

OwnerNotify ==
  /\ owner.at = "notify"
  /\ Unlist(owner) /\ owner' = At("stopping", Nobody)
  /\ UNCHANGED <<published, tls, listening, stopped, doomed, peers, threads, history>>

\* Mutation of PostBarrier: the host is freed once its sockets are closed.
NoBarrier ==
  /\ owner.at = "stopping" /\ doomed = {}
  /\ owner' = At("freed", Nobody)
  /\ UNCHANGED <<barrier, published, server, peers, io, inbox, batch, posted, history>>

\* A task for the I/O thread: when it has run, the handler that ran has ended.
PostBarrier ==
  /\ owner.at = "stopping" /\ doomed = {}
  /\ barrier' = "queued" /\ owner' = At("drain", Nobody)
  /\ UNCHANGED <<published, server, peers, io, inbox, batch, posted, history>>

RunBarrier ==
  /\ io = Idle /\ barrier = "queued"
  /\ barrier' = "run"
  /\ UNCHANGED <<host, server, peers, io, inbox, batch, posted, history>>

\* ... or five seconds have passed.
Drained ==
  /\ owner.at = "drain"
  /\ late' = (barrier # "run")
  /\ owner' = At("freed", Nobody)
  /\ UNCHANGED <<published, server, peers, threads, sent, answered, misused>>

-----------------------------------------------------------------------------
IoHandler ==
  \/ Make \/ Equip \/ Begin \/ Dispatch \/ DispatchEnds \/ IoNotify \/ IoUnlist
OwnerStep ==
  \/ ServerStop \/ OwnerNotify \/ PostBarrier \/ Drained
  \/ \E c \in Conns : StopOne(c)

Next ==
  \/ Start \/ Destroy \/ CloseAcceptor \/ RunBarrier \/ RunPosted
  \/ IoHandler \/ OwnerStep
  \/ \E m \in Names : PublishObject(m) \/ UnpublishObject(m)
  \/ \E c \in Conns : Connect(c) \/ Accept(c) \/ Read(c) \/ ReadFails(c)
  \/ \E c \in Conns, ok \in BOOLEAN : Handshake(c, ok)
  \/ \E r \in Requests : Send(r)

Spec == Init /\ [][Next]_vars

\* The I/O thread runs its handlers and comes to each completion, the modules'
\* loop runs its events.  Nothing makes a client connect or a host be destroyed.
FairSpec ==
  /\ Spec
  /\ WF_vars(IoHandler) /\ WF_vars(RunPosted) /\ WF_vars(OwnerStep)
  /\ \A c \in Conns : SF_vars(Read(c))

-----------------------------------------------------------------------------
\* No connection calls the host after it has been freed, whatever the I/O
\* thread was doing when the destructor began, unless the wait for it timed out.
HandlerAlive == misused => late

\* A host that is gone leaves no connection open behind it and none in the
\* list: an accept or a handshake that races stop() is listed before it, and
\* stopped by it, or dropped.
NoneSurvives ==
  Freed => \A c \in Conns : conn[c] \in {"made", "open"} => c \in dead /\ c \notin conns

\* A call that has arrived on an open connection is answered, at once or by the
\* module's thread, unless the connection dies: also when its module is
\* withdrawn meanwhile.
CallAnswered ==
  \A r \in Requests :
    LET c == Of[r].conn IN
    r \in sent /\ conn[c] = "open" /\ Of[r].kind # "token" ~> answered[r] = 1 \/ c \in dead

=============================================================================
