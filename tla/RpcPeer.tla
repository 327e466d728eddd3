------------------------------ MODULE RpcPeer ------------------------------
(***************************************************************************)
(* RpcPeer (rpc_peer.cpp): the pending-call registry of one connection, at *)
(* the granularity of its mutex m_mu and its atomic m_stopped.  A handler  *)
(* waiting for a reply is contended for by four parties: dispatchIncoming  *)
(* on the connection's I/O thread, the sweep of fail() on whatever thread  *)
(* tears the connection down, cancelPending() on any thread, and the       *)
(* sender's own reclaim.  A step of the model is one critical section, one *)
(* access to m_stopped, or one invocation of a handler.                    *)
(*                                                                         *)
(* Every call of the model has an id of its own (nextId() is a counter)    *)
(* and a sending thread of its own; a handler that makes a new call while  *)
(* it runs is another sender interleaved with it.  The subscription maps   *)
(* of the class are in EventRouting.                                       *)
(***************************************************************************)
EXTENDS Naturals

CONSTANTS
  CallIds,     \* ids of calls (m_pendingCalls)
  MethodIds,   \* ids of method-table requests (m_pendingMethods)
  Stoppers,    \* threads that may call stop()
  Io           \* the connection's strand, which reads, dispatches and may fail

Ids == CallIds \cup MethodIds
Threads == Stoppers \cup {Io}

ASSUME IdsAssumption == CallIds \cap MethodIds = {}
ASSUME ThreadsAssumption == Io \notin Stoppers

VARIABLES
  pendingCalls,     \* keys of m_pendingCalls
  pendingMethods,   \* keys of m_pendingMethods
  stopped,          \* m_stopped
  errorHandler,     \* whether m_error holds a handler
  sender,           \* sender[i]: where the thread that sends i is
  sent,             \* ids whose frame was handed to the wire
  taken,            \* handler dispatchIncoming extracted and has yet to invoke
  failer,           \* the thread that won the CAS of fail()
  failStep,         \* where that thread is in fail()
  swept,            \* handlers fail() swept and has yet to invoke
  errCb,            \* whether fail() took an error handler out
  invoked,          \* how often the handler of i has been invoked
  outcome,          \* what the last invocation of i's handler was told
  gaveUp            \* ids for which cancelPending() was called

registry == <<pendingCalls, pendingMethods, stopped>>
failVars == <<failer, failStep, swept, errCb>>
answers  == <<invoked, outcome>>
vars == <<registry, errorHandler, sender, sent, taken, failVars, answers, gaveUp>>

SenderSteps == {"idle", "registered", "reclaim", "inline", "emit", "returned"}
FailSteps == {"none", "sweep", "answer", "notify", "error", "done"}
Outcomes == {"none", "reply", "transport_error", "transport_closed"}

pending == pendingCalls \cup pendingMethods

Init ==
  /\ pendingCalls = {} /\ pendingMethods = {}
  /\ stopped = FALSE
  /\ errorHandler = FALSE
  /\ sender = [i \in Ids |-> "idle"]
  /\ sent = {}
  /\ taken = {}
  /\ failer = Io /\ failStep = "none" /\ swept = {} /\ errCb = FALSE
  /\ invoked = [i \in Ids |-> 0]
  /\ outcome = [i \in Ids |-> "none"]
  /\ gaveUp = {}

-----------------------------------------------------------------------------
(* Helpers: the map an id lives in, and the invocation of a handler.       *)

Insert(i) ==
  /\ pendingCalls' = IF i \in CallIds THEN pendingCalls \cup {i} ELSE pendingCalls
  /\ pendingMethods' = IF i \in CallIds THEN pendingMethods ELSE pendingMethods \cup {i}

Erase(i) ==
  /\ pendingCalls' = pendingCalls \ {i}
  /\ pendingMethods' = pendingMethods \ {i}

Invoke(i, how) ==
  /\ invoked' = [invoked EXCEPT ![i] = @ + 1]
  /\ outcome' = [outcome EXCEPT ![i] = how]

Goto(i, from, to) ==
  /\ sender[i] = from
  /\ sender' = [sender EXCEPT ![i] = to]

-----------------------------------------------------------------------------
(* sendCallAsync / sendMethods, in the order of their statements.          *)

\* Mutation of Register: the frame is written before m_stopped is looked at.
RegisterAndSend(i) ==
  /\ Goto(i, "idle", "registered")
  /\ Insert(i)
  /\ sent' = sent \cup {i}
  /\ UNCHANGED <<stopped, errorHandler, taken, failVars, answers, gaveUp>>

\* Register the handler, under m_mu, before m_stopped is looked at.
Register(i) ==
  /\ Goto(i, "idle", "registered")
  /\ Insert(i)
  /\ UNCHANGED <<stopped, errorHandler, sent, taken, failVars, answers, gaveUp>>

\* Mutation of CheckStopped: m_stopped was looked at before the registration only.
CheckNothing(i) ==
  /\ Goto(i, "registered", "emit")
  /\ UNCHANGED <<registry, errorHandler, sent, taken, failVars, answers, gaveUp>>

\* m_stopped.load()
CheckStopped(i) ==
  /\ Goto(i, "registered", IF stopped THEN "reclaim" ELSE "emit")
  /\ UNCHANGED <<registry, errorHandler, sent, taken, failVars, answers, gaveUp>>

\* Take back one's own registration; finding none means somebody has it.
Reclaim(i) ==
  /\ Goto(i, "reclaim", IF i \in pending THEN "inline" ELSE "returned")
  /\ Erase(i)
  /\ UNCHANGED <<stopped, errorHandler, sent, taken, failVars, answers, gaveUp>>

\* The reclaimed handler is invoked on the caller's thread, m_mu released.
AnswerInline(i) ==
  /\ Goto(i, "inline", "returned")
  /\ Invoke(i, "transport_closed")
  /\ UNCHANGED <<registry, errorHandler, sent, taken, failVars, gaveUp>>

\* emitMessage: a stopped connection drops the frame.
Emit(i) ==
  /\ Goto(i, "emit", "returned")
  /\ sent' = IF stopped THEN sent ELSE sent \cup {i}
  /\ UNCHANGED <<registry, errorHandler, taken, failVars, answers, gaveUp>>

-----------------------------------------------------------------------------
(* cancelPending: any thread, any time, even before the registration       *)
(* exists (an asynchronous call's deadline is armed before its send).      *)

CancelPending(i) ==
  /\ i \notin gaveUp
  /\ gaveUp' = gaveUp \cup {i}
  /\ Erase(i)
  /\ UNCHANGED <<stopped, errorHandler, sender, sent, taken, failVars, answers>>

SetErrorHandler ==
  /\ errorHandler' = TRUE
  /\ ~errorHandler
  /\ UNCHANGED <<registry, sender, sent, taken, failVars, answers, gaveUp>>

-----------------------------------------------------------------------------
(* dispatchIncoming of a Result or MethodsResult frame on the I/O thread:  *)
(* extract under m_mu, then invoke with m_mu released.  The peer answers   *)
(* what it was sent, possibly more than once.  There is no check of        *)
(* m_stopped on this path: frames decoded after a fail() in the same batch *)
(* are dispatched.  A reply that finds no registration changes nothing.    *)

IoBusy == taken # {} \/ (failer = Io /\ failStep \notin {"none", "done"})

\* Mutation of TakeReply: the handler is copied out, its entry left in the map.
CopyReply(i) ==
  /\ ~IoBusy
  /\ i \in sent
  /\ i \in pending
  /\ taken' = {i}
  /\ UNCHANGED <<registry, errorHandler, sender, sent, failVars, answers, gaveUp>>

TakeReply(i) ==
  /\ ~IoBusy
  /\ i \in sent
  /\ i \in pending
  /\ taken' = {i}
  /\ Erase(i)
  /\ UNCHANGED <<stopped, errorHandler, sender, sent, failVars, answers, gaveUp>>

InvokeTaken(i) ==
  /\ i \in taken
  /\ taken' = taken \ {i}
  /\ Invoke(i, "reply")
  /\ UNCHANGED <<registry, errorHandler, sender, sent, failVars, gaveUp>>

-----------------------------------------------------------------------------
(* fail(): only the winner of the CAS does anything.                       *)

FailCas(t) ==
  /\ ~stopped
  /\ t = Io => ~IoBusy
  /\ stopped' = TRUE
  /\ failer' = t
  /\ failStep' = "sweep"
  /\ UNCHANGED <<pendingCalls, pendingMethods, errorHandler, sender, sent, taken,
                 swept, errCb, answers, gaveUp>>

\* Mutation of Sweep: the method-table requests are not swept.
SweepCallsOnly ==
  /\ failStep = "sweep"
  /\ swept' = pendingCalls
  /\ pendingCalls' = {}
  /\ errCb' = errorHandler
  /\ errorHandler' = FALSE
  /\ failStep' = "answer"
  /\ UNCHANGED <<pendingMethods, stopped, sender, sent, taken, failer, answers, gaveUp>>

Sweep ==
  /\ failStep = "sweep"
  /\ swept' = pending
  /\ pendingCalls' = {} /\ pendingMethods' = {}
  /\ errCb' = errorHandler
  /\ errorHandler' = FALSE
  /\ failStep' = "answer"
  /\ UNCHANGED <<stopped, sender, sent, taken, failer, answers, gaveUp>>

\* Calls first, then method-table requests.
AnswerSwept(i) ==
  /\ failStep = "answer"
  /\ i \in swept
  /\ i \in MethodIds => swept \cap CallIds = {}
  /\ swept' = swept \ {i}
  /\ Invoke(i, "transport_error")
  /\ UNCHANGED <<registry, errorHandler, sender, sent, taken, failer, failStep,
                 errCb, gaveUp>>

\* closeTransport(), m_handler->onConnectionClosed(), errCb(reason).
FailNext(from, to) ==
  /\ failStep = from
  /\ failStep' = to
  /\ UNCHANGED <<registry, errorHandler, sender, sent, taken, failer, swept,
                 answers, gaveUp>>

CloseTransport == swept = {} /\ FailNext("answer", "notify") /\ UNCHANGED errCb
NotifyClosed   == FailNext("notify", "error") /\ UNCHANGED errCb
FireError      == FailNext("error", "done") /\ errCb' = FALSE

-----------------------------------------------------------------------------
SenderStep(i) ==
  CheckStopped(i) \/ Reclaim(i) \/ AnswerInline(i) \/ Emit(i)

FailStep ==
  Sweep \/ (\E i \in Ids : AnswerSwept(i)) \/ CloseTransport \/ NotifyClosed \/ FireError

Next ==
  \/ \E i \in Ids : \/ Register(i)
                    \/ CheckStopped(i) \/ Reclaim(i) \/ AnswerInline(i) \/ Emit(i)
                    \/ CancelPending(i)
                    \/ TakeReply(i) \/ InvokeTaken(i)
                    \/ AnswerSwept(i)
  \/ SetErrorHandler
  \/ \E t \in Threads : FailCas(t)
  \/ Sweep \/ CloseTransport \/ NotifyClosed \/ FireError

Spec == Init /\ [][Next]_vars

\* A thread inside a function of the class keeps running; nobody is obliged
\* to call in, to answer, to give up or to tear down.
Fairness ==
  /\ \A i \in Ids : WF_vars(SenderStep(i)) /\ WF_vars(InvokeTaken(i))
  /\ WF_vars(FailStep)

FairSpec == Spec /\ Fairness

-----------------------------------------------------------------------------
\* The types of the registry; and each request lives in the map of its kind
\* (m_pendingCalls or m_pendingMethods), where its reply is looked up.
TypeOK ==
  /\ pendingCalls \subseteq CallIds
  /\ pendingMethods \subseteq MethodIds
  /\ stopped \in BOOLEAN
  /\ errorHandler \in BOOLEAN
  /\ sender \in [Ids -> SenderSteps]
  /\ sent \subseteq Ids
  /\ taken \subseteq Ids
  /\ failer \in Threads
  /\ failStep \in FailSteps
  /\ swept \subseteq Ids
  /\ errCb \in BOOLEAN
  /\ invoked \in [Ids -> Nat]
  /\ outcome \in [Ids -> Outcomes]
  /\ gaveUp \subseteq Ids

\* A handler that some thread holds or that sits in a map.
Inline(i) == sender[i] = "inline"
Live(i) == i \in pending \/ i \in taken \/ i \in swept \/ Inline(i)

\* AT MOST ONCE (rpc_connection_base.h, ResultHandler): of the reply, the
\* teardown sweep, the cancel and the sender's reclaim, at most one gets to
\* invoke the handler of a call.
AtMostOnce == \A i \in Ids : invoked[i] <= 1

\* AT LEAST ONCE, as a state predicate: once fail() has swept, a handler left
\* in a map belongs to a sender that has not re-read m_stopped, or that has
\* read it as true, and so will take the handler back itself.
NoneStranded ==
  failStep \notin {"none", "sweep"} =>
    \A i \in pending : sender[i] \in {"registered", "reclaim"}

\* No handler is lost: a call that was handed to the connection has its handler
\* in a map, in the hands of exactly the thread that will invoke it, or
\* invoked, unless its caller gave up.
NoneLost ==
  \A i \in Ids : sender[i] # "idle" => Live(i) \/ invoked[i] = 1 \/ i \in gaveUp

\* A call answered with TRANSPORT_CLOSED was never put on the wire, so that a
\* caller that retries on that code cannot run the method twice.
ClosedMeansUnsent ==
  \A i \in Ids : outcome[i] = "transport_closed" => i \notin sent

\* The contract of the connection, with the registry, the threads and the
\* steps of fail() hidden.
PhaseOf(i) ==
  IF invoked[i] > 0 THEN (IF invoked[i] = 1 THEN "answered" ELSE "answered twice")
  ELSE IF sender[i] = "idle" THEN "idle"
  ELSE IF Live(i) THEN "waiting" ELSE "dropped"

Contract == INSTANCE CallContract WITH
  phase <- [i \in Ids |-> PhaseOf(i)],
  open  <- ~stopped

\* RpcPeer implements CallContract, its liveness included: after a teardown
\* every call that was not given up is answered.
ImplementsContract == Contract!Spec
=============================================================================
