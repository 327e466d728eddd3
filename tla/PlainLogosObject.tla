-------------------------- MODULE PlainLogosObject --------------------------
(***************************************************************************)
(* One handle on a remote object (plain_logos_object.cpp): its synchronous *)
(* and asynchronous calls, their deadlines, the deferred completions of a  *)
(* "multi" provider, and release() while calls are in flight.  A step is   *)
(* one critical section of CallState::mu, one atomic operation, one call   *)
(* into the connection or one task of a strand.                            *)
(*                                                                         *)
(* The connection is used through the contract RpcPeer is shown to keep    *)
(* (CallContract): a registered handler is taken out at most once, by its  *)
(* reply, by the teardown sweep or by cancelPending, and is then run.      *)
(* Time is left out: an armed deadline may expire at any moment.           *)
(***************************************************************************)
EXTENDS Naturals, Sequences, FiniteSets, SequencesExt

CONSTANTS
  Async,       \* callMethodAsync* calls, one thread each
  Sync,        \* callMethod* calls, one thread each
  Multi,       \* those of them whose provider defers: it answers a sentinel and
               \* later emits a completion event that carries the call's id
  Foreign,     \* completions of calls made through other handles
  ParkedCap,   \* kParkedCompletionCap
  Env,         \* a bound: which of "fail", "disconnect" and "release" may happen
  Mixes,       \* a bound: the calls and foreign completions that may meet
  NoCall

Calls == Async \cup Sync
Keys == Calls \cup Foreign
Workers == Async \cup {"io", "timer", "fail", "release"}

ASSUME SetsAssumption ==
  /\ Async \cap Sync = {} /\ Calls \cap Foreign = {}
  /\ Multi \subseteq Calls
  /\ NoCall \notin Keys
  /\ Async \cap {"io", "timer", "fail", "release"} = {}
ASSUME EnvAssumption == Env \subseteq {"fail", "disconnect", "release"}
ASSUME MixAssumption == Mixes \subseteq SUBSET Keys
ASSUME CapAssumption == ParkedCap \in Nat \ {0}

VARIABLES
  \* CallState, guarded by its mutex
  inflight, deferred,  \* asynchronous calls, as the keys of the two maps
  parked,              \* completionOrder; its elements are the keys of completions
  syncOut,             \* the synchronous calls counted by syncOutstanding
  stopping,
  \* the handle
  subscribed,          \* its completion channel is registered at the connection
  subFlag,             \* m_completionSubscribed
  inside,              \* calls holding an EntryGuard
  owner,               \* the owner's reference; liveRefs = owner + |inside|
  destroyed,
  relStep,             \* where release() is
  cancelling,          \* calls stopAndCancelCalls() has yet to deliver
  \* the connection, as its contract presents it
  open, pending, swept,
  sent,                \* calls whose frame the provider may have seen
  completed,           \* completion events the provider has emitted
  \* the calls
  pc,                  \* where the calling thread is
  future,              \* what the future of a synchronous call holds
  result,              \* what the caller was told
  delivered,           \* AsyncCall::delivered
  hasCallId,           \* AsyncCall::callId is set
  posted,              \* how often the callback was handed to postDelivery
  timerQ, armed,       \* the strand of the call's timer, and its pending wait
  job,                 \* what each worker thread is in the middle of
  \* history, read by properties only
  arrived,             \* completions that reached this handle's event handler
  evicted              \* completions pushed out by the cap

callState == <<inflight, deferred, parked, syncOut, stopping>>
handle == <<subscribed, subFlag, inside, owner, destroyed, relStep, cancelling>>
conn == <<open, pending, swept, sent, completed>>
timers == <<timerQ, armed>>
asyncCall == <<delivered, hasCallId, posted, timers>>
callers == <<pc, future, result>>
history == <<arrived, evicted>>
vars == <<callState, handle, conn, asyncCall, callers, job, history>>

Idle == [call |-> NoCall, step |-> "idle", how |-> "none"]
Job(c, step, how) == [call |-> c, step |-> step, how |-> how]
Free(w) == job[w] = Idle

Init ==
  /\ inflight = {} /\ deferred = {} /\ parked = <<>> /\ syncOut = {} /\ stopping = FALSE
  /\ subscribed = FALSE /\ subFlag = FALSE /\ inside = {} /\ owner = TRUE
  /\ destroyed = FALSE /\ relStep = "none" /\ cancelling = {}
  /\ open = TRUE /\ pending = {} /\ swept = {} /\ sent = {} /\ completed = {}
  /\ pc = [c \in Calls |-> "idle"]
  /\ future = [s \in Sync |-> "none"]
  /\ result = [c \in Calls |-> "none"]
  /\ delivered = {} /\ hasCallId = {}
  /\ posted = [c \in Async |-> 0]
  /\ timerQ = [c \in Async |-> <<>>] /\ armed = {}
  /\ job = [w \in Workers |-> Idle]
  /\ arrived = {} /\ evicted = {}

-----------------------------------------------------------------------------
(* CallState's own operations.                                             *)

Busy(in, def, syn) == syn # {} \/ in # {} \/ def # {}

\* dropUnclaimedIfIdle, for the registries as they are after an erase.
DropUnclaimedIfIdle(in, def, syn) ==
  parked' = IF Busy(in, def, syn) THEN parked ELSE <<>>

\* parkCompletion: keep a completion only while a call could still claim it,
\* in order of arrival, and push out the oldest beyond the cap.
ParkCompletion(k) ==
  IF ~Busy(inflight, deferred, syncOut) \/ Contains(parked, k)
  THEN UNCHANGED <<parked, evicted>>
  ELSE IF Len(parked) < ParkedCap
  THEN parked' = Append(parked, k) /\ UNCHANGED evicted
  ELSE parked' = Append(Tail(parked), k) /\ evicted' = evicted \cup {Head(parked)}

TakeCompletion(k) == \E i \in 1..Len(parked) : parked[i] = k /\ parked' = RemoveAt(parked, i)

\* k may join the calls made and the foreign completions seen so far.
Joins(k) ==
  \E mix \in Mixes :
    {k} \cup {c \in Calls : pc[c] # "idle"} \cup (completed \cap Foreign) \subseteq mix

Goto(c, from, to) == pc[c] = from /\ pc' = [pc EXCEPT ![c] = to]

PostTimer(c, task) == timerQ' = [timerQ EXCEPT ![c] = Append(@, task)]

\* Mutation of DropReference: release() deletes whoever is inside.
DeleteOnRelease(ownerAfter, insideAfter) ==
  /\ owner' = ownerAfter
  /\ inside' = insideAfter
  /\ destroyed' = ~ownerAfter
  /\ UNCHANGED <<subscribed, stopping, cancelling, inflight, deferred, parked>>

\* The last reference gone deletes the object: the destructor withdraws the
\* subscriptions and runs stopAndCancelCalls once more.
DropReference(ownerAfter, insideAfter) ==
  /\ owner' = ownerAfter
  /\ inside' = insideAfter
  /\ IF ~ownerAfter /\ insideAfter = {}
     THEN /\ destroyed' = TRUE
          /\ subscribed' = FALSE
          /\ stopping' = TRUE
          /\ cancelling' = inflight
          /\ inflight' = {} /\ deferred' = {} /\ parked' = <<>>
     ELSE UNCHANGED <<destroyed, subscribed, stopping, cancelling, inflight, deferred, parked>>

-----------------------------------------------------------------------------
(* AsyncCall::deliver, on any worker thread: leave the handle's registries *)
(* first, claim the call, withdraw its registration from the connection,   *)
(* cancel the timer and hand the callback over.                            *)

DeliverLeave(w) ==
  /\ job[w].step = "leave"
  /\ LET c == job[w].call
         in == inflight \ {c}
         def == IF c \in hasCallId THEN deferred \ {c} ELSE deferred
     IN IF destroyed
        THEN UNCHANGED callState
        ELSE /\ inflight' = in /\ deferred' = def
             /\ DropUnclaimedIfIdle(in, def, syncOut)
             /\ UNCHANGED <<syncOut, stopping>>
  /\ job' = [job EXCEPT ![w].step = "claim"]
  /\ UNCHANGED <<handle, conn, asyncCall, callers, history>>

\* Mutation of DeliverClaim: no compare-and-swap.
DeliverUnclaimed(w) ==
  /\ job[w].step = "claim"
  /\ delivered' = delivered \cup {job[w].call}
  /\ job' = [job EXCEPT ![w].step = "withdraw"]
  /\ UNCHANGED <<callState, handle, conn, hasCallId, posted, timers, callers, history>>

DeliverClaim(w) ==
  /\ job[w].step = "claim"
  /\ IF job[w].call \in delivered
     THEN job' = [job EXCEPT ![w] = Idle] /\ UNCHANGED delivered
     ELSE /\ delivered' = delivered \cup {job[w].call}
          /\ job' = [job EXCEPT ![w].step = "withdraw"]
  /\ UNCHANGED <<callState, handle, conn, hasCallId, posted, timers, callers, history>>

DeliverWithdraw(w) ==
  /\ job[w].step = "withdraw"
  /\ pending' = pending \ {job[w].call}
  /\ job' = [job EXCEPT ![w].step = "post"]
  /\ UNCHANGED <<callState, handle, open, swept, sent, completed, asyncCall, callers, history>>

DeliverPost(w) ==
  /\ job[w].step = "post"
  /\ LET c == job[w].call IN
       /\ PostTimer(c, "cancel")
       /\ posted' = [posted EXCEPT ![c] = @ + 1]
       /\ result' = [result EXCEPT ![c] = job[w].how]
  /\ job' = [job EXCEPT ![w] = Idle]
  /\ UNCHANGED <<callState, handle, conn, delivered, hasCallId, armed, pc, future, history>>

-----------------------------------------------------------------------------
(* callAsync, on the caller's thread.  The caller's own rule is that no    *)
(* call is begun at or after release().                                    *)

MayEnter(c) == pc[c] = "idle" /\ relStep = "none" /\ Joins(c)

\* EntryGuard, and the early return on a closed connection.
EnterAsync(c) ==
  /\ MayEnter(c)
  /\ inside' = inside \cup {c}
  /\ IF open
     THEN pc' = [pc EXCEPT ![c] = "entered"] /\ UNCHANGED <<posted, result>>
     ELSE /\ pc' = [pc EXCEPT ![c] = "leave"]
          /\ posted' = [posted EXCEPT ![c] = @ + 1]
          /\ result' = [result EXCEPT ![c] = "error"]
  /\ UNCHANGED <<callState, subscribed, subFlag, owner, destroyed, relStep, cancelling,
                 conn, delivered, hasCallId, timers, future, job, history>>

EnsureCompletionSub ==
  /\ subFlag' = TRUE
  /\ subscribed' = (subscribed \/ ~subFlag)

\* Mutation of ArmDeadline: no deadline.
ArmNothing(c) ==
  /\ Goto(c, "entered", "subscribed")
  /\ EnsureCompletionSub
  /\ UNCHANGED <<callState, inside, owner, destroyed, relStep, cancelling, conn, asyncCall,
                 future, result, job, history>>

\* ensureCompletionSub, nextId, armTimer (posted to the timer's strand).
ArmDeadline(c) ==
  /\ Goto(c, "entered", "subscribed")
  /\ EnsureCompletionSub
  /\ PostTimer(c, "arm")
  /\ UNCHANGED <<callState, inside, owner, destroyed, relStep, cancelling, conn, armed,
                 delivered, hasCallId, posted, future, result, job, history>>

\* Enter the registry, unless teardown has begun.
Admit(c) ==
  /\ pc[c] = "subscribed"
  /\ IF stopping
     THEN /\ pc' = [pc EXCEPT ![c] = "refused"]
          /\ job' = [job EXCEPT ![c] = Job(c, "leave", "released")]
          /\ UNCHANGED inflight
     ELSE /\ pc' = [pc EXCEPT ![c] = "send"]
          /\ inflight' = inflight \cup {c}
          /\ UNCHANGED job
  /\ UNCHANGED <<deferred, parked, syncOut, stopping, handle, conn, asyncCall, future,
                 result, history>>

\* sendCallAsync: a stopped connection runs the handler inline.
SendAsync(c) ==
  /\ Goto(c, "send", "leave")
  /\ IF open
     THEN pending' = pending \cup {c} /\ sent' = sent \cup {c} /\ UNCHANGED job
     ELSE job' = [job EXCEPT ![c] = Job(c, "leave", "error")] /\ UNCHANGED <<pending, sent>>
  /\ UNCHANGED <<callState, handle, open, swept, completed, asyncCall, future, result,
                 history>>

\* The EntryGuard's destructor, for asynchronous and synchronous calls.
Leave(c) ==
  /\ pc[c] \in {"leave", "refused"}
  /\ c \in Async => Free(c)
  /\ pc' = [pc EXCEPT ![c] = "returned"]
  /\ DropReference(owner, inside \ {c})
  /\ UNCHANGED <<syncOut, subFlag, relStep, conn, asyncCall, future, result, job, history>>

-----------------------------------------------------------------------------
(* callSync and awaitCompletion, on the caller's thread.                   *)

EnterSync(s) ==
  /\ MayEnter(s)
  /\ inside' = inside \cup {s}
  /\ IF open
     THEN pc' = [pc EXCEPT ![s] = "entered"] /\ UNCHANGED result
     ELSE /\ pc' = [pc EXCEPT ![s] = "leave"]
          /\ result' = [result EXCEPT ![s] = "error"]
  /\ UNCHANGED <<callState, subscribed, subFlag, owner, destroyed, relStep, cancelling,
                 conn, asyncCall, future, job, history>>

\* ensureCompletionSub and SyncCallScope.
OpenScope(s) ==
  /\ Goto(s, "entered", "send")
  /\ EnsureCompletionSub
  /\ syncOut' = syncOut \cup {s}
  /\ UNCHANGED <<inflight, deferred, parked, stopping, inside, owner, destroyed, relStep,
                 cancelling, conn, asyncCall, future, result, job, history>>

SendSync(s) ==
  /\ Goto(s, "send", "wait")
  /\ IF open
     THEN pending' = pending \cup {s} /\ sent' = sent \cup {s} /\ UNCHANGED future
     ELSE future' = [future EXCEPT ![s] = "error"] /\ UNCHANGED <<pending, sent>>
  /\ UNCHANGED <<callState, handle, open, swept, completed, asyncCall, result, job, history>>

Conclude(s, from, how) ==
  /\ Goto(s, from, "scope")
  /\ result' = [result EXCEPT ![s] = how]

FutureReady(s) ==
  /\ future[s] # "none"
  /\ IF future[s] = "sentinel"
     THEN Goto(s, "wait", "await") /\ UNCHANGED result
     ELSE Conclude(s, "wait", future[s])
  /\ UNCHANGED <<callState, handle, conn, asyncCall, future, job, history>>

FutureTimeout(s) ==
  /\ future[s] = "none"
  /\ Conclude(s, "wait", "timeout")
  /\ pending' = pending \ {s}
  /\ UNCHANGED <<callState, handle, open, swept, sent, completed, asyncCall, future, job, history>>

\* The wait ends with the completion, with the stop, or with the deadline, and
\* looks for them in that order.
AwaitCompletion(s) ==
  /\ IF Contains(parked, s)
     THEN Conclude(s, "await", "value") /\ TakeCompletion(s)
     ELSE /\ Conclude(s, "await", IF stopping THEN "released" ELSE "timeout")
          /\ UNCHANGED parked
  /\ UNCHANGED <<inflight, deferred, syncOut, stopping, handle, conn, asyncCall, future, job,
                 history>>

\* ~SyncCallScope
CloseScope(s) ==
  /\ Goto(s, "scope", "leave")
  /\ syncOut' = syncOut \ {s}
  /\ DropUnclaimedIfIdle(inflight, deferred, syncOut \ {s})
  /\ UNCHANGED <<inflight, deferred, stopping, handle, conn, asyncCall, future, result, job,
                 history>>

-----------------------------------------------------------------------------
(* The connection's I/O thread.                                            *)

Reply(c) == IF c \in Multi THEN {"sentinel", "error"} ELSE {"value", "error"}

\* The handler callAsync registered, up to its first lock: anything but the
\* sentinel is delivered at once.
IoReplyAsync(c) ==
  /\ Free("io")
  /\ c \in pending
  /\ pending' = pending \ {c}
  /\ \E r \in Reply(c) :
       job' = [job EXCEPT !["io"] = IF r = "sentinel" THEN Job(c, "sentinel", "none")
                                                      ELSE Job(c, "leave", r)]
  /\ UNCHANGED <<callState, handle, open, swept, sent, completed, asyncCall, callers, history>>

\* A sentinel of a call whose handle is gone, or that is already resolved.
SentinelCheck ==
  /\ job["io"].step = "sentinel"
  /\ LET c == job["io"].call IN
       job' = [job EXCEPT !["io"] = IF destroyed THEN Job(c, "leave", "released")
                                    ELSE IF c \in delivered THEN Idle
                                    ELSE Job(c, "file", "none")]
  /\ UNCHANGED <<callState, handle, conn, asyncCall, callers, history>>

\* Mutation of FileDeferred: the call is filed without a look at what is parked.
FileWithoutLooking ==
  /\ job["io"].step = "file"
  /\ hasCallId' = hasCallId \cup {job["io"].call}
  /\ deferred' = deferred \cup {job["io"].call}
  /\ job' = [job EXCEPT !["io"].step = "rearm"]
  /\ UNCHANGED <<parked, inflight, syncOut, stopping, handle, conn, delivered, posted, timers,
                 callers, history>>

\* Under CallState::mu: claim a completion that came first, or file the call.
FileDeferred ==
  /\ job["io"].step = "file"
  /\ LET c == job["io"].call IN
       \/ /\ Contains(parked, c)
          /\ TakeCompletion(c)
          /\ job' = [job EXCEPT !["io"] = Job(c, "leave", "value")]
          /\ UNCHANGED <<deferred, hasCallId>>
       \/ /\ ~Contains(parked, c) /\ stopping
          /\ job' = [job EXCEPT !["io"] = Job(c, "leave", "released")]
          /\ UNCHANGED <<parked, deferred, hasCallId>>
       \/ /\ ~Contains(parked, c) /\ ~stopping
          /\ hasCallId' = hasCallId \cup {c}
          /\ deferred' = deferred \cup {c}
          /\ job' = [job EXCEPT !["io"].step = "rearm"]
          /\ UNCHANGED parked
  /\ UNCHANGED <<inflight, syncOut, stopping, handle, conn, delivered, posted, timers,
                 callers, history>>

\* The second deadline.
Rearm ==
  /\ job["io"].step = "rearm"
  /\ PostTimer(job["io"].call, "arm")
  /\ job' = [job EXCEPT !["io"] = Idle]
  /\ UNCHANGED <<callState, handle, conn, delivered, hasCallId, posted, armed, callers,
                 history>>

IoReplySync(s) ==
  /\ Free("io")
  /\ s \in pending
  /\ pending' = pending \ {s}
  /\ \E r \in Reply(s) : future' = [future EXCEPT ![s] = r]
  /\ UNCHANGED <<callState, handle, open, swept, sent, completed, asyncCall, pc, result, job,
                 history>>

\* A completion event, at most one per call.  The provider may emit it before
\* the sentinel.  The callback is collected under the connection's mutex here
\* and runs with it released (HandleEvent).
Emittable(k) == (k \in Foreign /\ Joins(k)) \/ k \in Multi \cap sent

IoEvent(k) ==
  /\ Free("io") /\ open
  /\ k \notin completed /\ Emittable(k)
  /\ completed' = completed \cup {k}
  /\ job' = IF subscribed THEN [job EXCEPT !["io"] = Job(k, "event", "none")] ELSE job
  /\ UNCHANGED <<callState, handle, open, pending, swept, sent, asyncCall, callers, history>>

HandleEvent ==
  /\ job["io"].step = "event"
  /\ LET k == job["io"].call IN
       \/ /\ destroyed
          /\ job' = [job EXCEPT !["io"] = Idle]
          /\ UNCHANGED <<deferred, parked, history>>
       \/ /\ ~destroyed /\ k \in deferred
          /\ deferred' = deferred \ {k}
          /\ job' = [job EXCEPT !["io"] = Job(k, "leave", "value")]
          /\ arrived' = arrived \cup {k}
          /\ UNCHANGED <<parked, evicted>>
       \/ /\ ~destroyed /\ k \notin deferred
          /\ ParkCompletion(k)
          /\ job' = [job EXCEPT !["io"] = Idle]
          /\ arrived' = arrived \cup {k}
          /\ UNCHANGED deferred
  /\ UNCHANGED <<inflight, syncOut, stopping, handle, conn, asyncCall, callers>>

-----------------------------------------------------------------------------
(* The deadline thread: tasks posted to a call's strand run in order.  A   *)
(* cancel aborts a pending wait, not an expiry that is already queued.     *)

TimerTask(c) ==
  /\ Free("timer")
  /\ timerQ[c] # <<>>
  /\ timerQ' = [timerQ EXCEPT ![c] = Tail(@)]
  /\ LET task == Head(timerQ[c]) IN
       /\ armed' = CASE task = "arm" -> armed \cup {c}
                     [] task = "cancel" -> armed \ {c}
                     [] OTHER -> armed
       /\ job' = IF task = "fire" THEN [job EXCEPT !["timer"] = Job(c, "leave", "timeout")]
                                  ELSE job
  /\ UNCHANGED <<callState, handle, conn, delivered, hasCallId, posted, callers, history>>

Expire(c) ==
  /\ c \in armed
  /\ armed' = armed \ {c}
  /\ PostTimer(c, "fire")
  /\ UNCHANGED <<callState, handle, conn, delivered, hasCallId, posted, callers, job, history>>

-----------------------------------------------------------------------------
(* The connection fails; its sweep answers every pending call.             *)

FailConnection ==
  /\ "fail" \in Env
  /\ open
  /\ open' = FALSE
  /\ swept' = pending
  /\ pending' = {}
  /\ UNCHANGED <<callState, handle, sent, completed, asyncCall, callers, job, history>>

FailAnswer(c) ==
  /\ Free("fail")
  /\ c \in swept
  /\ swept' = swept \ {c}
  /\ IF c \in Sync
     THEN future' = [future EXCEPT ![c] = "error"] /\ UNCHANGED job
     ELSE job' = [job EXCEPT !["fail"] = Job(c, "leave", "error")] /\ UNCHANGED future
  /\ UNCHANGED <<callState, handle, open, pending, sent, completed, asyncCall, pc, result, history>>

-----------------------------------------------------------------------------
(* disconnectEvents() by the user, and release() by the owner.             *)

DisconnectEvents ==
  /\ "disconnect" \in Env
  /\ relStep = "none" /\ subscribed
  /\ subscribed' = FALSE
  /\ UNCHANGED <<callState, subFlag, inside, owner, destroyed, relStep, cancelling, conn,
                 asyncCall, callers, job, history>>

ReleaseDisconnect ==
  /\ "release" \in Env
  /\ relStep = "none"
  /\ relStep' = "stop"
  /\ subscribed' = FALSE
  /\ UNCHANGED <<callState, subFlag, inside, owner, destroyed, cancelling, conn, asyncCall,
                 callers, job, history>>

\* stopAndCancelCalls, its critical section.
ReleaseStop ==
  /\ relStep = "stop"
  /\ relStep' = "cancel"
  /\ stopping' = TRUE
  /\ cancelling' = inflight
  /\ inflight' = {} /\ deferred' = {} /\ parked' = <<>>
  /\ UNCHANGED <<syncOut, subscribed, subFlag, inside, owner, destroyed, conn, asyncCall,
                 callers, job, history>>

\* One delivery of the loop, of release() or of the destructor after it.
ReleaseCancel(c) ==
  /\ relStep \in {"cancel", "done"} /\ Free("release")
  /\ c \in cancelling
  /\ cancelling' = cancelling \ {c}
  /\ job' = [job EXCEPT !["release"] = Job(c, "leave", "released")]
  /\ UNCHANGED <<callState, subscribed, subFlag, inside, owner, destroyed, relStep, conn,
                 asyncCall, callers, history>>

ReleaseDrop ==
  /\ relStep = "cancel" /\ Free("release") /\ cancelling = {}
  /\ relStep' = "done"
  /\ DropReference(FALSE, inside)
  /\ UNCHANGED <<syncOut, subFlag, conn, asyncCall, callers, job, history>>

-----------------------------------------------------------------------------
DeliverStep(w) == DeliverLeave(w) \/ DeliverClaim(w) \/ DeliverWithdraw(w) \/ DeliverPost(w)
HandlerStep == SentinelCheck \/ FileDeferred \/ Rearm \/ HandleEvent
AsyncStep(c) == ArmDeadline(c) \/ Admit(c) \/ SendAsync(c)
SyncStep(s) == OpenScope(s) \/ SendSync(s) \/ FutureReady(s) \/ FutureTimeout(s)
               \/ AwaitCompletion(s) \/ CloseScope(s)
ReleaseStep == ReleaseStop \/ ReleaseDrop \/ \E c \in Async : ReleaseCancel(c)

Next ==
  \/ \E c \in Async : EnterAsync(c) \/ AsyncStep(c) \/ IoReplyAsync(c) \/ TimerTask(c) \/ Expire(c)
  \/ \E s \in Sync : EnterSync(s) \/ SyncStep(s) \/ IoReplySync(s)
  \/ \E c \in Calls : Leave(c) \/ FailAnswer(c)
  \/ \E w \in Workers : DeliverStep(w)
  \/ \E k \in Keys : IoEvent(k)
  \/ HandlerStep
  \/ FailConnection
  \/ DisconnectEvents \/ ReleaseDisconnect \/ ReleaseStep

Spec == Init /\ [][Next]_vars

\* Each thread inside the code runs on: the callers', the I/O thread through a
\* handler it has begun, the deadline thread through its posted tasks, the one
\* that tears the connection down and the one in release().  Armed deadlines
\* expire.  No reply, event, failure or release is promised.
Fairness ==
  /\ \A c \in Async : WF_vars(AsyncStep(c) \/ DeliverStep(c) \/ Leave(c)) /\ WF_vars(Expire(c))
  /\ \A s \in Sync : WF_vars(SyncStep(s) \/ Leave(s))
  /\ WF_vars(HandlerStep \/ DeliverStep("io"))
  /\ WF_vars(DeliverStep("timer") \/ \E c \in Async : TimerTask(c))
  /\ WF_vars(DeliverStep("fail") \/ \E c \in Calls : FailAnswer(c))
  /\ WF_vars(DeliverStep("release") \/ ReleaseStep)

FairSpec == Spec /\ Fairness

-----------------------------------------------------------------------------
\* AsyncCall's gate: whichever of reply, completion, deadline, connection
\* failure and release resolve a call, its callback is posted at most once.
CallbackAtMostOnce == \A c \in Async : posted[c] <= 1

\* m_liveRefs: the object is not deleted under a call that is inside one of its
\* entry points, nor under release() itself.
NoUseAfterDelete == destroyed => inside = {} /\ relStep = "done"

\* A completion that reached the handle is not lost to the call it answers: until
\* that call is resolved it is parked, or a thread is delivering it, or the cap
\* pushed it out, whether it came before or after its sentinel; and a call filed
\* to wait for its completion does not wait for one that is parked already.
Carries(w, c) == job[w].call = c /\ (job[w].how = "value" \/ job[w].step = "claim")
CompletionNotLost ==
  ~stopping =>
    /\ \A c \in (arrived \cap Async) \ (delivered \cup evicted) :
         Contains(parked, c) \/ \E w \in Workers : Carries(w, c)
    /\ \A s \in (arrived \cap Sync) \ evicted :
         pc[s] \in {"wait", "await"} => Contains(parked, s)
    /\ \A c \in deferred : ~Contains(parked, c)

\* Every call is answered: an asynchronous one gets its callback and a
\* synchronous one returns, with no help from the peer.  (Calls are finitely
\* many and an answer is final, so "each is answered in the end" is that from
\* some moment on none is waiting.)
EveryCallAnswered ==
  <>[](/\ \A c \in Async : pc[c] # "idle" => posted[c] = 1
       /\ \A s \in Sync : pc[s] \in {"idle", "returned"})
=============================================================================
