------------------------------- MODULE LpClient -------------------------------
(***************************************************************************)
(* A client of the C ABI (logos_protocol.cpp): the callbacks it makes, and *)
(* the calls that end them, lp_client_destroy and lp_unsubscribe, made     *)
(* from any thread, callbacks included.  Each client and each subscription *)
(* has a CbGuard, a recursive mutex and a flag; user code runs with the    *)
(* guards held.                                                            *)
(*                                                                         *)
(* Results and status changes are delivered on the owner's event loop.     *)
(* Events are too on the Qt transports; the plain transport runs them      *)
(* inline on its I/O thread.  A guard is held for longer than a step only  *)
(* around user code, so who holds what can be read off the threads'        *)
(* stacks.  Callers keep to the usual rule of a C handle: no call on it    *)
(* once lp_client_destroy has begun, and one lp_unsubscribe per            *)
(* subscription.                                                           *)
(***************************************************************************)
EXTENDS Naturals, Sequences, FiniteSets

CONSTANTS
  Workers,   \* threads of the caller besides the owner's
  Subs,      \* subscriptions the caller may make
  MaxDepth   \* bound: calls and callbacks nested on a thread

Owner == "owner"
Io == "io"
Threads == Workers \cup {Owner, Io}

ASSUME ThreadsAssumption == Owner \notin Workers /\ Io \notin Workers /\ MaxDepth \in Nat

VARIABLES
  inline,      \* events are delivered on the I/O thread
  alive,       \* the client guard's flag
  subAlive,    \* subscriptions whose guard's flag is set
  made,        \* subscriptions that lp_subscribe has installed
  tracked,     \* those the consumer's registry still tracks
  watched,     \* a status callback is set
  deleted,     \* the LogosAPIClient is deleted
  queue,       \* posted to the owner's loop: [what, s] or [what, t]
  stack,       \* stack[t]: calls and callbacks of thread t: [op, s, at, used]
  \* history, read by properties only
  closing,     \* lp_client_destroy has begun
  closedBy,    \* the thread on which it has returned
  leaving,     \* subscriptions whose lp_unsubscribe has begun
  leftBy,      \* leftBy[s]: the thread on which it has returned
  late,        \* a callback began after the call that ends it had returned
  misused      \* the deleted LogosAPIClient was dereferenced

guards == <<alive, subAlive>>
registry == <<made, tracked, watched, deleted>>
history == <<closing, closedBy, leaving, leftBy, late, misused>>
vars == <<inline, guards, registry, queue, stack, history>>

Nobody == "nobody"
NoSub == "no sub"

Init ==
  /\ inline \in BOOLEAN
  /\ alive = TRUE /\ subAlive = Subs /\ made = {} /\ tracked = {} /\ watched = FALSE
  /\ deleted = FALSE /\ queue = <<>> /\ stack = [t \in Threads |-> <<>>]
  /\ closing = FALSE /\ closedBy = Nobody /\ leaving = {}
  /\ leftBy = [s \in Subs |-> Nobody] /\ late = FALSE /\ misused = FALSE

-----------------------------------------------------------------------------
(* Threads and guards.                                                     *)

Call(op, s, at) == [op |-> op, s |-> s, at |-> at, used |-> FALSE]
Idle(t) == stack[t] = <<>>
Top(t) == stack[t][Len(stack[t])]
At(t, op, at) == ~Idle(t) /\ Top(t).op = op /\ Top(t).at = at

Pushed(t, f) == [stack EXCEPT ![t] = Append(@, f)]
\* A status callback replayed for a thread that waits for it lets that thread go.
Popped(t) ==
  [u \in Threads |-> IF u = t \/ (Top(t).op = "status" /\ Top(t).s = u)
                     THEN SubSeq(stack[u], 1, Len(stack[u]) - 1) ELSE stack[u]]
Moved(t, at) == [stack EXCEPT ![t][Len(stack[t])].at = at]

HoldsClient(t) == \E i \in DOMAIN stack[t] : stack[t][i].at = "callback"
HoldsSub(t, s) ==
  \E i \in DOMAIN stack[t] : /\ stack[t][i].op = "event" /\ stack[t][i].s = s
                             /\ stack[t][i].at \in {"client", "callback"}
ClientFree(t) == \A u \in Threads \ {t} : ~HoldsClient(u)
SubFree(t, s) == \A u \in Threads \ {t} : ~HoldsSub(u, s)

\* User code runs on a worker, or in a callback, which makes one call.
InUserCode(t) ==
  \/ t \in Workers /\ Idle(t)
  \/ ~Idle(t) /\ Top(t).at = "callback" /\ ~Top(t).used /\ Len(stack[t]) < MaxDepth
Used(t) == IF Idle(t) THEN stack ELSE [stack EXCEPT ![t][Len(stack[t])].used = TRUE]
Calling(t, f) == stack' = [Used(t) EXCEPT ![t] = Append(@, f)]

-----------------------------------------------------------------------------
(* Callbacks.                                                              *)

\* The transport has an event, a result or a change of status.  An event also
\* reaches a subscription that was ended: its listener stays.
EventArrives(s) ==
  LET t == IF inline THEN Io ELSE Owner IN
  /\ Idle(t) /\ s \in made /\ ~deleted
  /\ stack' = Pushed(t, Call("event", s, "sub"))
  /\ UNCHANGED <<inline, guards, registry, queue, history>>

ResultArrives ==
  /\ Idle(Owner) /\ ~deleted
  /\ stack' = Pushed(Owner, Call("result", NoSub, "client"))
  /\ UNCHANGED <<inline, guards, registry, queue, history>>

\* The trampoline copies the callback, and then takes the guard.
StatusChanges ==
  /\ Idle(Owner) /\ ~deleted /\ watched
  /\ stack' = Pushed(Owner, Call("status", NoSub, "client"))
  /\ UNCHANGED <<inline, guards, registry, queue, history>>

\* Mutation of TakeSub: the flag is not looked at once the mutex is taken.
TakeSubUnchecked(t) ==
  /\ At(t, "event", "sub") /\ SubFree(t, Top(t).s)
  /\ stack' = Moved(t, "client")
  /\ UNCHANGED <<inline, guards, registry, queue, history>>

TakeSub(t) ==
  /\ At(t, "event", "sub") /\ SubFree(t, Top(t).s)
  /\ stack' = IF Top(t).s \in subAlive THEN Moved(t, "client") ELSE Popped(t)
  /\ UNCHANGED <<inline, guards, registry, queue, history>>

\* The call that ends the callback on top of t's stack has returned.
Ended(t) == closedBy # Nobody \/ (Top(t).op = "event" /\ leftBy[Top(t).s] # Nobody)

TakeClient(t) ==
  /\ ~Idle(t) /\ Top(t).op \in {"event", "result", "status"} /\ Top(t).at = "client"
  /\ ClientFree(t)
  /\ stack' = IF alive THEN Moved(t, "callback") ELSE Popped(t)
  /\ late' = (late \/ (alive /\ Ended(t)))
  /\ UNCHANGED <<inline, guards, registry, queue, closing, closedBy, leaving, leftBy, misused>>

CallbackReturns(t) ==
  /\ ~Idle(t) /\ Top(t).at = "callback"
  /\ stack' = Popped(t)
  /\ UNCHANGED <<inline, guards, registry, queue, history>>

-----------------------------------------------------------------------------
(* lp_unsubscribe.                                                         *)

Unsubscribe(t, s) ==
  /\ InUserCode(t) /\ s \in made \ leaving
  /\ leaving' = leaving \cup {s}
  /\ Calling(t, Call("unsubscribe", s, "sub"))
  /\ UNCHANGED <<inline, guards, registry, queue, closing, closedBy, leftBy, late, misused>>

UnsubscribeSub(t) ==
  /\ At(t, "unsubscribe", "sub") /\ SubFree(t, Top(t).s)
  /\ subAlive' = subAlive \ {Top(t).s}
  /\ stack' = Moved(t, "owner")
  /\ UNCHANGED <<inline, alive, registry, queue, history>>

\* Mutation of UnsubscribeOwner: the flag is looked at by the posted lambda only.
PostUnchecked(t) ==
  /\ At(t, "unsubscribe", "owner")
  /\ misused' = (misused \/ deleted)
  /\ queue' = IF deleted THEN queue ELSE Append(queue, [what |-> "cancel", arg |-> Top(t).s])
  /\ leftBy' = [leftBy EXCEPT ![Top(t).s] = t] /\ stack' = Popped(t)
  /\ UNCHANGED <<inline, guards, registry, closing, closedBy, leaving, late>>

\* Mutation of UnsubscribeOwner: the cancellation is marshalled to the owner and
\* waited for with the guard held.
CancelBlocking(t) ==
  /\ At(t, "unsubscribe", "owner") /\ ClientFree(t)
  /\ IF alive /\ t # Owner
     THEN /\ queue' = Append(queue, [what |-> "run", arg |-> t])
          /\ stack' = [stack EXCEPT ![t] = Append(SubSeq(@, 1, Len(@) - 1),
                                                  Call("event", Top(t).s, "callback"))
                                             \o <<Call("marshal", NoSub, "wait")>>]
     ELSE stack' = Popped(t) /\ UNCHANGED queue
  /\ leftBy' = [leftBy EXCEPT ![Top(t).s] = t]
  /\ UNCHANGED <<inline, guards, registry, closing, closedBy, leaving, late, misused>>

\* Mutation of UnsubscribeOwner: the consumer is not told.
LeaveTracked(t) ==
  /\ At(t, "unsubscribe", "owner") /\ ClientFree(t)
  /\ leftBy' = [leftBy EXCEPT ![Top(t).s] = t] /\ stack' = Popped(t)
  /\ UNCHANGED <<inline, guards, registry, queue, closing, closedBy, leaving, late, misused>>

\* The cancellation is posted, under the client's guard and while it is alive.
UnsubscribeOwner(t) ==
  /\ At(t, "unsubscribe", "owner") /\ ClientFree(t)
  /\ misused' = (misused \/ (alive /\ deleted))
  /\ queue' = IF alive THEN Append(queue, [what |-> "cancel", arg |-> Top(t).s]) ELSE queue
  /\ leftBy' = [leftBy EXCEPT ![Top(t).s] = t] /\ stack' = Popped(t)
  /\ UNCHANGED <<inline, guards, registry, closing, closedBy, leaving, late>>

-----------------------------------------------------------------------------
(* lp_client_destroy.                                                      *)

\* Calls on the client's handle, on any thread.
OnHandle == \E t \in Threads : \E i \in DOMAIN stack[t] : stack[t][i].op \in {"marshal", "rearm"}

Destroy(t) ==
  /\ InUserCode(t) /\ ~closing /\ ~OnHandle
  /\ closing' = TRUE
  /\ Calling(t, Call("destroy", NoSub, "client"))
  /\ UNCHANGED <<inline, guards, registry, queue, closedBy, leaving, leftBy, late, misused>>

\* Mutation of DestroyGuard: the flag is cleared without the mutex.
ClearFlag(t) ==
  /\ At(t, "destroy", "client")
  /\ alive' = FALSE /\ stack' = Moved(t, "delete")
  /\ UNCHANGED <<inline, subAlive, registry, queue, history>>

\* Waits for a callback under way, and forbids new ones.
DestroyGuard(t) ==
  /\ At(t, "destroy", "client") /\ ClientFree(t)
  /\ alive' = FALSE /\ stack' = Moved(t, "delete")
  /\ UNCHANGED <<inline, subAlive, registry, queue, history>>

\* The LogosAPIClient goes with what is posted to it and its registry.
Deleted == deleted' = TRUE /\ tracked' = {} /\ queue' = <<>>

\* At once on the owner's thread, later from another.
DestroyClient(t) ==
  /\ At(t, "destroy", "delete")
  /\ IF t = Owner THEN Deleted
     ELSE /\ queue' = Append(queue, [what |-> "delete", arg |-> Nobody])
          /\ UNCHANGED <<deleted, tracked>>
  /\ closedBy' = t /\ stack' = Popped(t)
  /\ UNCHANGED <<inline, guards, made, watched, closing, leaving, leftBy, late, misused>>

-----------------------------------------------------------------------------
(* The other calls.                                                        *)

\* lp_client_rearm_subscriptions: posted, like the cancellation.
Rearm(t) ==
  /\ InUserCode(t) /\ ~closing
  /\ Calling(t, Call("rearm", NoSub, "client"))
  /\ UNCHANGED <<inline, guards, registry, queue, history>>

RearmPost(t) ==
  /\ At(t, "rearm", "client") /\ ClientFree(t)
  /\ queue' = IF alive /\ (\A i \in DOMAIN queue : queue[i].what # "rearm")
              THEN Append(queue, [what |-> "rearm", arg |-> Nobody]) ELSE queue
  /\ stack' = Popped(t)
  /\ UNCHANGED <<inline, guards, registry, history>>

\* Directly on the owner's thread, else posted and waited for.
Installed(s) == made' = made \cup ({s} \ {NoSub}) /\ tracked' = tracked \cup ({s} \ {NoSub})
RunOnOwnerThread(t, s) ==
  /\ InUserCode(t) /\ ~closing
  /\ IF t = Owner THEN Installed(s) /\ stack' = Used(t) /\ UNCHANGED queue
     ELSE /\ queue' = Append(queue, [what |-> "run", arg |-> t])
          /\ Calling(t, Call("marshal", s, "wait")) /\ UNCHANGED <<made, tracked>>
  /\ UNCHANGED <<inline, guards, watched, deleted, history>>

\* lp_subscribe installs its listener on the owner's thread, lp_invoke makes
\* its call there; whichever way that ends, nothing else changes here.
Subscribe(t, s) == s \notin made /\ RunOnOwnerThread(t, s)
Invoke(t) == RunOnOwnerThread(t, NoSub)

\* The status callback is set on the calling thread.  The trampoline is then
\* installed again on the owner's, and replays the current state, if any.
SetStatusCallback(t, set) ==
  /\ InUserCode(t) /\ ~closing /\ watched # set
  /\ watched' = set
  /\ \/ stack' = Used(t) /\ (~set \/ t = Owner) /\ UNCHANGED queue
     \/ set /\ t = Owner /\ Calling(t, Call("status", NoSub, "client")) /\ UNCHANGED queue
     \/ /\ set /\ t # Owner /\ Calling(t, Call("marshal", NoSub, "wait"))
        /\ queue' = Append(queue, [what |-> "replay", arg |-> t])
  /\ UNCHANGED <<inline, guards, made, tracked, deleted, history>>

-----------------------------------------------------------------------------
(* The owner's loop.                                                       *)

\* A posted call: the lambdas of lp_unsubscribe and lp_client_rearm_subscriptions
\* take the guard and look at its flag.
RunQueued ==
  /\ Idle(Owner) /\ queue # <<>>
  /\ LET e == Head(queue) IN
     CASE e.what = "run" ->
            /\ Installed(Top(e.arg).s)
            /\ stack' = Popped(e.arg) /\ queue' = Tail(queue) /\ UNCHANGED <<deleted, misused>>
       [] e.what = "replay" ->
            /\ stack' \in {Pushed(Owner, Call("status", e.arg, "client")), Popped(e.arg)}
            /\ queue' = Tail(queue) /\ UNCHANGED <<made, tracked, deleted, misused>>
       [] e.what = "delete" -> Deleted /\ UNCHANGED <<made, stack, misused>>
       [] e.what \in {"cancel", "rearm"} ->
            /\ ClientFree(Owner)
            /\ tracked' = IF alive /\ e.what = "cancel" THEN tracked \ {e.arg} ELSE tracked
            /\ misused' = (misused \/ (alive /\ deleted))
            /\ queue' = Tail(queue) /\ UNCHANGED <<made, stack, deleted>>
  /\ UNCHANGED <<inline, guards, watched, closing, closedBy, leaving, leftBy, late>>

-----------------------------------------------------------------------------
Step(t) ==
  \/ TakeSub(t) \/ TakeClient(t) \/ CallbackReturns(t)
  \/ UnsubscribeSub(t) \/ UnsubscribeOwner(t) \/ DestroyGuard(t) \/ DestroyClient(t)
  \/ RearmPost(t)

Next ==
  \/ ResultArrives \/ StatusChanges \/ RunQueued
  \/ \E s \in Subs : EventArrives(s)
  \/ \E t \in Threads : \/ Step(t) \/ Destroy(t) \/ Rearm(t) \/ Invoke(t)
                        \/ \E s \in Subs : Subscribe(t, s) \/ Unsubscribe(t, s)
                        \/ \E set \in BOOLEAN : SetStatusCallback(t, set)

Spec == Init /\ [][Next]_vars

\* Threads run, callbacks return, and the owner's loop comes to what is posted,
\* between the transport's deliveries.
FairSpec == Spec /\ SF_vars(RunQueued) /\ \A t \in Threads : SF_vars(Step(t))

-----------------------------------------------------------------------------
\* t waits for u: for a guard that u holds, or for the owner to run a call.
WaitsFor(t, u) ==
  /\ t # u /\ ~Idle(t)
  /\ \/ Top(t).at = "client" /\ HoldsClient(u)
     \/ At(t, "unsubscribe", "owner") /\ HoldsClient(u)
     \/ Top(t).at = "sub" /\ HoldsSub(u, Top(t).s)
     \/ At(t, "marshal", "wait") /\ u = Owner

\* The owner waits in a posted lambda for the guard that u holds.
OwnerWaitsFor(u) ==
  /\ Idle(Owner) /\ queue # <<>> /\ Head(queue).what \in {"cancel", "rearm"}
  /\ u # Owner /\ HoldsClient(u)

Deadlocked(S) == S # {} /\ \A t \in S : \E u \in S :
                               WaitsFor(t, u) \/ (t = Owner /\ OwnerWaitsFor(u))

\* Once lp_client_destroy has returned no callback of the client begins, on any
\* thread, and one that still runs is a callback the call was made from: it is
\* on the thread of the call, and began before it.  The same for lp_unsubscribe
\* and the events of its subscription.
QuietAfterReturn ==
  /\ ~late
  /\ \A t \in Threads : \A i \in DOMAIN stack[t] :
       stack[t][i].at = "callback" =>
         /\ closedBy \in {Nobody, t}
         /\ stack[t][i].op = "event" => leftBy[stack[t][i].s] \in {Nobody, t}

\* Nothing is posted to, or called on, a LogosAPIClient that has been deleted,
\* also by a subscription that outlives its client.
OwnerAlive == ~misused

\* On the Qt transports no two threads wait for each other, whichever calls are
\* made from callbacks; on the plain transport only when a callback that holds
\* the client's guard ends a subscription or makes a blocking call.
OnlyNestedCallsDeadlock ==
  \A S \in SUBSET Threads : Deadlocked(S) =>
    /\ inline
    /\ \E t \in S : Len(stack[t]) > 1 /\ Top(t).op \in {"unsubscribe", "marshal"}

\* A subscription that was ended is no longer tracked in the end (unless the
\* threads are deadlocked): the cancellation posted by lp_unsubscribe runs, or
\* the registry goes with its client.
EventuallyUntracked ==
  \A s \in Subs :
    leftBy[s] # Nobody ~> s \notin tracked \/ \E S \in SUBSET Threads : Deadlocked(S)
=============================================================================
