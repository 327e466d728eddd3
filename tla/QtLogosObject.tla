---------------------------- MODULE QtLogosObject ----------------------------
(***************************************************************************)
(* A handle of the two Qt transports: RemoteLogosObject over a QtRO        *)
(* replica (remote_transport.cpp) or LocalLogosObject over a ModuleProxy   *)
(* of the process (local_transport.cpp).  Everything here runs on the      *)
(* consumer's event loop.  A blocking call runs a nested loop, so handlers *)
(* and further calls run while it waits, and it returns only once the      *)
(* calls it was interrupted by have returned.                              *)
(*                                                                         *)
(* A provider may answer a call with the pending sentinel; the result is   *)
(* then an event of the handle's completion channel, which may arrive      *)
(* before the sentinel does.  Timers and posted lambdas have the event     *)
(* helper as their context: they die with it.  deleteLater() frees it when *)
(* the loop that was running at the time gets round to it, so its timers   *)
(* still fire in nested loops until then.                                  *)
(***************************************************************************)
EXTENDS Naturals, Sequences, FiniteSets

CONSTANTS
  Async, Sync,    \* the calls the consumer may make
  MaxCalls,       \* bound: how many of them it makes
  MaxHelpers      \* bound: event helpers the handle builds, the first included

ASSUME CallsAssumption ==
  Async \cap Sync = {} /\ MaxCalls \in Nat /\ MaxHelpers \in Nat \ {0}

Calls == Async \cup Sync

VARIABLES
  kind,      \* "remote" or "local"
  source,    \* m_proxy is not null
  freed,     \* release() has deleted the handle
  channel,   \* m_helper: "none", "sink", or "bare", a helper without completion sink
  helper,    \* its number
  doomed,    \* helpers waiting for their deleteLater: [helper, depth]
  stack,     \* nested loops of blocking calls: [s, at ("answer" or "completion"), replied,
             \*   quit ("no", or who ended the loop: "reply", "sink", "deadline", "teardown")]
  stage,     \* stage[c]: "idle", "failing", "posted", "sent", "queued", "over", or "waiting",
             \*   its callback filed in m_asyncCompletionCbs or m_ledger->asyncWaiters
  hops,      \* asynchronous calls whose completion is posted to be delivered on the next turn
  context,   \* context[a]: the helper the timer or lambda of a belongs to; 0: none
  values,    \* m_completions or m_ledger->values: results that have landed
  plan,      \* plan[c]: how c will be answered: "value", "sentinel" or, by QtRO, "error"
  emitted,   \* calls whose completion event has been emitted
  \* history, read by properties only
  result,    \* result[c]: "none", "value", "timeout" or "error"
  fired,     \* fired[a]: how often the callback of a was invoked
  dropped,   \* asynchronous calls whose callback was dropped with its waiter or helper
  hasty,     \* a blocking caller was told "timeout" before its deadline
  misused,   \* freed memory of the handle was touched
  cut        \* the handle was freed while a call was outstanding

object == <<kind, source, freed, channel, helper, doomed>>
calls == <<stack, stage, hops, context, values>>
provider == <<plan, emitted>>
history == <<result, fired, dropped, hasty, misused, cut>>
handleVars == <<object, calls, provider, history>>

HandleInit ==
  /\ kind \in {"remote", "local"} /\ source = TRUE /\ freed = FALSE
  /\ channel = "sink" /\ helper = 1 /\ doomed = {}
  /\ stack = <<>> /\ stage = [c \in Calls |-> "idle"] /\ hops = {}
  /\ context = [a \in Async |-> 0] /\ values = {}
  /\ plan = [c \in Calls |-> "none"] /\ emitted = {}
  /\ result = [c \in Calls |-> "none"] /\ fired = [a \in Async |-> 0]
  /\ dropped = {} /\ hasty = FALSE /\ misused = FALSE /\ cut = FALSE

Remote == kind = "remote"
Outstanding == {c \in Calls : stage[c] \in {"posted", "sent", "queued", "waiting"}}

\* The replica may refuse a call; the proxy takes it unless it is gone.  A call
\* that is taken is answered with a value or the sentinel, or failed by QtRO.
Taken == IF Remote THEN BOOLEAN ELSE {source}
Plans(taken) == IF ~taken THEN {"error"}
                ELSE {"value", "sentinel"} \cup (IF Remote THEN {"error"} ELSE {})

Alive(h) == h = 0 \/ h = helper \/ \E d \in doomed : d.helper = h

\* The callback of an asynchronous call.  A remote handle keeps it behind
\* deliverOnce; a local one invokes what it was given.
RunCallback(a, r) == result' = [result EXCEPT ![a] = r] /\ fired' = [fired EXCEPT ![a] = @ + 1]
Deliver(a, r) == IF Remote /\ result[a] # "none" THEN UNCHANGED <<result, fired>> ELSE RunCallback(a, r)

\* A nested loop, and what ends it; the first to do so counts.
Frame(s, at) == [s |-> s, at |-> at, replied |-> at = "completion", quit |-> "no"]
Quit(f, who) == [f EXCEPT !.quit = IF @ = "no" THEN who ELSE @]

-----------------------------------------------------------------------------
(* The event channel.                                                      *)

\* ensureCompletionChannel, before each call and subscription of a local handle.
EnsureChannel ==
  IF Remote \/ channel # "none" \/ ~source THEN UNCHANGED <<channel, helper>>
  ELSE channel' = "sink" /\ helper' = helper + 1

MayCall ==
  /\ Cardinality({c \in Calls : stage[c] # "idle"}) < MaxCalls
  /\ channel = "none" => helper < MaxHelpers

\* onEvent: a remote handle builds a helper without the completion sink.
OnEvent ==
  /\ ~freed /\ channel = "none" /\ helper < MaxHelpers
  /\ IF Remote THEN channel' = "bare" /\ helper' = helper + 1 ELSE source /\ EnsureChannel
  /\ UNCHANGED <<kind, source, freed, doomed, calls, provider, history>>

\* The signal is disconnected, the helper deleted later; a local handle wakes
\* its blocking callers and forgets its asynchronous ones.
Disconnect ==
  /\ channel' = "none"
  /\ doomed' = IF channel = "none" THEN doomed
               ELSE doomed \cup {[helper |-> helper, depth |-> Len(stack)]}
  /\ IF Remote \/ channel = "none" THEN UNCHANGED <<stack, stage, dropped>>
     ELSE /\ stack' = [i \in DOMAIN stack |->
                         IF stack[i].at = "completion" THEN Quit(stack[i], "teardown")
                         ELSE stack[i]]
          /\ stage' = [c \in Calls |-> IF c \in Async /\ stage[c] = "waiting" THEN "over" ELSE stage[c]]
          /\ dropped' = dropped \cup {a \in Async : stage[a] = "waiting"}

DisconnectEvents ==
  /\ ~freed /\ channel # "none"
  /\ Disconnect
  /\ UNCHANGED <<kind, source, freed, helper, hops, context, values, provider, result, fired, hasty,
                 misused, cut>>

\* Mutation of Release: the signal stays connected to a sink that holds the handle.
ReleaseConnected ==
  /\ ~freed
  /\ freed' = Remote
  /\ cut' = (cut \/ (Remote /\ Outstanding # {}))
  /\ UNCHANGED <<kind, source, channel, helper, doomed, calls, provider, result, fired, dropped,
                 hasty, misused>>

\* A remote handle deletes itself at once, its replica and helper later.
Release ==
  /\ ~freed
  /\ Disconnect
  /\ freed' = Remote
  /\ cut' = (cut \/ (Remote /\ Outstanding # {}))
  /\ UNCHANGED <<kind, source, helper, hops, context, values, provider, result, fired, hasty, misused>>

\* The deferred deletion runs when its own loop, or an outer one, runs, and the
\* timers and lambdas posted on the helper go with it.
Reap(d) ==
  /\ d \in doomed /\ Len(stack) <= d.depth
  /\ doomed' = doomed \ {d}
  /\ dropped' = dropped \cup {a \in Async : /\ context[a] = d.helper
                                            /\ stage[a] \in {"posted", "waiting"} \/ a \in hops}
  /\ UNCHANGED <<kind, source, freed, channel, helper, calls, provider, result, fired, hasty, misused,
                 cut>>

\* The module is unloaded and its proxy with it.  (A remote source that goes away
\* is one that no longer answers.)
ProxyDies ==
  /\ ~Remote /\ source /\ source' = FALSE
  /\ UNCHANGED <<kind, freed, channel, helper, doomed, calls, provider, history>>

-----------------------------------------------------------------------------
(* Asynchronous calls.                                                     *)

\* A remote call goes out and is watched; a local one is posted to this loop.
\* A replica that does not take the call, or a proxy that is gone, is reported
\* by a lambda without context.
CallMethodAsync(a) ==
  /\ ~freed /\ stage[a] = "idle" /\ MayCall
  /\ EnsureChannel
  /\ \E taken \in Taken : \E p \in Plans(taken) :
       /\ plan' = [plan EXCEPT ![a] = p]
       /\ stage' = [stage EXCEPT ![a] = IF ~taken THEN "failing" ELSE IF Remote THEN "sent" ELSE "posted"]
  /\ context' = [context EXCEPT ![a] = IF Remote THEN 0 ELSE helper']
  /\ UNCHANGED <<kind, source, freed, doomed, stack, hops, values, emitted, history>>

ReportFailure(a) ==
  /\ stage[a] = "failing"
  /\ RunCallback(a, "error") /\ stage' = [stage EXCEPT ![a] = "over"]
  /\ UNCHANGED <<object, stack, hops, context, values, provider, dropped, hasty, misused, cut>>

\* The first answer of an asynchronous call is here: the result, an error, or
\* the sentinel, whose result may have landed; else the call waits for it, with
\* a deadline on helper h.
Settle(a, h) ==
  IF plan[a] # "sentinel"
  THEN Deliver(a, plan[a]) /\ stage' = [stage EXCEPT ![a] = "over"] /\ UNCHANGED <<values, context, misused>>
  ELSE IF freed
  THEN misused' = TRUE /\ stage' = [stage EXCEPT ![a] = "over"] /\ UNCHANGED <<values, context, result, fired>>
  ELSE IF a \in values
  THEN /\ Deliver(a, "value") /\ stage' = [stage EXCEPT ![a] = "over"]
       /\ values' = values \ {a} /\ UNCHANGED <<context, misused>>
  ELSE /\ stage' = [stage EXCEPT ![a] = "waiting"] /\ context' = [context EXCEPT ![a] = h]
       /\ UNCHANGED <<values, misused, result, fired>>

\* The reply of a remote call: the slot of its watcher is queued.
Reply(a) ==
  /\ Remote /\ source /\ stage[a] = "sent"
  /\ stage' = [stage EXCEPT ![a] = "queued"]
  /\ UNCHANGED <<object, stack, hops, context, values, provider, history>>

\* The slot.  After a timeout it does nothing.  Its deadline is posted on the
\* helper of the moment, which may be none.
Finished(a) ==
  /\ stage[a] = "queued"
  /\ IF result[a] # "none"
     THEN stage' = [stage EXCEPT ![a] = "over"] /\ UNCHANGED <<values, context, misused, result, fired>>
     ELSE Settle(a, IF channel = "none" THEN 0 ELSE helper)
  /\ UNCHANGED <<object, stack, hops, provider, dropped, hasty, cut>>

\* The watcher's timer: until the slot has run.
WatchTimeout(a) ==
  /\ Remote /\ stage[a] \in {"sent", "queued"} /\ result[a] = "none"
  /\ Deliver(a, "timeout")
  /\ stage' = [stage EXCEPT ![a] = IF @ = "queued" THEN @ ELSE "over"]
  /\ UNCHANGED <<object, stack, hops, context, values, provider, dropped, hasty, misused, cut>>

\* The posted lambda of a local call.
RunPosted(a) ==
  /\ stage[a] = "posted" /\ Alive(context[a])
  /\ IF source THEN Settle(a, context[a])
     ELSE /\ Deliver(a, "error") /\ stage' = [stage EXCEPT ![a] = "over"]
          /\ UNCHANGED <<values, context, misused>>
  /\ UNCHANGED <<object, stack, hops, provider, dropped, hasty, cut>>

\* Mutation of DeferredDeadline: the wait for a completion has no bound.
NoDeadline(a) == FALSE /\ UNCHANGED handleVars

\* No completion in time: the callback is taken from the waiters, if the sink has
\* not taken it.  The lambda of a remote handle looks into the handle.
DeferredDeadline(a) ==
  /\ stage[a] = "waiting" /\ Alive(context[a])
  /\ stage' = [stage EXCEPT ![a] = "over"]
  /\ IF freed THEN misused' = TRUE /\ UNCHANGED <<result, fired>>
              ELSE Deliver(a, "timeout") /\ UNCHANGED misused
  /\ UNCHANGED <<object, stack, hops, context, values, provider, dropped, hasty, cut>>

\* The completion is delivered one turn later.
HandOver(a) ==
  /\ a \in hops /\ Alive(context[a])
  /\ Deliver(a, "value") /\ hops' = hops \ {a}
  /\ UNCHANGED <<object, stack, stage, context, values, provider, dropped, hasty, misused, cut>>

-----------------------------------------------------------------------------
(* Completion events.                                                      *)

Woken(c) == [i \in DOMAIN stack |->
               IF stack[i].s = c /\ stack[i].at = "completion" THEN Quit(stack[i], "sink")
               ELSE stack[i]]

\* Mutation of Sink: the innermost loop is woken, whoever waits in it.
SinkWakesInnermost(c) ==
  /\ values' = values \cup {c}
  /\ stack' = IF stack = <<>> THEN stack ELSE [stack EXCEPT ![Len(stack)] = Quit(@, "sink")]
  /\ UNCHANGED <<stage, hops, context, misused>>

\* Mutation of Sink: the waiter is read where it should be taken.
SinkKeepsWaiter(c) ==
  IF c \in Async /\ stage[c] = "waiting"
  THEN hops' = hops \cup {c} /\ UNCHANGED <<stack, stage, context, values, misused>>
  ELSE values' = values \cup {c} /\ stack' = Woken(c) /\ UNCHANGED <<stage, hops, context, misused>>

\* The sink banks the result and wakes the loop of its blocking caller; the
\* callback of an asynchronous one is taken from the waiters and posted.
Sink(c) ==
  IF freed THEN misused' = TRUE /\ UNCHANGED <<stack, stage, hops, context, values>>
  ELSE IF c \in Async /\ stage[c] = "waiting"
  THEN /\ stage' = [stage EXCEPT ![c] = "over"] /\ hops' = hops \cup {c}
       /\ context' = [context EXCEPT ![c] = helper]
       /\ UNCHANGED <<stack, values, misused>>
  ELSE values' = values \cup {c} /\ stack' = Woken(c) /\ UNCHANGED <<stage, hops, context, misused>>

\* A call that reached the provider completes, its answer still under way or
\* not; without a sink the event is lost.
Complete(c) ==
  /\ source /\ plan[c] = "sentinel" /\ c \notin emitted
  /\ stage[c] \notin {"idle", "failing", "posted"}
  /\ emitted' = emitted \cup {c}
  /\ IF channel = "sink" THEN Sink(c) ELSE UNCHANGED <<stack, stage, hops, context, values, misused>>
  /\ UNCHANGED <<object, plan, result, fired, dropped, hasty, cut>>

-----------------------------------------------------------------------------
(* Blocking calls.                                                         *)

\* A remote call waits for its answer first; a local one has it at once.
CallMethod(s) ==
  /\ ~freed /\ stage[s] = "idle" /\ MayCall
  /\ EnsureChannel
  /\ \E taken \in Taken : \E p \in Plans(taken) :
       /\ plan' = [plan EXCEPT ![s] = p]
       /\ IF taken /\ (Remote \/ p = "sentinel")
          THEN /\ stack' = Append(stack, Frame(s, IF Remote THEN "answer" ELSE "completion"))
               /\ stage' = [stage EXCEPT ![s] = "sent"] /\ UNCHANGED result
          ELSE /\ result' = [result EXCEPT ![s] = p]
               /\ stage' = [stage EXCEPT ![s] = "over"] /\ UNCHANGED stack
  /\ UNCHANGED <<kind, source, freed, doomed, hops, context, values, emitted, fired, dropped, hasty, misused,
                 cut>>

\* The answer of a call ends the loop that waits for it.
ReplySync(i) ==
  /\ source /\ ~stack[i].replied
  /\ stack' = [stack EXCEPT ![i] = [Quit(@, "reply") EXCEPT !.replied = TRUE]]
  /\ UNCHANGED <<object, stage, hops, context, values, provider, history>>

\* Each wait has its deadline.
Deadline(i) ==
  /\ stack[i].quit = "no"
  /\ stack' = [stack EXCEPT ![i] = Quit(@, "deadline")]
  /\ UNCHANGED <<object, stage, hops, context, values, provider, history>>

Return(s, r) ==
  /\ stack' = SubSeq(stack, 1, Len(stack) - 1)
  /\ stage' = [stage EXCEPT ![s] = "over"]
  /\ result' = [result EXCEPT ![s] = r]

\* The innermost loop has been told to quit: its caller goes on, with the
\* result that has landed, with a timeout, or into the wait for a completion.
Resume ==
  /\ stack # <<>> /\ stack[Len(stack)].quit # "no"
  /\ LET f == stack[Len(stack)]
         deferred == f.replied /\ plan[f.s] = "sentinel" IN
     IF ~deferred
     THEN Return(f.s, IF f.replied THEN plan[f.s] ELSE "timeout") /\ UNCHANGED <<values, misused>>
     ELSE IF freed THEN Return(f.s, "none") /\ misused' = TRUE /\ UNCHANGED values
     ELSE IF f.s \in values THEN Return(f.s, "value") /\ values' = values \ {f.s} /\ UNCHANGED misused
     ELSE IF f.at = "completion" THEN Return(f.s, "timeout") /\ UNCHANGED <<values, misused>>
     ELSE /\ stack' = [stack EXCEPT ![Len(stack)] = Frame(f.s, "completion")]
          /\ UNCHANGED <<stage, values, misused, result>>
  /\ LET f == stack[Len(stack)] IN
     hasty' = (hasty \/ (result'[f.s] = "timeout" /\ f.quit \notin {"deadline", "teardown"}))
  /\ UNCHANGED <<object, hops, context, provider, fired, dropped, cut>>

-----------------------------------------------------------------------------
HandleNext ==
  \/ OnEvent \/ DisconnectEvents \/ Release \/ ProxyDies \/ Resume
  \/ \E d \in doomed : Reap(d)
  \/ \E a \in Async : \/ CallMethodAsync(a) \/ ReportFailure(a) \/ Reply(a) \/ Finished(a)
                      \/ WatchTimeout(a) \/ RunPosted(a) \/ DeferredDeadline(a) \/ HandOver(a)
  \/ \E c \in Calls : Complete(c)
  \/ \E s \in Sync : CallMethod(s)
  \/ \E i \in DOMAIN stack : ReplySync(i) \/ Deadline(i)

HandleSpec == HandleInit /\ [][HandleNext]_handleVars

\* The loop runs its timers and queued handlers.  Answers and completions may
\* never come.
FairHandleSpec ==
  /\ HandleSpec
  /\ WF_handleVars(Resume)
  /\ \A a \in Async : /\ WF_handleVars(WatchTimeout(a)) /\ WF_handleVars(DeferredDeadline(a))
                      /\ WF_handleVars(ReportFailure(a) \/ Finished(a) \/ RunPosted(a) \/ HandOver(a))
  /\ \A s \in Sync : WF_handleVars(\E i \in DOMAIN stack : stack[i].s = s /\ Deadline(i))

-----------------------------------------------------------------------------
\* The callback of an asynchronous call is invoked at most once, however its
\* timer, its watcher's slot, its completion and its deadline are ordered.  A local
\* handle has no flag to rely on, only that one of them takes the waiter.
DeliveredOnce == \A a \in Async : fired[a] <= 1

\* A blocking caller is told "timeout" only when a deadline of its own has passed, also
\* when another caller's nested loop held it up, unless the channel it waited on
\* was taken down.
TimeoutIsReal == ~hasty

\* A handle that is released while no call on it is outstanding is not touched
\* again, by no queued slot, timer, hand-over or event.
QuietReleaseIsSafe == misused => cut

\* The callback of an asynchronous call is invoked, whatever the provider does,
\* with two exceptions: disconnectEvents() or release() has dropped it, with the
\* waiters of a local handle or with the helper its lambda or timer was posted on;
\* or a handle was used after release() had freed it.
AsyncAnswered ==
  \A a \in Async : stage[a] # "idle" ~> fired[a] = 1 \/ a \in dropped \/ misused

\* A blocking call returns: nested loops do not keep it for ever.
SyncReturns == \A s \in Sync : stage[s] = "sent" ~> stage[s] = "over"

\* Every blocking call returns, and every asynchronous one is answered unless a
\* teardown of its channel dropped it.
AnsweredUnlessTornDown == AsyncAnswered /\ SyncReturns
=============================================================================
