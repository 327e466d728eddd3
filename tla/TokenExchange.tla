---------------------------- MODULE TokenExchange ----------------------------
(***************************************************************************)
(* A client's calls to one target and the token exchange behind them       *)
(* (logos_api_client.cpp, logos_api_consumer.cpp): the cached token, the   *)
(* handshakes asynchronous calls share, the readiness gate, the one retry  *)
(* after a rejection, and the delivery of the minted token to a target     *)
(* that may still be starting.                                             *)
(*                                                                         *)
(* The client runs on its owner's thread.  A synchronous call waits there  *)
(* in a nested event loop, so any event may run while it waits, another    *)
(* synchronous call too: the variable thread is the stack of those frames, *)
(* and only its top can go on.  Time is left out: a wait with a deadline   *)
(* may end at any moment.  capability_module and the module loader are     *)
(* external and modelled by what this code uses of them.                   *)
(***************************************************************************)
EXTENDS Naturals, Sequences, FiniteSets, SequencesExt

CONSTANTS
  Async,       \* invokeRemoteMethodAsync calls
  Sync,        \* invokeRemoteMethod calls
  MaxInvocations,    \* a bound: how many of them are made
  MaxFaults    \* a bound: how often the target goes away or requestModule runs out of its budget

ASSUME CallsAssumption == Async \cap Sync = {} /\ "async" \notin Async \cup Sync
ASSUME BoundsAssumption == MaxInvocations \in Nat /\ MaxFaults \in Nat

VARIABLES
  \* LogosAPIClient and its consumer
  cached,      \* the outbound token under the target's name, 0 when there is none
  queue,       \* m_pendingHandshakes: the calls that wait for one handshake
  waiting,     \* a PendingReadiness record: its subscription and its timer
  call,        \* the asynchronous calls
  thread,      \* the synchronous calls and the drains on the owner's thread
  \* requestModule
  requests,    \* round trips to capability_module
  asked,       \* how many there have been, and the number of the last minted token
  serving,     \* the push that waits for the target's business object
  noSurface,   \* m_noHandshakeSurface holds the target
  lost,
  \* the target
  phase,       \* "down", "init" (its initializer runs), "ready" (published)
  surface,     \* its build publishes a handshake object before the initializer runs
  seeded,      \* its store holds the credential pushes are checked against
  accepts,     \* the token it accepts from this client, 0 for none
  reloads,
  \* history, read by properties only
  answers      \* how often each call was answered

client == <<cached, queue, waiting, call, thread>>
capability == <<requests, asked, serving, noSurface, lost>>
target == <<phase, surface, seeded, accepts, reloads>>
exchangeVars == <<client, capability, target, answers>>

Calls == Async \cup Sync
IdleCall == [at |-> "idle", token |-> 0, retries |-> 1, verdict |-> "none"]
Done == [at |-> "done", token |-> 0, retries |-> 0, verdict |-> "none"]
NotServing == [id |-> 0, early |-> FALSE]

ExchangeInit ==
  /\ cached = 0 /\ queue = <<>> /\ waiting = FALSE
  /\ call = [a \in Async |-> IdleCall]
  /\ thread = <<>>
  /\ requests = {} /\ asked = 0 /\ serving = NotServing /\ noSurface = FALSE /\ lost = 0
  /\ phase = "down" /\ surface \in BOOLEAN /\ seeded = FALSE /\ accepts = 0 /\ reloads = 0
  /\ answers = [c \in Calls |-> 0]

-----------------------------------------------------------------------------
(* The target: external, as the loader drives it.                          *)

TargetLoads ==
  /\ phase = "down" /\ phase' = "init"
  /\ UNCHANGED <<client, capability, surface, seeded, accepts, reloads, answers>>

TargetSeeds ==
  /\ phase = "init" /\ ~seeded /\ seeded' = TRUE
  /\ UNCHANGED <<client, capability, phase, surface, accepts, reloads, answers>>

TargetReady ==
  /\ phase = "init" /\ phase' = "ready" /\ seeded' = TRUE
  /\ UNCHANGED <<client, capability, surface, accepts, reloads, answers>>

\* A reload empties the proxy's record of issued tokens.
TargetUnloads ==
  /\ phase # "down" /\ reloads + lost < MaxFaults
  /\ phase' = "down" /\ seeded' = FALSE /\ accepts' = 0 /\ reloads' = reloads + 1
  /\ UNCHANGED <<client, capability, surface, answers>>

-----------------------------------------------------------------------------
(* requestModule, as capability_module serves it: one request at a time,   *)
(* a token minted and pushed to the target, the answer the token.          *)

Ask(by) ==
  /\ asked' = asked + 1
  /\ requests' = requests \cup {[id |-> asked + 1, by |-> by, state |-> "sent", token |-> 0]}

\* The answer t travels back, unless its caller has stopped waiting for it.
Answered(r, t) ==
  (requests \ {r}) \cup {a \in {[r EXCEPT !.state = "answered", !.token = t]} : a.by # "nobody"}

\* informModuleToken_module, first the handshake object: a known absence and a
\* missing object lead to the business object, and so does a refusal, because
\* a store that is not seeded yet refuses the first push.
Probe(r) ==
  LET reached == ~noSurface /\ surface /\ phase # "down" IN
  /\ r.state = "sent" /\ serving = NotServing
  /\ IF reached /\ seeded
     THEN /\ accepts' = r.id /\ requests' = Answered(r, r.id) /\ UNCHANGED serving
     ELSE /\ serving' = [id |-> r.id, early |-> reached]
          /\ UNCHANGED <<accepts, requests>>
  /\ UNCHANGED <<client, asked, noSurface, lost, phase, surface, seeded, reloads, answers>>

\* informModuleTokenViaBusinessObject: reached once the initializer has
\* returned, given up before that.  Only a module that answers here without a
\* handshake object is remembered as one that has none.
Business(r) ==
  /\ serving.id = r.id /\ r.state = "sent"
  /\ IF phase = "ready"
     THEN /\ accepts' = r.id /\ requests' = Answered(r, r.id)
          /\ noSurface' = (noSurface \/ ~serving.early)
     ELSE /\ requests' = Answered(r, 0) /\ UNCHANGED <<accepts, noSurface>>
  /\ serving' = NotServing
  /\ UNCHANGED <<client, asked, lost, phase, surface, seeded, reloads, answers>>

\* The client's budget for the round trip is spent; capability_module goes on.
Lose(r) ==
  /\ r.by # "nobody" /\ r.state = "sent" /\ reloads + lost < MaxFaults /\ lost' = lost + 1
  /\ requests' = (requests \ {r}) \cup {[r EXCEPT !.by = "nobody"],
                                        [r EXCEPT !.state = "answered"]}
  /\ UNCHANGED <<client, asked, serving, noSurface, target, answers>>

Replies(by) == {r \in requests : r.by = by /\ r.state = "answered"}

-----------------------------------------------------------------------------
(* Asynchronous calls.                                                     *)

Running(s) == \E k \in DOMAIN thread : thread[k].by = s

\* The calls that have been made.
Made == {a \in Async : call[a] # IdleCall} \cup {s \in Sync : answers[s] > 0 \/ Running(s)}

Answer(c) == answers' = [answers EXCEPT ![c] = @ + 1]

\* Consumer's invokeRemoteMethodAsync: acquire the handle and send, or answer
\* object_unavailable from a posted event.
Sent(a, t, retries) ==
  [at |-> "sent", token |-> t, retries |-> retries,
   verdict |-> IF phase = "ready" THEN "none" ELSE "error"]

Queued(a, retries) == [at |-> "queued", token |-> 0, retries |-> retries, verdict |-> "none"]

\* Mutation of Submit: every call starts a handshake of its own.
SubmitAlone(a, t, retries) ==
  IF t # 0
  THEN /\ call' = [call EXCEPT ![a] = Sent(a, t, retries)]
       /\ UNCHANGED <<queue, waiting, requests, asked>>
  ELSE /\ queue' = Append(queue, a)
       /\ call' = [call EXCEPT ![a] = Queued(a, retries)]
       /\ \/ phase = "ready" /\ Ask("async") /\ UNCHANGED waiting
          \/ phase # "ready" /\ waiting' = TRUE /\ UNCHANGED <<requests, asked>>

\* invokeRemoteMethodAsyncImpl on the owner's thread: with a token t the call
\* goes out, without one it queues, and the first of the queue begins the
\* handshake, once the target is there (beginReadinessGatedHandshake, whose
\* subscription fires at once for a target that is).
Submit(a, t, retries) ==
  IF t # 0
  THEN /\ call' = [call EXCEPT ![a] = Sent(a, t, retries)]
       /\ UNCHANGED <<queue, waiting, requests, asked>>
  ELSE /\ queue' = Append(queue, a)
       /\ call' = [call EXCEPT ![a] = Queued(a, retries)]
       /\ \/ queue # <<>> /\ UNCHANGED <<waiting, requests, asked>>
          \/ queue = <<>> /\ phase = "ready" /\ Ask("async") /\ UNCHANGED waiting
          \/ queue = <<>> /\ phase # "ready" /\ waiting' = TRUE /\ UNCHANGED <<requests, asked>>

InvokeAsync(a) ==
  /\ call[a] = IdleCall /\ Cardinality(Made) < MaxInvocations
  /\ Submit(a, cached, 1)
  /\ UNCHANGED <<cached, thread, serving, noSurface, lost, target, answers>>

\* The readiness subscription fires: the timer is retired and the handshake
\* starts (finishReadiness, startCapabilityHandshake).
ReadinessFires ==
  /\ waiting /\ phase = "ready"
  /\ waiting' = FALSE
  /\ Ask("async")
  /\ UNCHANGED <<cached, queue, call, thread, serving, noSurface, lost, target, answers>>

\* drainPendingHandshakes: the queue is emptied before its calls run, each of
\* which may block to acquire the target; the list is local to the frame.
Drain(t, reachable) ==
  /\ thread' = Append(thread, [by |-> "drain", at |-> "drain", token |-> t, calls |-> queue,
                               verdict |-> IF reachable THEN "none" ELSE "error"])
  /\ queue' = <<>>

\* Mutation of ReadinessExpires: the deadline retires the record and forgets
\* the calls that wait behind it.
ExpireUndrained ==
  /\ waiting
  /\ waiting' = FALSE
  /\ UNCHANGED <<cached, queue, call, thread, capability, target, answers>>

\* The timer of the readiness record fires first: the subscription is
\* cancelled and the queued calls are told that the target is unreachable.
ReadinessExpires ==
  /\ waiting
  /\ waiting' = FALSE
  /\ Drain(0, FALSE)
  /\ UNCHANGED <<cached, call, capability, target, answers>>

\* The handshake's answer: cached if there is a token, and the queue drained
\* as reachable either way.
HandshakeAnswered(r) ==
  /\ r \in Replies("async")
  /\ requests' = requests \ {r}
  /\ cached' = IF r.token # 0 THEN r.token ELSE cached
  /\ Drain(r.token, TRUE)
  /\ UNCHANGED <<waiting, call, asked, serving, noSurface, lost, target, answers>>

Top == thread[Len(thread)]
Pop == thread' = SubSeq(thread, 1, Len(thread) - 1)
SetTop(f) == thread' = [thread EXCEPT ![Len(thread)] = f]

\* One queued call of the drain on top of the stack is dispatched, or told.
DrainOne ==
  /\ thread # <<>> /\ Top.at = "drain" /\ Top.calls # <<>>
  /\ LET a == Head(Top.calls) IN
       IF Top.verdict = "error"
       THEN /\ call' = [call EXCEPT ![a] = Done] /\ Answer(a)
       ELSE /\ call' = [call EXCEPT ![a] = Sent(a, Top.token, @.retries)] /\ UNCHANGED answers
  /\ SetTop([Top EXCEPT !.calls = Tail(@)])
  /\ UNCHANGED <<cached, queue, waiting, capability, target>>

DrainEnds ==
  /\ thread # <<>> /\ Top.at = "drain" /\ Top.calls = <<>>
  /\ Pop
  /\ UNCHANGED <<cached, queue, waiting, call, capability, target, answers>>

\* The target's proxy judges the token it is shown.
Verdict(t) == IF t # 0 /\ t = accepts THEN "ok" ELSE "rejected"

JudgeAsync(a) ==
  /\ call[a].at = "sent" /\ call[a].verdict = "none" /\ phase = "ready"
  /\ call' = [call EXCEPT ![a].verdict = Verdict(call[a].token)]
  /\ UNCHANGED <<cached, queue, waiting, thread, capability, target, answers>>

\* The transport answers for a target that cannot: deadline or lost connection.
FailAsync(a) ==
  /\ call[a].at = "sent" /\ call[a].verdict = "none"
  /\ call' = [call EXCEPT ![a].verdict = "error"]
  /\ UNCHANGED <<cached, queue, waiting, thread, capability, target, answers>>

\* Mutation of Result: the user's callback runs and the call is retried too.
RetryAndAnswer(a) ==
  LET c == call[a] IN
  /\ c.at = "sent" /\ c.verdict # "none"
  /\ IF c.verdict = "rejected" /\ c.retries > 0
     THEN cached' = 0 /\ Submit(a, 0, c.retries - 1) /\ Answer(a)
     ELSE /\ call' = [call EXCEPT ![a] = Done] /\ Answer(a)
          /\ UNCHANGED <<cached, queue, waiting, requests, asked>>
  /\ UNCHANGED <<thread, serving, noSurface, lost, target>>

\* onResult: the first rejection drops the token under the target's name,
\* whichever token that now is, and submits the call again; anything else is
\* the caller's answer, a second rejection as "unauthorized".
Result(a) ==
  LET c == call[a] IN
  /\ c.at = "sent" /\ c.verdict # "none"
  /\ IF c.verdict = "rejected" /\ c.retries > 0
     THEN cached' = 0 /\ Submit(a, 0, c.retries - 1) /\ UNCHANGED answers
     ELSE /\ call' = [call EXCEPT ![a] = Done] /\ Answer(a)
          /\ UNCHANGED <<cached, queue, waiting, requests, asked>>
  /\ UNCHANGED <<thread, serving, noSurface, lost, target>>

-----------------------------------------------------------------------------
(* Synchronous calls: frames of the owner's thread.                        *)

Frame(s, at, t) == [by |-> s, at |-> at, token |-> t, calls |-> <<>>, verdict |-> "none"]

\* invokeRemoteMethod: with a token the call goes out, without one the target
\* is awaited first, on the caller's own budget.
InvokeSync(s) ==
  /\ s \notin Made /\ Cardinality(Made) < MaxInvocations
  /\ thread' = Append(thread, IF cached # 0 THEN Frame(s, "call", cached) ELSE Frame(s, "acquire", 0))
  /\ UNCHANGED <<cached, queue, waiting, call, capability, target, answers>>

\* The wait for the target ends: the token is read again, since a frame that
\* ran meanwhile may have minted one, and only then asked for.
Acquired ==
  /\ thread # <<>> /\ Top.at = "acquire" /\ phase = "ready"
  /\ IF cached # 0 THEN SetTop(Frame(Top.by, "call", cached)) /\ UNCHANGED <<requests, asked>>
                   ELSE SetTop(Frame(Top.by, "mint", 0)) /\ Ask(Top.by)
  /\ UNCHANGED <<cached, queue, waiting, call, serving, noSurface, lost, target, answers>>

\* ... or the budget ends first: object_unavailable.
NotAcquired ==
  /\ thread # <<>> /\ Top.at = "acquire" /\ phase # "ready"
  /\ Answer(Top.by) /\ Pop
  /\ UNCHANGED <<cached, queue, waiting, call, capability, target>>

\* mintAndCacheToken returns.  The first mint leads to the call whatever it
\* brought; the second to a retry if it brought a token.
MintReturns(r) ==
  /\ thread # <<>> /\ Top.at \in {"mint", "remint"} /\ r \in Replies(Top.by)
  /\ requests' = requests \ {r}
  /\ cached' = IF r.token # 0 THEN r.token ELSE cached
  /\ CASE Top.at = "mint" -> SetTop(Frame(Top.by, "call", r.token)) /\ UNCHANGED answers
       [] Top.at = "remint" /\ r.token # 0 -> SetTop(Frame(Top.by, "recall", r.token)) /\ UNCHANGED answers
       [] OTHER -> Pop /\ Answer(Top.by)
  /\ UNCHANGED <<queue, waiting, call, asked, serving, noSurface, lost, target>>

\* The target judges the call a frame waits for, or the transport fails it.
JudgeSync(k) ==
  /\ k \in DOMAIN thread /\ thread[k].at \in {"call", "recall"} /\ thread[k].verdict = "none"
  /\ phase = "ready"
  /\ thread' = [thread EXCEPT ![k].verdict = Verdict(thread[k].token)]
  /\ UNCHANGED <<cached, queue, waiting, call, capability, target, answers>>

FailSync(k) ==
  /\ k \in DOMAIN thread /\ thread[k].at \in {"call", "recall"} /\ thread[k].verdict = "none"
  /\ thread' = [thread EXCEPT ![k].verdict = "error"]
  /\ UNCHANGED <<cached, queue, waiting, call, capability, target, answers>>

\* The call returns: a first rejection drops the token and mints another, any
\* other outcome is the caller's.
CallReturns ==
  /\ thread # <<>> /\ Top.at \in {"call", "recall"} /\ Top.verdict # "none"
  /\ IF Top.verdict = "rejected" /\ Top.at = "call"
     THEN /\ cached' = 0 /\ SetTop(Frame(Top.by, "remint", 0)) /\ Ask(Top.by)
          /\ UNCHANGED answers
     ELSE /\ Answer(Top.by) /\ Pop /\ UNCHANGED <<cached, requests, asked>>
  /\ UNCHANGED <<queue, waiting, call, serving, noSurface, lost, target>>

-----------------------------------------------------------------------------
CapabilityStep == \E r \in requests : Probe(r) \/ Business(r)
AsyncStep ==
  \/ \E a \in Async : JudgeAsync(a) \/ FailAsync(a) \/ Result(a)
  \/ \E r \in requests : HandshakeAnswered(r)
  \/ ReadinessFires \/ ReadinessExpires
FrameStep ==
  \/ DrainOne \/ DrainEnds \/ Acquired \/ NotAcquired \/ CallReturns
  \/ \E r \in requests : MintReturns(r)
  \/ \E k \in DOMAIN thread : JudgeSync(k) \/ FailSync(k)

ExchangeNext ==
  \/ TargetLoads \/ TargetSeeds \/ TargetReady \/ TargetUnloads
  \/ CapabilityStep \/ AsyncStep \/ FrameStep
  \/ \E r \in requests : Lose(r)
  \/ \E a \in Async : InvokeAsync(a)
  \/ \E s \in Sync : InvokeSync(s)

ExchangeSpec == ExchangeInit /\ [][ExchangeNext]_exchangeVars

\* capability_module serves its queue, the owner's loop runs its events, and
\* every wait has a deadline.  Nothing makes the target appear.
FairExchangeSpec ==
  /\ ExchangeSpec
  /\ WF_exchangeVars(CapabilityStep)
  /\ WF_exchangeVars(ReadinessFires \/ ReadinessExpires)
  /\ WF_exchangeVars(\E r \in requests : HandshakeAnswered(r))
  /\ \A a \in Async : WF_exchangeVars(JudgeAsync(a) \/ FailAsync(a) \/ Result(a))
  /\ WF_exchangeVars(FrameStep)

-----------------------------------------------------------------------------
\* A call is answered once, however its handshake, its rejection, its retry
\* and the readiness deadline interleave.
AnsweredOnce == \A c \in Calls : answers[c] <= 1

\* Concurrent first calls share one token: as long as the target stays loaded,
\* no reply is lost and no synchronous call has run, no asynchronous call is
\* ever rejected.
FirstCallsNotRejected ==
  /\ reloads = 0 /\ lost = 0
  /\ \A s \in Sync : answers[s] = 0 /\ ~Running(s)
  => \A a \in Async : call[a].verdict # "rejected"

\* Every call is answered.
EveryCallAnswered ==
  /\ \A a \in Async : call[a].at # "idle" ~> answers[a] > 0
  /\ \A s \in Sync : Running(s) ~> answers[s] > 0
=============================================================================
