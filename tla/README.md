# Logos protocol: a TLA+ verification project

TLA+ models of the core of the Logos protocol library (`src/cpp`), the TLC
configurations that check them on small instances, and TLAPS proofs of the
central results for every instance. `PROJECT.json` lists the components, the
runs, the hazards the properties are aimed at, and for every definition the
source lines it stands for.

## 1. The system

The library lets one *module* (a process, or a plugin in a process) call the
methods of another and receive its events. A consumer holds a `LogosObject`
handle for a remote object. The handle sends requests through a *transport*.
The provider's host decodes a request, checks its token, calls the published
object and sends back the result. There are several transports (plain TCP/TLS,
Qt Remote Objects, in-process, web, mock) behind one interface. The plain
transport is the one written wholly in this repository; the web transport reuses
its `RpcPeer`, and the C ABI (`lp_*`) puts threads and guards around a client.

```
  lp_* (C ABI)
      |
 LogosAPIClient --- TokenManager --------- ModuleProxy (auth gate) --- provider
      |                                            |
 LogosAPIConsumer + LogosPendingSubscriptions      |
      |                                            |
 transport connection (plain, QtRO, local, web)  PlainTransportHost --- RpcServer
      |                                            |
 PlainLogosObject  (one per handle)                |
      |                                            |
   RpcPeer  (pending calls, event registrations) RpcPeer
      |                                            |
 RpcConnection + FrameReader  <== byte stream ==> RpcConnection + FrameReader
```

### Inventory

| Component | State it keeps | Operations | What is hard about it | What makes it correct |
|---|---|---|---|---|
| Connection contract (`rpc_connection_base.h`) | none of its own; an interface | `sendCall`, `sendCallAsync`, `sendMethods`, `cancelPending`, `stop` | promises made across threads | a handler runs at most once; after the close, exactly once unless its caller gave up |
| `RpcPeer` | two maps of pending handlers, `m_stopped`, the error handler, event registrations | the sends, `dispatchIncoming`, `cancelPending`, `stop`, `fail` | a reply, a teardown sweep, a cancel and a sender's reclaim contend for one handler on four threads | the contract; nothing registered after the sweep; `TRANSPORT_CLOSED` only for a call that was not sent |
| `RpcConnection`, `FrameReader` | strand, write queue, `m_writing`, socket, reassembly buffer | `start`, `writeFrame`, `doRead`, `doWrite`, `closeStreamOnStrand`, `next` | any thread writes or stops while the strand reads and writes | frames whole and in order both ways, no stall |
| `PlainLogosObject` | in-flight and deferred calls, parked completions, deadline timers, live references | synchronous and asynchronous calls, `disconnectEvents`, `release` | deadline, reply, completion event, connection failure and `release()` race over one call | the callback once; no completion lost but to the cap; no use after delete; every call answered |
| Events (`RpcPeer`, `PlainTransportHost`) | registrations at the consumer, sinks at the host | `sendSubscribe`, `sendUnsubscribe`, `onSubscribe`, `onUnsubscribe`, `onConnectionClosed`, `fanOutEvent`, `publishObject`, `unpublishObject` | two tables on two machines kept in step by frames; handles that share an event; peers that vanish | one copy per handle; the tables agree once the wire is empty; an event reaches who was subscribed |
| `PlainTransportHost` dispatch, `RpcServer` | published modules, connection list, acceptor, requests posted to the modules' thread | `onCall`, `onMethods`, `onToken`, accept, TLS handshake, `stop`, destructor | a hop to another thread and back; connections hold a raw pointer; a bounded drain | no call into a freed host; no connection survives it; a request read is answered |
| `LogosPendingSubscriptions` | pending, armed and held entries, handles, policy and generation per object, a poll timer | `add`, `cancel`, `rearm`, `setRestartPolicy`, `setStatusCallback`, `reconnected`, `abandon`, the timer's `tick`, the transport's answer to an acquire | user callbacks that re-enter the registry in the middle of an operation; lost and declined acquires | no subscription forgotten; an armed one is attached to the live handle; none left waiting on a reachable object |
| `TokenManager`, `lp_token_*` doors | the registry of identities and isolated stores; each store's map of outbound, inbound and bootstrap tokens | `forIdentity`, `isolateIdentity`, `adoptCredentialFor`, `resetFor`, save, get, remove, the C doors | clients capture a store at construction while identities are isolated; a credential is adopted in two writes | one identity, one store; no private store holds the host's anchor |
| `ModuleProxy`, `CallerScope` | issued tokens, the store it was built with, the thread's caller slot | `informModuleToken`, `authorize`, `callRemoteMethod` | the store changes between the two reads of one judgement; dispatches nest on one thread | a call is accepted, and its caller named, only on a token issued there; a handler reads its own caller |
| `LogosAPIClient` | cached token, queued calls, the handshake in flight, the readiness gate | calls, `getToken` exchange, one re-exchange after a rejection, the token push and its probe | concurrent handshakes that invalidate each other; waits in nested loops; targets that restart | each call answered, once; concurrent first calls share one token |
| Qt transports (`qt_remote`, `qt_local`) | completion ledger and event helper per handle; parked probes, pending acquires, the node | blocking and asynchronous calls, `disconnectEvents`, `release`; `requestObject`, `requestObjectWhenAvailable`, `tryAcquireNow`, `reconnect` | nested event loops, deferred deletion, raw pointers inside QtRO | callbacks once; a timeout is real; nothing touched after a quiet release; a cancelled wait is silent |
| C ABI client (`lp_client_*`, `lp_subscribe`) | a guard (recursive mutex and flag) per client and subscription, work marshalled to the owner | destroy, unsubscribe, rearm, status callback, calls | ending a callback source from any thread, callbacks included | no callback after the return; no use of a deleted client; which nestings may deadlock |
| Web transport | channel pair with pump threads, receivers, connections, sinks | connect, `reconnect`, `attachChannel`, dispatch, events, destructors | `setReceiver` waits for a delivery; connections live as long as somebody refers to them | no dispatch to a destroyed host; teardowns return; an open connection hears its channel |
| Codecs, value conversion, configuration, plugin registry, mock, wasm build | none that changes over time, or test doubles | conversions, lookups | none of the kinds above | not state machines |

How they interact: a handle calls its connection and is called back from the
connection's I/O thread (`RpcPeer::dispatchIncoming`, `RpcPeer::fail`). The
connection reports its failure to the host through `onConnectionClosed`. The host
hands requests to the modules' thread, where `ModuleProxy` judges them against the
token store. `LogosAPIClient` fills the consumer's half of that store by the
exchange with capability_module, which pushes the same token to the target's
`ModuleProxy`. `LogosPendingSubscriptions` polls handles through `isValid()` and is
called back by the transport when a deferred acquire delivers. Everything a user
passes in is called outside the locks (the guards of the C ABI excepted) and may
call back into the library.

## 2. The modules

| Module | Stands for | Composition |
|---|---|---|
| `CallContract` | the promise of `rpc_connection_base.h`, with no lock, map or thread | abstract specification |
| `RpcPeer` | the pending-call registry | implements `CallContract` (`Contract == INSTANCE CallContract WITH ...`) |
| `RpcConnection` | strand, socket, write queue, frame reassembly | below `RpcPeer`; its `fail()` is `RpcPeer`'s |
| `PlainLogosObject` | one remote handle with its calls | above `RpcPeer`, which it sees through the contract |
| `PlainLogosObjectProofs` | the theorems about `PlainLogosObject` | extends `PlainLogosObject` and `TLAPS` |
| `EventRouting` | the event tables of the consumers' connections and of the host, with the wire between them | composes the two sides |
| `EventRoutingProofs` | the theorems about `EventRouting` | extends `EventRouting` and `TLAPS` |
| `HostDispatch` | listener, connections, request dispatch and destructor of a plain host | the request half of the host; `EventRouting` is the event half |
| `HostDispatchProofs` | the theorems about `HostDispatch` | extends `HostDispatch` and `TLAPS` |
| `PendingSubscriptions` | `LogosPendingSubscriptions` and the consumer's reconnect | above the transport |
| `TokenStores` | the token stores of one image, the C doors, the clients that capture a store | |
| `ModuleProxy` | the auth gate and the caller scope | extends `TokenStores`: the composition of both |
| `TokenExchange` | a client's calls to one target with the exchange behind them | above the stores, of which it sees one entry |
| `QtLogosObject` | a handle of the two Qt transports | |
| `RemoteAcquire` | how a QtRO connection acquires an object | delivers to `PendingSubscriptions` |
| `LpClient` | a client of the C ABI, its threads and guards | above the consumer |
| `LpClientProofs` | the theorems about `LpClient` | extends `LpClient` and `TLAPS` |
| `WebTransport` | channel, page connection and host of the web transport | its connections are `RpcPeer`s |
| `CallProofs` | the theorems about `RpcPeer` and `QtLogosObject`: calls in flight | extends both and `TLAPS` |
| `ConnectionProofs` | the theorems about `RpcConnection` and `WebTransport`: what messages travel on | extends both and `TLAPS` |
| `TokenProofs` | the theorems about `TokenStores`, `ModuleProxy` and `TokenExchange`: tokens on both sides of a call | extends them and `TLAPS` |
| `AcquisitionProofs` | the theorems about `PendingSubscriptions` and `RemoteAcquire`: waiting for an object | extends both and `TLAPS` |
| `MC*` | instances for TLC | extend the module of the same name |

A proof module that is about two components extends both. They share no variable,
and each theorem is about one specification: that of the second component carries
its name (`HandleSpec`, `WebSpec`, `ExchangeSpec`, `AcquireSpec`), that of the
first is `Spec` or `ProxySpec`.

**CallContract.** `phase[i]` is idle, waiting, answered or dropped. `Issue`,
`Answer`, `GiveUp` and `Close` are all that may happen. Its fairness says that a
closed connection answers whatever still waits.

**RpcPeer.** One step is one critical section of `m_mu`, one access to
`m_stopped` or one invocation of a handler. The sender's path is *register*, then
*look at `m_stopped`*, then *reclaim and answer in line* or *emit*; `fail()`
is *compare-and-swap*, *sweep*, *answer each*, *notify*, *error handler*. The
order of these steps is what the class depends on. Payloads are gone; an outcome
is a reply, `TRANSPORT_ERROR` or `TRANSPORT_CLOSED`. The one-way sends and the
branches that only forward to the incoming-call handler have no state and no action.

**RpcConnection.** `strand` is the queue of posted handlers, `running` the rest of
the one being run; threads in `stop()` and `writeFrame()` have their own program
counters. Incoming bytes are explicit: the peer sends its frames one after the other
(`PeerSends`), and a read may take any number of the bytes that are there.
A length header has two bytes instead of four and the cap is 2 instead of 16 MiB;
nothing in `FrameReader::next` depends on either number.

**PlainLogosObject.** One step is one critical section of `CallState::mu`, one
atomic operation, one call into the connection or one task of a strand. Every
call has its own thread; the I/O thread, the timer thread, the failing thread and
the releasing thread are the `Workers`. Time is left out: an armed deadline may
expire at any moment, which includes every real schedule.

**EventRouting.** `reg` is the consumers' table, `sinks` the host's, `up` and
`down` the two directions of each wire. `sendSubscribe` and `sendUnsubscribe` hold
`m_mu` across the write and are single steps. `fanOutEvent` copies the sinks under
the lock and calls them one by one outside it, and so does the model. A read may
carry several frames (`batch`), and an undecodable one fails the connection
in the middle of it.

**HostDispatch.** Handlers of the I/O thread, requests posted to the modules'
thread and the steps of the destructor interleave; a handler that was picked up
keeps its raw pointer to the host. The listener is TCP or TLS: with TLS a
handshake stands between accept and listing. The drain of the destructor ends
when the I/O thread is idle or when its five seconds are over. The clients and the
modules are external.

**PendingSubscriptions.** All of it runs on one thread, so what interleaves is
re-entrancy. `agenda` is the call stack; user code may call the registry (the
operations in `Reentrant`) whenever the frame on top is a callback. The transport
is the part seen from the registry: it may accept, deliver, decline or forget a
deferred acquire, and providers come and go.

**TokenStores.** A store is one map whose keys carry the direction of a token. A
step is one critical section of the registry's mutex or of a store's; sections
of one call that commute with everything between them are one step. `adopt` is
`adoptCredentialFor` between its writes under the two bootstrap keys, `exchange`
a client between asking for a token and saving it. An absent and an empty value
answer alike and are both `NoToken`. `lp_token_save` and `lp_token_save_for` may write
any key but the reserved ones, the bootstrap keys included.

**ModuleProxy.** A proxy runs on its own thread, while any other writes the store
it reads: an `authorize` is two steps, `Authorize` (the read of the credential) and
`Judge` (the scan of the records). `frames` is the stack of dispatches of the
thread, `slot` what a handler reads as its caller. `issued` records the grants, for
the properties.

**TokenExchange.** The client runs on its owner's thread. A synchronous call waits
there in a nested loop, so `thread` is a stack and only its top goes on, while
events of every other call run. Tokens are numbers in the order they are minted.
capability_module and the loader are external: the first mints and pushes, and may
find the target not there yet; a push to a target that publishes a handshake
surface goes there, and the memory of a missing surface is kept as the code keeps it.

**QtLogosObject.** Both kinds of handle are one module, `kind` telling them apart
where they differ. They differ in how a callback is kept from running twice: the remote
handle wraps it in a once-only gate (`Deliver`), the local one invokes it as it is
(`RunCallback`) and relies on the ledger's `take()`. `hops` are the callbacks posted
for the next turn of the loop, `dropped` (history) those that went with a helper or
with the local handle's waiters. `stack` is the nested loops of blocking calls; a
helper that was given to `deleteLater()` is freed when the loop it was posted in is
back on top.

**RemoteAcquire.** A facade is a replica; `needing` is the list of raw pointers
QtRO's shared implementation keeps until the class definition arrives. QtRO is
external and modelled by what the comments and the code rely on.

**LpClient.** Who holds a guard is read off the threads' stacks. Work for the
owner is in `queue`; events run on the I/O thread when `inline` is set (plain
transport) and on the owner's loop otherwise. `late` (history) is raised when a
callback begins although the call that ends it has returned, on whichever thread.

**WebTransport.** `pump[e]` is the pump thread of an end, with the delivery it is
in the middle of. References (the page's `m_conn`, handles, the host's list, queued
replies, a delivery under way) decide when a connection is destroyed. The page is a
consumer: it calls and hears events, and serves nothing.

## 3. The runs

The last column is the number of distinct states TLC finds. The
`TypeOK` of a component is defined and proved where its theorems are (for `RpcPeer`
and the token stores it stands in the module itself).

| Run | Checks | Question | States |
|---|---|---|---|
| `rpc_peer` | `AtMostOnce`, `NoneStranded`, `ClosedMeansUnsent`, `ImplementsContract` | Does the registry keep the contract, liveness included, when two threads and the I/O thread tear it down while a call and a method request are sent, answered and cancelled? | 44,426 |
| `rpc_connection` | `WireInOrder`, `NeverStalls`, `FramesReassembled` | Are frames whole and in order both ways, and does a working connection neither go mute nor deaf? | 413,572 |
| `object` | `CallbackAtMostOnce`, `CompletionNotLost`, `NoUseAfterDelete`, `EveryCallAnswered` | An asynchronous deferred call against everything that can resolve it; two synchronous calls sharing a handle that is released under them | 294,716 |
| `event_siblings` | `OneCopy`, `WireAgrees`, `EventReaches` | Handles that share an event, a wildcard, and a second consumer, with connections that fail | 144,752 |
| `host_teardown` | `HandlerAlive`, `NoneSurvives`, `CallAnswered` | Can the destructor run at any moment of accepting, dispatching and replying? | 202,172 |
| `subscriptions` | `OnlyEmptyRearmForgets`, `ArmedIsAttached`, `NoneLeftBehind` | Is every subscription somewhere whole, attached where it says, and served in the end, whatever callbacks do? | 634,173 |
| `token_gate` | `NoSplitBrain`, `HandlerSeesItsCaller`, `CallerWasIssued` | Do stores and gate keep identities and grants apart? | 1,239,425 |
| `token_exchange` | `AnsweredOnce`, `FirstCallsNotRejected`, `EveryCallAnswered` | Do overlapping calls and handshakes come to an end without invalidating each other? | 146,509 |
| `qt_object` | `DeliveredOnce`, `TimeoutIsReal`, `QuietReleaseIsSafe`, `AnsweredUnlessTornDown` | Calls in nested loops over a channel that is rebuilt | 141,984 |
| `remote_acquire` | `OnlyRequestsDangle`, `CancelledIsSilent`, `WaitServed` | Who may leave a pointer behind in QtRO, and is a wait served or silent? | 622,613 |
| `lp_client` | `QuietAfterReturn`, `OwnerAlive`, `OnlyNestedCallsDeadlock`, `EventuallyUntracked` | What does the return of `lp_client_destroy` and `lp_unsubscribe` promise, and which nestings deadlock? | 18,609 |
| `web_transport` | `DispatchEndsWithHost`, `HearsUnlessOlderDestroyed`, `TeardownEnds` | Reconnect, attach and destruction against deliveries under way | 96,104 |

Some properties name an exception because the code has one. They say that nothing
goes wrong *but* in a case described in section 4, and the exception is as narrow as
the runs allow:

* `OnlyEmptyRearmForgets`: what `rearm()` of an object with nothing held has moved
  from is lost (3);
* `CallerWasIssued`: of its three parts `AnchorIsNotPrivate` holds while
  `instance()` still has the host's anchor under `core` (5);
* `OnlyRequestsDangle` (8), `HearsUnlessOlderDestroyed` (9), `OnlyNestedCallsDeadlock` (12);
* `AnsweredUnlessTornDown`: callbacks that `disconnectEvents()` or `release()` dropped
  are not answered (14).

`HandlerAlive` claims nothing after a drain that timed out, `QuietReleaseIsSafe`
nothing about a release with calls outstanding, and `FirstCallsNotRejected` nothing
once a synchronous call was made, whose nested loop may mint a second token.
`ArmedIsAttached` is checked and proved for callbacks that do not reconnect the
consumer that is calling them (section 5).

### Bounds, and why they are enough

`Mixes` gives the sets of calls or subscriptions of which one is made in a
behaviour: TLC explores each combination by itself, and one run asks what would
otherwise take several.

* `rpc_peer`: one call and one method request, because the two maps are separate
  and a request filed in the wrong one must show; three threads that may win the
  compare-and-swap, because two losers are different from one. The safety half
  is proved for all sizes (section 5).
* `rpc_connection`: two outgoing frames (one in flight and one queued) and three
  incoming: one that decodes, one the codec may refuse, one beyond the cap. The
  two calls of `start()` are there for its compare-and-swap.
* `object`: one asynchronous call has six contenders; a foreign completion and a
  cap of one (`ParkedCap`) reach the eviction. Two synchronous calls, so that the
  last one out of a released handle is not the only one.
* `event_siblings`: two registrations of one key are the least with a sibling, the
  wildcard is the least with two matches of one event, a registration on the
  second connection is the least with two consumers. One frame may fail to decode
  (`Undecodable`).
* `host_teardown`: two connections (one listed, one being accepted), a call, a
  method request and a token push, two modules because a push may be meant for the second.
* `subscriptions`: two objects, because operations on one must not touch the
  other, and a readiness wait on the first of them; `MaxFaults` 3 is shared by
  flaps, declines and reconnects: a handle goes stale, comes back and goes again
  around one of the others.
* `token_gate`: two clients of one identity are the least that can disagree;
  `MaxCalls` 3 is reset, isolate and adopt in any order; `MaxJudged` 2 is a push and
  the call that presents it, or a call nested in another. The properties are
  proved for all sizes (section 5).
* `token_exchange`: two calls (`MaxInvocations`) of either kind are the least that share
  or contend for a handshake, with one restart or lost reply (`MaxFaults`).
* `qt_object`: two calls, one nested in the other; two helpers, the one taken down
  and the one built after it.
* `remote_acquire`: two of each way to acquire, so that each meets another of its
  own kind, and a second node for the reconnect.
* `lp_client`: one worker beside owner and I/O thread, stacks of depth three (a
  callback, a call made in it, and what that call waits for).
* `web_transport`: two connections at each end, an old and a new one; two messages.

Deadlock is not checked where the modelled system may come to rest (a connection
closed, every call answered); it is checked for `PendingSubscriptions`, whose timer
never rests. The deadlocks that matter in `LpClient` and `WebTransport` are
properties of their own (`OnlyNestedCallsDeadlock`, `TeardownEnds`).

### Fairness, and what justifies it

* `RpcPeer`: a thread inside the class continues (`SenderStep`, `InvokeTaken`,
  `FailStep`). Nobody has to call, answer, cancel or tear down.
* `RpcConnection`: none; the run asks for safety only.
* `PlainLogosObject`: each thread continues, posted tasks run, and an armed
  deadline expires, which is Asio's promise for a running context. The peer never
  has to answer: that is why the deadline exists.
* `EventRouting`: the threads continue, and what is written to an open connection
  is read (TCP). Nobody has to subscribe or emit.
* `HostDispatch`: the I/O thread finishes a handler, the modules' thread runs what
  was posted, the destructor continues (weak). Strong fairness of a connection's
  read, because it is disabled while the I/O thread serves another; Asio starves none.
* `PendingSubscriptions`: weak fairness of the running code. Strong fairness of the
  timer and of the transport's callback, because they are disabled while
  something is on the stack; the Qt loop gets to both whenever callbacks return.
  Providers do not have to come back: `NoneLeftBehind` says what follows if they do.
* `TokenExchange`: capability_module goes on, the readiness wait ends one way or
  the other, a handshake is answered (its own timeout is an answer), an
  asynchronous call comes back or fails by its timeout, the top frame goes on.
* `QtLogosObject`: the running code resumes, timers fire, queued slots run. The
  provider does not have to answer.
* `RemoteAcquire`: a posted verdict is delivered by the loop. Nothing has to appear.
* `LpClient`: strong fairness of the owner's loop and of each thread, since a
  step waits for guards that others take and release; nobody holds one for ever
  unless deadlocked, which the property excludes. It takes an owner that runs an
  event loop. A Qt client is owned by one that does; a client of the plain transport
  may be owned by a thread without a loop (`logos_protocol.h:32-34`), and then a
  posted cancellation waits until the registry goes with its client.
* `WebTransport`: pumps and handlers go on (weak); an owner's thread that waits for
  a receiver's mutex gets it eventually (strong).

## 4. Disagreements with comments and docs met while modelling

Every model follows the code, and each of these is behaviour of a model. The
properties are stated around them, and the hazards in `PROJECT.json` give the lines.

1. **A deadline can beat its own call.** `PlainLogosObject::callAsync` arms the timer
   before the call is registered (`plain_logos_object.cpp:1238`). A deadline that
   fires in between withdraws a registration that does not exist yet, and the call
   then registers and stays until a reply or the close. The comment at 606-614 says
   that leak is closed.
2. **A sink of a closed connection.** A broken frame and a Subscribe in one read: the
   first fails the connection, and `doRead`'s loop (`rpc_connection.h:143`) still
   dispatches the second, after `onConnectionClosed` has cleared the sinks.
3. **`rearm()` can lose another object's held subscriptions**
   (`logos_api_consumer.cpp:171`). It moves the others aside and returns early
   without moving them back. They stay Held and cannot be revived, which
   `logos_subscription_state.h:21-23` promises. `OnlyEmptyRearmForgets` says it is the
   only way to lose one; a consumer that revives only what is held loses none
   (`CarefulConsumerForgetsNothing`).
4. **A generation that advances without a gap** (`logos_api_consumer.cpp:559`). A
   second subscription to an armed object advances `subscriptionGeneration`; the
   header says a change means an unrecoverable gap.
5. **A minted token can become a store's credential** (`logos_api_client.cpp:172`).
   `token_manager.h:322-328` says a client of a module named `core` never saves under
   that bootstrap key; the path after a rejection does, and so may `lp_token_save`,
   which refuses the reserved keys only (`logos_protocol.cpp:738-754`). Then
   `adoptCredentialFor`, which refuses what `instance()` holds, no longer recognises the
   host's anchor: this is why `CallerWasIssued` speaks of the anchor only while it is
   in place.
6. **A late module is written off** (`logos_api_consumer.cpp:1272-1275`). The handshake
   probe misses, the business object is found up to 20 s later, and the absence is
   remembered as real although the module started in between.
7. **A token pushed to a host of two modules** (`plain_transport_host.cpp:525`) may
   land in another module than the one it was pushed to: the frame names the
   caller, not the target. The comment restricts the pattern to one published
   object; the class serves several, and the pusher is told it was delivered.
8. **A timed-out `requestObject` deletes its replica** (`remote_transport.cpp:806`),
   against the rule that `remote_transport.h:57-65` states for probes.
   `OnlyRequestsDangle` says it is the only way to leave a pointer behind.
9. **A newer web connection is deafened by an older one** (`web_rpc_connection.cpp:23`):
   a destructor that runs late clears the receiver of its successor.
10. **A failing web connection may still notify a host that is gone**; messages
    never reach one (`DispatchEndsWithHost`).
11. **A QtRO handle released with a deferred call outstanding** is still reached by
    that call's slot (`remote_transport.cpp:306`).
12. **Calls made in callbacks can deadlock on the plain transport.** An event on the
    I/O thread takes the subscription's guard and then the client's
    (`logos_protocol.cpp:479-481`). A result or status callback on the owner's thread
    holds the client's guard while it runs (`:428`, `:542`), and an `lp_unsubscribe`
    made in it waits for the subscription's (`:645`): each thread waits for what the
    other has. Or an event callback on the I/O thread, which holds both, makes a call
    that waits for the owner's thread, while the owner waits for the client's guard.
13. **`disconnectEvents()` leaves `m_completionSubscribed` set**
    (`plain_logos_object.cpp:1392`): a later deferred call waits for an event nobody
    sends and ends by its deadline.
14. **`disconnectEvents()` on a live Qt handle drops callbacks of calls.** Its contract
    is to "Remove all event subscriptions made via onEvent()" (`logos_object.h:160-163`),
    and a callback is to come "exactly once except in the three process-level cases"
    (`logos_object.h:277-281`). The local handle clears the waiters
    (`local_transport.cpp:252-257`) and drops what was posted with the helper as its
    context (`:184`, `:209`, `:330`); the remote one drops the posted delivery and the
    deadline (`remote_transport.cpp:97-106`), and a helper that `onEvent` builds anew
    has no completion sink (`:373-385`). Which callbacks these are is `dropped` in the
    model, and `AnsweredUnlessTornDown` says that every other one comes.

## 5. Proofs

The theorems hold for every value of the constants that satisfies the named
assumptions: any number of calls, threads, connections, frames, objects and
subscriptions, any caps and any nesting. Where a property is not inductive, the
strengthening was checked by TLC on an instance first (that of the frame reader
excepted, which quantifies over sequences of bytes). The last step of each theorem
combines *initially*, *preserved by every action* and *implies the property*.
Every invariant and every action property that a run checks is proved, one of them
(`ArmedIsAttached`) under an assumption stated with the theorem; what is left to TLC
is liveness.

### The pending-call registry (`CallProofs`, first part)

For any sets of calls, requests and threads, from `IdsAssumption` (calls and
method requests have different ids: `nextId()` is one counter) and
`ThreadsAssumption` (the I/O thread is not one of the others):

* `TypeCorrect`: `Spec => []TypeOK`.
* `AtMostOnceAlways`: no handler is invoked twice.
* `NoneStrandedAlways`: no handler is left in the maps once the teardown is over,
  and none whose caller has not given up is lost on the way.
* `ClosedMeansUnsentAlways`: `TRANSPORT_CLOSED` implies the frame was not sent.
* `ImplementsContractSafety`: every step is a step of `CallContract` or a stutter.

The argument is one inductive invariant, `IInv`. `AtMostOnce` alone is not
inductive: a handler that was invoked might still sit in a map or in a local of
some thread. So `OnePlace` says that a handler is in at most one of the four
places it can be (maps, reply branch, sweep, the sender's in-line answer),
and `LiveUnanswered` that one in such a place has not been invoked. For
`NoneStranded`, `StoppedIffFailing` ties `m_stopped` to the progress of `fail()`
and `SweptWhileAnswering` the swept handlers to the one step that empties them;
then a sender that registers after the sweep is one that has still to look at
`m_stopped`, and will reclaim. `UnsentBeforeEmit` carries `ClosedMeansUnsent`.
For the refinement, `PhaseOf` maps the place of a handler to the contract's phase,
and each action moves at most one call by at most one phase.

### Qt handles (`CallProofs`, second part)

From `CallsAssumption` (blocking and asynchronous calls are different calls); any
number of calls, any nesting of event loops, any number of helpers.

* `CallbackOnce`: the callback of an asynchronous call is invoked at most once.
  `FiredWithResult` says that it was invoked exactly when the call has a result. For
  the remote handle its gate would do; the local one has none, and the argument for both
  is `OneHolder`: what a lambda, the ledger's waiters or a posted delivery still holds
  has not been invoked, and what a posted delivery holds was taken out of the waiters,
  so the deadline finds nothing there.
* `NoHastyTimeout`: a blocking call returns a timeout only for a deadline of its own,
  or because its channel was taken down. A nested call may end a loop that is not on
  top, and that loop resumes much later. `LoopEndsForReason` therefore keeps, for
  each loop of the stack, what ended it and what must still hold then: ended by its
  reply, the reply is there; ended by the completion sink, the value is still in
  the ledger, since no other call has taken it (`LoopsOfCalls`: one loop per call).
* `QuietRelease`: a handle released with no call outstanding is not touched again.
  `FreedIsQuiet` says that a freed handle has no channel, and an outstanding call only
  if the release cut one.

### Stores and gate (`TokenProofs`, first part)

For any identities, clients, providers, adopting threads, tokens and numbers of
calls, from the named assumptions of `TokenStores` and `ModuleProxy`: the
identities are not called like a bootstrap key, the host's anchor, the credentials
and the minted tokens are different values, and the operator's token is none of them.

* `NoSplitBrainAlways`: two clients of one identity work from one store. The
  strengthening, `CapturedIsVended`, is what the refusal of `isolateIdentity` rests
  on: whoever captured the shared store is recorded as vended.
* `HandlerSeesItsCallerAlways`: the thread's slot is the caller of the dispatch on
  top. Inductive only with the chain of saved values in the frames below (`ScopeInv`):
  each frame restores what the one under it had opened.
* `GrantedAlways`: what a proxy accepts was granted, and a caller is named only as
  granted. A judgement reads the credential in one step and scans the record in
  another; `GrantInv` says of every token in a proxy's record, in a store's inbound
  half and in a judgement under way that a grant of it was recorded, so a reset or
  an adoption between the two reads changes who is accepted but not what was issued.
* `CallerWasIssuedAlways`: the same, and no isolated provider takes the host's
  anchor for its own credential while the anchor is in its place. `AnchorInv` says that,
  as long as it is (`InPlace`), no private store has it under a bootstrap key, no
  adoption under way carries it and no judgement of an isolated provider has read it.
  Each is an implication, since a save of a bootstrap key (disagreement 5) may displace
  the anchor; `Keeps` says that nothing puts it back.

### Token exchange (`TokenProofs`, second part)

From `CallsAssumption` and `BoundsAssumption` of `TokenExchange` (the kinds of calls
are disjoint; the bounds are numbers); any calls, faults, reloads and nesting.

* `ClientCallsAnsweredOnce`: no call is answered twice. `HeldOnce` says that a queued
  call is in the queue or in the list of one drain, in one place of it: a drain
  that answers a call lets user code start a synchronous one, whose nested loop
  can start another drain over a queue that has grown since. `SyncAnswers` says that a
  synchronous call has one frame of the stack until its answer.
* `SharedTokenAccepted`: concurrent first calls are not rejected. The claim is only
  about a client that was left undisturbed (no reload, no lost reply, no synchronous
  call: each of them can leave two tokens in circulation). `OneToken` says that
  till then there is at most one handshake, with the queue behind it (`OneHandshake`),
  that its answer is the token the target accepts, and that a call that was sent shows
  the cached one (`TokenShown`).

### Byte stream (`ConnectionProofs`, first part)

From `FramesAssumption` (the body lengths of the peer's frames are any sequence of
numbers) and `BoundsAssumption`.


* `WireInOrderAlways`: what is on the wire is a prefix of what was posted, and one
  `async_write` is under way at a time.
* `NeverStallsAlways`: as long as nobody stopped the connection, a queued frame is
  being written and a read is pending, or the error that will stop it is queued.
* `FramesReassembledAlways`: `FrameReader::next` has returned the bodies of the peer's
  first frames, in order and whole, and went past none that is empty or too long.

`WriteInv` and `ReadInv` say where the one write and the one read are (about to be
issued, under way, or completed with the handler queued), and that `m_writing` is up
exactly then. Order needs more than the wire: a frame is posted to the strand,
moved to `m_writeQueue`, and stays at its head until the handler of its completion
has run. `OrderInv` says that wire, queue and strand, in this order, are what was
posted; `Lined` gives the strand's part as an order-preserving map from the strand's
frame handlers onto the posted frames not yet taken. It holds only while the
connection works, since a stopped one drops what is queued; the prefix on the
wire survives.

`FramesReassembled` takes no induction over the bytes. `StreamInv` says that
there is a sequence of all bytes the peer has sent and of the offsets at which its
frames end (`Laid`), in which what the connection holds has a place (`Placed`): the
buffer begins at the offset of the next frame, the bytes of a completed read follow
it, and the unread ones are the end. `PeerSends` appends one frame and one offset,
`ReadSome` and `RunRead` move a border, and `NextFrame` moves the buffer's
beginning by one frame; the lemmas `WithinLonger`, `WithinEnd`, `WithinJoin` and
`WithinCut` are these four moves. That one read is under way at a time (`ReadInv`) is
needed: two would put their bytes behind the buffer in the order of their
handlers. A stopped connection drops what it reads, so only the place of its buffer is kept.

### Web transport (`ConnectionProofs`, second part)

From `ConnsAssumption` (the connections of the two ends are different).

* `NoDispatchAfterHost`: once the host's destructor has stopped its connections no
  message is dispatched to it. `HostKnowsOpen` says that every connection of the host
  that is not stopped is on its list or in the hands of the thread that took the list,
  and `StopWaits` that the pump can be in a dispatch of a stopped connection only
  while the thread that stopped it still waits for the receiver's mutex.
* `OpenConnectionHears`: an open connection is its channel's receiver unless
  an older one's destructor cleared it. `DeliveryHoldsLock` says that during a delivery
  the receiver is the one being called or none, and `OwnersSteps` what the owners have in
  hand at each step of a reconnect and of an attach.

### Remote handle (`PlainLogosObjectProofs`)

From `SetsAssumption` (the kinds of calls are disjoint) and a cap of at least one:

* `CallbackAtMostOnceAlways`: the callback of an asynchronous call is posted at most
  once. `OnceFor` adds that the winner of the claim is a single worker that has not
  posted yet, and that a call refused on entry is referred to by nothing: the
  in-line refusal is the one path to a callback that does not go through the claim.
* `NoUseAfterDeleteAlways` and `CallsFindTheHandleAlive`: `RefInv` says that the
  references are the owner's until the end of `release()` and one for every call
  between entry and return; who deletes has seen the last of them go.
* `CompletionNotLostAlways`: until teardown a completion event that arrived is parked,
  carried by a worker, or was claimed by its call, unless the cap evicted it. It takes
  `KeptInv`: a call that was sent and is not resolved counts as in flight
  (`SentInFlight`, `ScopeCounts`), so `dropUnclaimedIfIdle` finds the handle idle
  only when no completion parked there is still wanted; and a call is not filed as
  deferred while its completion is parked (`FiledNotParked`), which is the check the
  code makes under the same lock.

### Events (`EventRoutingProofs`)

From `RegAssumption` (every registration belongs to one connection and one name; the
name `"none"`, which the model uses for *no event*, is nobody's event).

* `OneCopyAlways`: a handle hears of an event at most once. `RouteInv` follows an
  event: `fanOutEvent` chose one sink per connection (`OneSink`), there is one frame
  of it on a wire (`OneFrame`), it is in one place of its way and unheard before its
  end (`OnePlace`), and the callbacks still to be invoked are of different handles
  that have not heard of it (`HandOK`).
* `WireAgreesAlways`: for a connection of which both ends work, the host's sinks, once
  the frames of the current read and of the wire are applied, are the names with a
  registration. The last frame about a name decides (`InTheEnd`), and
  `sendSubscribe`/`sendUnsubscribe` put that frame on the wire in the same critical
  section that changes the registrations.

### Host teardown (`HostDispatchProofs`)

* `HandlerAliveAlways`: a freed host is not called, unless the drain timed out.
* `NoneSurvivesAlways`: a host that is gone leaves no live connection.

`Stages` relates the destructor's place to the listener's flags and lists,
`NeverStarted` covers a host that was never started, and `Listed` says that a
connection able to call the host is in the list, among the ones `stop()` took from
it, or stopped. `Fence` is the argument of the drain: once the task that
the destructor posted has run, the I/O thread is idle or at the end of a handshake,
which drops its socket because the listener is stopped.

### C ABI client (`LpClientProofs`)

From `ThreadsAssumption` (owner, I/O thread and workers are different threads); any
number of threads and any depth of calls made in callbacks.

* `QuietAfterReturnAlways`: `DestroyInv` and `EndInv` say that whoever is past the guard
  in `lp_client_destroy` or `lp_unsubscribe` found no other thread in a callback of it,
  that the flag is down, and that it is the only one to end it. That no callback begins
  afterwards, on the ending thread either, takes `NoneBetween`: no event stands between the
  two guards with the first one's flag down. For the thread that ends the subscription it
  follows from the shape of its stack, in which only a callback has something above it.
* `OwnerAliveAlways`: the client's object goes, or is posted to go, only behind the
  flag (`DeletedInv`), which every use checks under the guard.
* `OnlyNestedCallsDeadlockAlways`: whichever set of threads wait for each other,
  the transport is the plain one and a callback in the set ends a subscription or
  makes a blocking call. From the shape of the stacks: only a callback has something
  above it, one thread at a time is in callbacks, and on the Qt transports it is the
  owner, which then waits for nobody.

### Deferred subscriptions (`AcquisitionProofs`, first part)

From `SubsAssumption` alone; `Reentrant`, the operations a callback calls, is arbitrary.

* `OnlyEmptyRearmForgetsAlways`: a subscription that was added and not let go is in
  exactly one of `m_entries`, `m_armed`, `m_held` and the loop of a running `armAgainst`,
  with its name and callback unless an empty `rearm()` has moved from it. The
  strengthening `Kept` adds that nothing is anywhere that was not added (so an id is
  fresh) and that no two frames of the call stack hold the same subscription
  (`Apart`): `armAgainst` can run inside a callback of another `armAgainst`, and both
  have taken entries out of `m_entries`. `Placed` gives the shape of the stack: an
  `armAgainst` on the handle that is held runs at once, and the turns of
  `checkLiveness` have no `armAgainst` below them, since the timer starts on an empty stack.
* `CarefulConsumerForgetsNothing`: in a behaviour in which `rearm()` is called only for
  objects with something held (`CarefulRearms`, an action property), every subscription
  that was added and not let go is in one of these places and whole.
* `ArmedIsAttachedAlways`: an armed subscription has its callback on the handle the
  registry has for its object. `FrameAttached` carries it through a running loop: the
  handle is there, and is valid or its provider is down, so that no operation a
  callback makes can replace it before the loop has pushed what it attached.
  This one assumes that no callback calls `reconnect()` of the consumer that is
  calling it (`"reconnect" \notin Reentrant`). With it TLC finds the counterexample:
  `armAgainst` keeps the handle in a local (`logos_api_consumer.cpp:513`), the nested
  `reconnected()` clears `m_handles`, and the loop then pushes its subscription to
  `m_armed`, where nothing chases it. The comment at 548 considers only `add()`.

### Acquiring a replica (`AcquisitionProofs`, second part)

From `AcquireAssumption` (waits, requests and probes are different, and there is a
node); any number of acquires, reconnects and nested loops.

* `ListedFacadesAlive`: a facade that QtRO's list still names is alive, unless it is
  that of a timed-out `requestObject`. `ListOfThisNode` says that the list belongs to
  the implementation of the present node and is gone when it is valid or
  without facades; `NothingGivenYet` that no handle, which its user may release, was
  given out while the class definition is awaited.
* `CancelledNeverTold`, an action property: the step that tells a wait its verdict
  is not one of a cancelled wait. A verdict may be posted when the cancel comes;
  `CancelledIsOver` says that the cancel freed what the delivery needs.

### Only model-checked

`ImplementsContract` (its liveness half; `ImplementsContractSafety` is the other),
both properties called `EveryCallAnswered`, `EventReaches`, `NoneLeftBehind`,
`CallAnswered`, `AnsweredUnlessTornDown`, `WaitServed`, `EventuallyUntracked` and
`TeardownEnds`: what must happen in the end. Fairness and ENABLED are beyond the prover.

## 6. Not modelled, and why

* Codecs, value conversion, configuration, plugin registry: conversions and lookups
  without state. A frame that does not decode is an input of `EventRouting` and
  `RpcConnection`.
* `PlainTransportConnection`, `IoContextPool`: one-time connect and ownership of a
  thread, which the models take as given.
* Mock transport and WebAssembly build: a test double, and a single-threaded subset.
* Qt Remote Objects, Boost.Asio, Qt, capability_module, the module loader: external;
  they appear as what the code relies on (strands, timers, the deferred acquire,
  the mint and the push).
* Provider side of the C ABI (`lp_provider_*`), publishing over QtRO, `getMethods`
  over Qt and web, the web message codec: adapters around what is modelled.
* The web page in its serving role (`WebTransportConnection` with a handler,
  `web_transport_connection.cpp:22-27`, `47-50`), token pushes over the web transport,
  malformed messages that reach the page, and user callbacks that block on the pump.
* The host's destructor run on the I/O thread itself, which skips the barrier
  (`plain_transport_host.cpp:234`): nothing in the repository destroys a host there.
* C ABI: a blocking call made on the owner's own thread is a single step, without its
  nested loop. The token doors save minted tokens: a host that saves its own anchor into
  a private store by `lp_token_save_for` is not considered
  (`identitiesSharingHostAnchor` is there to report it).
* A frame above 16 MiB (`encodeFrame` throws), TLS shutdown, a subscription callback
  that runs a nested event loop, destruction of the consumer and of a
  `LogosAPIClient` with calls in flight.

## 7. Plan

1. *Composition*: `TokenExchange` over two targets, so that a push meets the gate of
   `ModuleProxy` rather than its outcome; `PlainLogosObject` over `CallContract` by
   INSTANCE rather than by the actions that restate it.
2. *Operations*: client and consumer destruction with calls in flight,
   `getMethods` of the Qt handles, the providers' half of the C ABI.

## 8. Running it

```
tlc -workers 2 -config MCRpcPeer.cfg MCRpcPeer
tlc -workers 2 -config TokenGate.cfg MCModuleProxy
tlapm CallProofs.tla
tlapm ConnectionProofs.tla
```

The configuration and the module of every run are in `PROJECT.json`; every module
whose name ends in `Proofs` is checked by `tlapm` in a few minutes. The longest
run (`subscriptions`) takes about two minutes.
