------------------------ MODULE PendingSubscriptions ------------------------
(***************************************************************************)
(* LogosPendingSubscriptions (logos_api_consumer.cpp): the registry that   *)
(* keeps a consumer's event subscriptions until their object is reachable, *)
(* arms them on a handle, notices when the handle goes stale and re-arms   *)
(* or holds them.                                                          *)
(*                                                                         *)
(* Everything runs on the consumer's event-loop thread, so nothing is      *)
(* preempted; what interleaves is RE-ENTRANCY.  onArmed and the status     *)
(* callback run user code in the middle of an operation, and that code may *)
(* call the registry again.  The call stack is the sequence agenda: the    *)
(* frame at its head is what runs next, and a frame whose op is in Windows *)
(* is a callback that has been entered and has not returned.  A callback   *)
(* does not run a nested event loop: the timer, the transport's callback   *)
(* and a provider's comings and goings wait for an empty agenda.           *)
(*                                                                         *)
(* The three vectors are sets: the order inside one decides only the order *)
(* in which callbacks run, which the model leaves open.  The timer is      *)
(* running or not; its interval only paces it.                             *)
(***************************************************************************)
EXTENDS Naturals, Sequences

CONSTANTS
  Objects,       \* object names
  Subs,          \* subscriptions that may be made, each with an id of its own
  ObjectOf,      \* ObjectOf[s]: the objectName s is made with
  Readiness,     \* the ones made by whenObjectAvailable() (readinessOnly)
  Transports,    \* subset of BOOLEAN: has the transport a deferred acquire?
  Policies,      \* <<object, policy>> pairs the consumer may set
  Watchers,      \* objects the consumer may watch
  Mismatched,    \* objects whose source may prove permanently unreachable
  Reentrant,     \* operations user code calls from inside a callback
  Mixes,         \* bound: the subscriptions made in one behaviour
  MaxFaults      \* bound: times a provider comes or goes, reconnect() is
                 \* called, or the transport declines a deferred acquire

ASSUME FaultsAssumption == MaxFaults \in Nat
ASSUME SubsAssumption == ObjectOf \in [Subs -> Objects] /\ Readiness \subseteq Subs

VARIABLES
  subscribed,   \* subscriptions add() has given an id
  entries,      \* m_entries, waiting to arm
  armed,        \* m_armed
  held,         \* m_held
  gutted,       \* entries of m_held that were moved from: no name, no callback
  acquiring,    \* m_acquiring
  restart,      \* m_targets[o].restart
  generation,   \* m_targets[o].generation
  watched,      \* objects with an onStatus callback
  handle,       \* m_handles[o]: none, valid, or stale (isValid() is false)
  attached,     \* subscriptions whose callback is on the handle in m_handles
  timer,        \* whether m_timer runs
  quiet,        \* pending entries that have given their last warning
  agenda,       \* the call stack, innermost frame first
  dropped,      \* subscriptions the registry let go: cancelled, answered, abandoned
  deferring,    \* the transport implements LogosTransportAsyncAcquire
  up,           \* up[o]: the provider of o is there
  inflight,     \* inflight[o]: deferred acquires of o the transport holds
  ready,        \* how many of them had their delivery scheduled before o went down
  budget        \* what is left of MaxFaults

vectors == <<entries, armed, held, gutted>>
targets == <<restart, generation, watched>>
transport == <<deferring, up, inflight, ready>>
vars == <<subscribed, vectors, acquiring, targets, handle, attached, timer,
          quiet, agenda, dropped, transport, budget>>

Of(o) == {s \in Subs : ObjectOf[s] = o}
Manual(o) == restart[o] = "Manual"
Held(o) == (held \ gutted) \cap Of(o)

Frame(op, o, set) == [op |-> op, o |-> o, set |-> set]
\* A loop over a set that has still to be gone through.
Each(op, o, set) == IF set = {} THEN <<>> ELSE <<Frame(op, o, set)>>
Loop(set) == Each("loop", "-", set)
EnsureTimer == Frame("timer", "-", {})

Init ==
  /\ subscribed = {} /\ entries = {} /\ armed = {} /\ held = {} /\ gutted = {}
  /\ acquiring = {}
  /\ restart = [o \in Objects |-> "Automatic"]
  /\ generation = [o \in Objects |-> 0]
  /\ watched = {}
  /\ handle = [o \in Objects |-> "none"]
  /\ attached = {} /\ timer = FALSE /\ quiet = {} /\ agenda = <<>> /\ dropped = {}
  /\ deferring \in Transports
  /\ up \in [Objects -> BOOLEAN]
  /\ inflight = [o \in Objects |-> 0] /\ ready = [o \in Objects |-> 0]
  /\ budget = MaxFaults

-----------------------------------------------------------------------------
(* The call stack.                                                         *)

Windows == {"push", "answered", "drop", "edge"}

InCallback == agenda # <<>> /\ Head(agenda).op \in Windows

\* User code runs at the top of the event loop, or inside a callback.
MayCall(op) == agenda = <<>> \/ (InCallback /\ op \in Reentrant)

Call(frames) == agenda' = frames \o agenda
Return(frames) == agenda' = frames \o Tail(agenda)
Running(op) == agenda # <<>> /\ Head(agenda).op = op

\* reportTarget for each object of a set.  Status callbacks that follow each
\* other with nothing in between are one window.
Report(objects) ==
  IF objects \cap watched = {} THEN <<>> ELSE <<Frame("edge", "-", objects \cap watched)>>

TimerNeeded == entries # {} \/ armed # {}

-----------------------------------------------------------------------------
(* armAgainst, from its entry to the first callback.  obj is the handle    *)
(* that arrived: "valid", "stale", or "same" for the one already held.  A  *)
(* stale handle is replaced, and what was armed on it is revived.          *)

Replaces(o, obj) == obj # "same" /\ handle[o] = "stale"

\* Mutation of Revived: the stale handle is released without reviveArmed.
ReviveNothing(o, obj) == {}

Revived(o, obj) == IF Replaces(o, obj) THEN armed \cap Of(o) ELSE {}

ArmAgainst(o, obj, rest) ==
  LET revived == Revived(o, obj)
      matched == (entries \cap Of(o)) \cup revived
      real    == matched \ Readiness # {}
  IN /\ handle' = [handle EXCEPT ![o] = IF Replaces(o, obj) \/ @ = "none" THEN obj ELSE @]
     /\ attached' = IF Replaces(o, obj) THEN attached \ Of(o) ELSE attached
     /\ entries' = entries \ Of(o)
     /\ armed' = armed \ revived
     /\ timer' = (timer /\ (entries' # {} \/ armed' # {}))
     /\ generation' = [generation EXCEPT ![o] = IF real THEN @ + 1 ELSE @]
     /\ agenda' = Each("attach", o, matched) \o (IF real THEN Report({o}) ELSE <<>>)
                  \o <<EnsureTimer>> \o rest
     /\ UNCHANGED <<held, gutted, restart, watched, quiet, dropped>>

\* armAgainst on the handle already held (add and rearm).
Arm ==
  /\ Running("arm")
  /\ ArmAgainst(Head(agenda).o, "same", Tail(agenda))
  /\ UNCHANGED <<subscribed, acquiring, transport, budget>>

\* One turn of its loop: attach a subscription and enter its onArmed, or, for
\* a readiness wait, answer it.
Attach ==
  /\ Running("attach")
  /\ LET f == Head(agenda)
         Enter(op, s) == Return(<<Frame(op, f.o, {s})>> \o Each("attach", f.o, f.set \ {s}))
     IN \/ \E s \in f.set \cap Readiness :
             /\ Enter("answered", s)
             /\ dropped' = dropped \cup {s} /\ UNCHANGED attached
        \/ \E s \in f.set \ Readiness :
             /\ Enter("push", s)
             /\ attached' = attached \cup {s} /\ UNCHANGED dropped
  /\ UNCHANGED <<subscribed, vectors, acquiring, targets, handle, timer, quiet,
                 transport, budget>>

Push ==
  /\ Running("push")
  /\ armed' = armed \cup Head(agenda).set
  /\ Return(<<>>)
  /\ UNCHANGED <<subscribed, entries, held, gutted, acquiring, targets, handle,
                 attached, timer, quiet, dropped, transport, budget>>

\* A callback with nothing to do after it returns: a readiness answer, a
\* status edge, onArmed(false).
CallbackReturns ==
  /\ Running("answered") \/ Running("edge") \/ Running("drop")
  /\ Return(<<>>)
  /\ UNCHANGED <<subscribed, vectors, acquiring, targets, handle, attached, timer,
                 quiet, dropped, transport, budget>>

StartTimer ==
  /\ Running("timer")
  /\ timer' = (timer \/ TimerNeeded)
  /\ Return(<<>>)
  /\ UNCHANGED <<subscribed, vectors, acquiring, targets, handle, attached, quiet,
                 dropped, transport, budget>>

-----------------------------------------------------------------------------
(* beginAcquire and startAcquire.                                          *)

\* tryAcquireNow, or requestObject where there is no deferred acquire, has a handle.
AcquiredNow ==
  /\ Running("begin")
  /\ LET o == Head(agenda).o IN
     /\ up[o] /\ (deferring => o \notin acquiring)
     /\ ArmAgainst(o, "valid", Tail(agenda))
  /\ UNCHANGED <<subscribed, acquiring, transport, budget>>

StartAcquire(o) ==
  \/ /\ acquiring' = acquiring \cup {o}
     /\ inflight' = [inflight EXCEPT ![o] = @ + 1]
     /\ UNCHANGED budget
  \/ /\ budget > 0
     /\ budget' = budget - 1
     /\ UNCHANGED <<acquiring, inflight>>

\* The transport has nothing now, accepts a deferred acquire, or declines it.
NotAcquired ==
  /\ Running("begin")
  /\ Return(<<>>)
  /\ LET o == Head(agenda).o IN
     \/ /\ IF deferring THEN o \in acquiring ELSE ~up[o]
        /\ UNCHANGED <<acquiring, inflight, budget>>
     \/ deferring /\ o \notin acquiring /\ StartAcquire(o)
  /\ UNCHANGED <<subscribed, vectors, targets, handle, attached, timer, quiet,
                 dropped, deferring, up, ready>>

\* for (name : names) beginAcquire(name)
NextName ==
  /\ Running("loop")
  /\ LET names == Head(agenda).set IN
     \E o \in names : Return(<<Frame("begin", o, {})>> \o Loop(names \ {o}))
  /\ UNCHANGED <<subscribed, vectors, acquiring, targets, handle, attached, timer,
                 quiet, dropped, transport, budget>>

\* The transport's callback with an object: valid, unless its source went away
\* between the turn that scheduled the delivery and this one.
AcquireDelivered(o) ==
  /\ agenda = <<>>
  /\ inflight[o] > 0 /\ (up[o] \/ ready[o] > 0)
  /\ inflight' = [inflight EXCEPT ![o] = @ - 1]
  /\ ready' = [ready EXCEPT ![o] = IF @ > 0 THEN @ - 1 ELSE 0]
  /\ acquiring' = acquiring \ {o}
  /\ ArmAgainst(o, IF up[o] THEN "valid" ELSE "stale", <<>>)
  /\ UNCHANGED <<subscribed, deferring, up, budget>>

\* The transport's callback with nullptr: abandon.
AcquireRefused(o) ==
  /\ agenda = <<>>
  /\ inflight[o] > 0 /\ up[o] /\ o \in Mismatched
  /\ inflight' = [inflight EXCEPT ![o] = @ - 1]
  /\ ready' = [ready EXCEPT ![o] = IF @ > 0 THEN @ - 1 ELSE 0]
  /\ acquiring' = acquiring \ {o}
  /\ LET matched == entries \cap Of(o) IN
     /\ entries' = entries \ matched
     /\ timer' = (timer /\ (entries' # {} \/ armed # {}))
     /\ dropped' = dropped \cup matched
     /\ agenda' = IF matched = {} THEN <<>> ELSE <<Frame("drop", o, matched)>> \o Report({o})
  /\ UNCHANGED <<subscribed, armed, held, gutted, targets, handle, attached, quiet,
                 deferring, up, budget>>

-----------------------------------------------------------------------------
(* The public operations.                                                  *)

Add(s) ==
  /\ MayCall("add") /\ s \notin subscribed
  /\ \E mix \in Mixes : subscribed \cup {s} \subseteq mix
  /\ subscribed' = subscribed \cup {s}
  /\ entries' = entries \cup {s}
  /\ LET o == ObjectOf[s] IN
     Call(IF handle[o] = "valid" THEN <<Frame("arm", o, {})>>
          ELSE <<Frame("begin", o, {}), EnsureTimer>>)
  /\ UNCHANGED <<armed, held, gutted, acquiring, targets, handle, attached, timer,
                 quiet, dropped, transport, budget>>

\* An id that is in none of the three vectors is unknown: nothing changes.
Cancel(s) ==
  /\ MayCall("cancel") /\ s \in entries \cup armed \cup held
  /\ entries' = entries \ {s}
  /\ armed' = armed \ {s}
  /\ held' = held \ {s} /\ gutted' = gutted \ {s}
  /\ timer' = (timer /\ (s \in entries => entries' # {} \/ armed # {}))
  /\ dropped' = dropped \cup {s}
  /\ UNCHANGED <<subscribed, acquiring, targets, handle, attached, quiet, agenda,
                 transport, budget>>

SetRestartPolicy(o, policy) ==
  /\ MayCall("policy") /\ <<o, policy>> \in Policies
  /\ restart' = [restart EXCEPT ![o] = policy]
  /\ UNCHANGED <<subscribed, vectors, acquiring, generation, watched, handle, attached,
                 timer, quiet, agenda, dropped, transport, budget>>

\* The installer replays where the object is.
SetStatusCallback(o) ==
  /\ MayCall("status") /\ o \in Watchers \ watched
  /\ watched' = watched \cup {o}
  /\ Call(IF armed \cap Of(o) # {} \/ Held(o) # {} THEN <<Frame("edge", "-", {o})>> ELSE <<>>)
  /\ UNCHANGED <<subscribed, vectors, acquiring, restart, generation, handle, attached,
                 timer, quiet, dropped, transport, budget>>

\* The loop moves every entry it keeps into a local vector; with none of o's
\* among them the early return leaves the moved-from entries in m_held.
Rearm(o) ==
  /\ MayCall("rearm")
  /\ IF Held(o) = {}
     THEN gutted' = held /\ UNCHANGED <<entries, held, quiet, agenda>>
     ELSE /\ held' = held \ Held(o)
          /\ entries' = entries \cup Held(o)
          /\ quiet' = quiet \ Held(o)
          /\ Call(<<Frame(IF handle[o] = "valid" THEN "arm" ELSE "begin", o, {}), EnsureTimer>>)
          /\ UNCHANGED gutted
  /\ UNCHANGED <<subscribed, armed, acquiring, targets, handle, attached, timer,
                 dropped, transport, budget>>

-----------------------------------------------------------------------------
(* A loss: the subscriptions of lost leave the armed set, to be held where *)
(* the restart policy is Manual and to be chased where it is Automatic.    *)

\* Mutation of Lose: what the policy holds is let go.
LoseHeld(lost) ==
  /\ armed' = armed \ lost
  /\ entries' = entries \cup {s \in lost : ~Manual(ObjectOf[s])}
  /\ UNCHANGED held

Lose(lost) ==
  /\ armed' = armed \ lost
  /\ held' = held \cup {s \in lost : Manual(ObjectOf[s])}
  /\ entries' = entries \cup {s \in lost : ~Manual(ObjectOf[s])}

Chase(lost) ==
  LET names == {ObjectOf[s] : s \in lost}
  IN Report({o \in names : Manual(o)}) \o Loop({o \in names : ~Manual(o)}) \o <<EnsureTimer>>

\* LogosAPIConsumer::reconnect: the transport cancels its deferred acquires
\* without a callback, then reconnected() starts over.
Reconnect ==
  /\ MayCall("reconnect") /\ budget > 0
  /\ budget' = budget - 1
  /\ inflight' = [o \in Objects |-> 0] /\ ready' = [o \in Objects |-> 0]
  /\ handle' = [o \in Objects |-> "none"] /\ attached' = {}
  /\ acquiring' = {}
  /\ Lose(armed)
  /\ quiet' = quiet \ (entries' \cap armed)
  /\ Call(Chase(armed))
  /\ UNCHANGED <<subscribed, gutted, targets, timer, dropped, deferring, up>>

-----------------------------------------------------------------------------
(* The timer: tick, checkLiveness, rescheduleOrStop.                       *)

Stale == {o \in Objects : handle[o] = "stale"}

Tick ==
  /\ agenda = <<>> /\ timer
  /\ Call((IF armed = {} \/ Stale = {} THEN <<>> ELSE <<Frame("dead", "-", Stale), EnsureTimer>>)
          \o <<Frame("wanted", "-", {}), Frame("settle", "-", {})>>)
  /\ UNCHANGED <<subscribed, vectors, acquiring, targets, handle, attached, timer,
                 quiet, dropped, transport, budget>>

\* One turn of the loop of checkLiveness.  The set of dead objects was taken
\* before it; a callback of an earlier turn may have replaced the handle.
CheckLiveness ==
  /\ Running("dead")
  /\ LET dead == Head(agenda).set IN
     \E o \in dead :
       /\ handle' = [handle EXCEPT ![o] = "none"]
       /\ attached' = attached \ Of(o)
       /\ acquiring' = acquiring \ {o}
       /\ Lose(armed \cap Of(o))
       /\ Return((IF armed \cap Of(o) = {} THEN <<>> ELSE Report({o}))
                 \o <<Frame("chase", o, {})>> \o Each("dead", "-", dead \ {o}))
  /\ UNCHANGED <<subscribed, gutted, targets, timer, quiet, dropped, transport, budget>>

\* if (hasPendingFor(objectName)) beginAcquire(objectName)
ChaseIfPending ==
  /\ Running("chase")
  /\ LET o == Head(agenda).o IN
     Return(IF entries \cap Of(o) = {} THEN <<>> ELSE <<Frame("begin", o, {})>>)
  /\ UNCHANGED <<subscribed, vectors, acquiring, targets, handle, attached, timer,
                 quiet, dropped, transport, budget>>

\* The rest of tick: chase every pending object with no acquire in flight.
Wanted ==
  /\ Running("wanted")
  /\ Return(Loop({ObjectOf[s] : s \in entries} \ acquiring))
  /\ UNCHANGED <<subscribed, vectors, acquiring, targets, handle, attached, timer,
                 quiet, dropped, transport, budget>>

\* Whether a pending entry still gives a tick something to do.
Busy(said) == \E s \in entries : ObjectOf[s] \notin acquiring \/ s \notin said

\* Mutation of Reschedule: the timer stops when nothing is left to chase.
RescheduleForPending(said) == timer' = Busy(said)

\* rescheduleOrStop.  A busy entry restarts the timer, except at the longest
\* interval, where the timer is left as it is.
Reschedule(said) ==
  IF Busy(said) THEN timer' \in {timer, TRUE} ELSE timer' = (armed # {})

\* reportStillPending, by whatever time has passed, then rescheduleOrStop.
Settle ==
  /\ Running("settle")
  /\ \E said \in SUBSET entries :
       /\ quiet' = quiet \cup said
       /\ Reschedule(quiet')
  /\ Return(<<>>)
  /\ UNCHANGED <<subscribed, vectors, acquiring, targets, handle, attached, dropped,
                 transport, budget>>

-----------------------------------------------------------------------------
(* The provider, as the transport shows it.  Only a transport with a       *)
(* deferred acquire knows staleness: LogosObject::isValid() is true on the *)
(* others.                                                                 *)

ProviderGoes(o) ==
  /\ agenda = <<>> /\ budget > 0 /\ up[o]
  /\ up' = [up EXCEPT ![o] = FALSE]
  /\ handle' = [handle EXCEPT ![o] = IF deferring /\ @ = "valid" THEN "stale" ELSE @]
  /\ \E n \in 0..inflight[o] : ready' = [ready EXCEPT ![o] = n]
  /\ budget' = budget - 1
  /\ UNCHANGED <<subscribed, vectors, acquiring, targets, attached, timer, quiet, agenda,
                 dropped, deferring, inflight>>

\* The replica of a stale handle is driven back to valid, or stays suspect
\* while a new one becomes valid.
ProviderComes(o) ==
  /\ agenda = <<>> /\ budget > 0 /\ ~up[o]
  /\ up' = [up EXCEPT ![o] = TRUE]
  /\ \/ UNCHANGED handle
     \/ handle[o] = "stale" /\ handle' = [handle EXCEPT ![o] = "valid"]
  /\ budget' = budget - 1
  /\ UNCHANGED <<subscribed, vectors, acquiring, targets, attached, timer, quiet, agenda,
                 dropped, deferring, inflight, ready>>

-----------------------------------------------------------------------------

\* What runs once called: the innermost frame.
Step ==
  \/ Arm \/ Attach \/ Push \/ CallbackReturns \/ StartTimer
  \/ AcquiredNow \/ NotAcquired \/ NextName
  \/ CheckLiveness \/ ChaseIfPending \/ Wanted \/ Settle

User ==
  \/ \E s \in Subs : Add(s) \/ Cancel(s)
  \/ \E o \in Objects : Rearm(o) \/ SetStatusCallback(o)
  \/ \E o \in Objects, policy \in {"Automatic", "Manual"} : SetRestartPolicy(o, policy)
  \/ Reconnect

Transport ==
  \E o \in Objects : AcquireDelivered(o) \/ AcquireRefused(o) \/ ProviderGoes(o) \/ ProviderComes(o)

Next == Step \/ User \/ Transport \/ Tick

Spec == Init /\ [][Next]_vars

(***************************************************************************)
(* The event loop runs what is called and what is due: the stack unwinds   *)
(* (a callback returns), a running timer fires, and a deferred acquire of  *)
(* a reachable object is delivered (or refused).  The last two wait for an *)
(* empty stack, which other events keep interrupting: the loop serves what *)
(* is due in turn, hence strong fairness.  Nobody has to subscribe, cancel *)
(* or reconnect, and no provider has to come or go.                        *)
(***************************************************************************)
FairSpec ==
  /\ Spec
  /\ WF_vars(Step) /\ SF_vars(Tick)
  /\ \A o \in Objects : SF_vars(AcquireDelivered(o) \/ AcquireRefused(o))

-----------------------------------------------------------------------------
(* Properties.                                                             *)

\* Subscriptions an armAgainst has taken out of m_entries and not yet pushed.
InHand ==
  UNION {agenda[i].set : i \in {j \in DOMAIN agenda : agenda[j].op \in {"attach", "push"}}}

\* A subscription is forgotten in one way only: rearm() of an object with nothing
\* held guts what is held for the others.  Whatever mixture of losses, reconnects
\* and re-entrant calls, each other one that was made and not let go of (cancelled,
\* answered, abandoned) is in exactly one place, with its name and its callback:
\* m_entries, m_armed, m_held or the loop of a running armAgainst.  The shells of the
\* gutted ones stay in m_held and nowhere else, where cancel() finds them.
OnlyEmptyRearmForgets ==
  /\ subscribed \ (dropped \cup gutted) \subseteq entries \cup armed \cup (held \ gutted) \cup InHand
  /\ gutted \subseteq held
  /\ entries \cap armed = {} /\ entries \cap held = {} /\ armed \cap held = {}
  /\ InHand \cap (entries \cup armed \cup held) = {}

\* "A subscription that is dead while looking healthy" (armAgainst) does not
\* exist: an armed one has its callback on the handle the registry holds for
\* its object, though that handle may have gone stale since.
ArmedIsAttached ==
  \A s \in armed : s \in attached /\ handle[ObjectOf[s]] # "none"

\* Nobody is left behind: the timer, the transport's callback and the watchdog
\* between them arm every pending subscription whose object is reachable (or
\* abandon it), whatever was declined, lost or reconnected before, and notice
\* every handle that went stale under an armed one, to hold or chase it.
\* (Providers come and go and consumers reconnect finitely often, so "each time"
\* is that from some moment on none is waiting.)
NoneLeftBehind ==
  <>[](\A s \in Subs : /\ s \in entries => ~up[ObjectOf[s]]
                       /\ s \in armed => handle[ObjectOf[s]] # "stale")
=============================================================================
