---------------------------- MODULE RemoteAcquire ----------------------------
(***************************************************************************)
(* How a QtRO connection acquires one object (remote_transport.cpp): the   *)
(* blocking requestObject, which runs a nested event loop, the non-        *)
(* blocking requestObjectWhenAvailable, and tryAcquireNow, which parks its *)
(* probe.  Everything runs on the consumer's event loop.                   *)
(*                                                                         *)
(* The node shares one implementation per object among the replicas        *)
(* ("facades") acquired for it.  Until the source's class definition is    *)
(* there the implementation lists its facades by raw pointer and follows   *)
(* every one of them when it comes; destroying a facade does not take it   *)
(* off the list, and the implementation goes with its last facade.         *)
(***************************************************************************)
EXTENDS Naturals, Sequences, FiniteSets

CONSTANTS
  Waits,      \* calls of requestObjectWhenAvailable
  Requests,   \* calls of requestObject
  MaxProbes,  \* bound: facades that tryAcquireNow acquires
  MaxNodes    \* bound: nodes, the first included

ASSUME AcquireAssumption ==
  /\ Waits \cap Requests = {} /\ MaxProbes \in Nat /\ MaxNodes \in Nat \ {0}
  /\ (Waits \cup Requests) \cap (1..MaxProbes) = {}

Probes == 1..MaxProbes
Facades == Waits \cup Requests \cup Probes

VARIABLES
  connected,  \* m_connected: connectToNode() took the URL
  node,       \* the number of m_node; 0 once the connection is destroyed
  impl,       \* the node's implementation: "none", "waiting", "valid", "suspect", "mismatch"
  needing,    \* its m_parentsNeedingConnect
  owner,      \* owner[f]: "unmade", "pending", "probe", "request", "handle" or "freed"
  of,         \* of[f]: the node f was acquired on
  scheduled,  \* scheduled[w]: PendingAcquire's posted verdict: "no", "ok" or "fail"
  stack,      \* nested loops of requestObject: [f, quit]
  \* history, read by properties only
  told,       \* told[w]: how often onReady was called
  cancelled   \* waits whose PendingAcquire was destroyed

connection == <<connected, node>>
qtro == <<impl, needing>>
facades == <<owner, of, scheduled>>
history == <<told, cancelled>>
acquireVars == <<connection, qtro, facades, stack, history>>

AcquireInit ==
  /\ connected = FALSE /\ node = 1 /\ impl = "none" /\ needing = {}
  /\ owner = [f \in Facades |-> "unmade"] /\ of = [f \in Facades |-> 0]
  /\ scheduled = [w \in Waits |-> "no"] /\ stack = <<>>
  /\ told = [w \in Waits |-> 0] /\ cancelled = {}

Exists == node # 0
Valid(f) == of[f] = node /\ impl = "valid"

\* The implementation lives as long as a facade of its node does.
Pinned(own) == \E f \in Facades : of[f] = node /\ own[f] \notin {"unmade", "freed"}
ImplKept(own) == IF Pinned(own) THEN UNCHANGED qtro ELSE impl' = "none" /\ needing' = {}

\* acquireDynamic: a facade on the node's implementation, which is made when
\* there is none.
Acquire(f, who) ==
  /\ owner' = [owner EXCEPT ![f] = who] /\ of' = [of EXCEPT ![f] = node]
  /\ impl' = IF impl = "none" THEN "waiting" ELSE impl
  /\ needing' = IF impl \in {"none", "waiting", "mismatch"} THEN needing \cup {f} ELSE needing

-----------------------------------------------------------------------------
(* The source, as QtRO's node sees it.                                     *)

\* onStateChanged of every PendingAcquire: the first verdict is posted.
Scheduled(verdict) ==
  scheduled' = [w \in Waits |-> IF owner[w] = "pending" /\ of[w] = node /\ scheduled[w] = "no"
                                THEN verdict ELSE scheduled[w]]

ClassDefinition ==
  /\ Exists /\ impl = "waiting"
  /\ impl' = "valid" /\ needing' = {}
  /\ Scheduled("ok")
  /\ UNCHANGED <<connection, owner, of, stack, told, cancelled>>

SourceDrops ==
  /\ Exists /\ impl = "valid"
  /\ impl' = "suspect"
  /\ UNCHANGED <<connection, needing, facades, stack, history>>

SourceReturns ==
  /\ Exists /\ impl = "suspect"
  /\ impl' = "valid" /\ Scheduled("ok")
  /\ UNCHANGED <<connection, needing, owner, of, stack, history>>

\* A source of another signature: no further change of state arrives.
SignatureMismatch ==
  /\ Exists /\ impl = "waiting"
  /\ impl' = "mismatch" /\ Scheduled("fail")
  /\ UNCHANGED <<connection, needing, owner, of, stack, history>>

-----------------------------------------------------------------------------
(* The connection.                                                         *)

\* connectToRegistry: only the URL's scheme is looked at.
ConnectToHost ==
  /\ Exists /\ ~connected
  /\ connected' = TRUE
  /\ UNCHANGED <<node, qtro, facades, stack, history>>

\* m_pendingAcquires and the probes are destroyed, then the node.
Discarded == {f \in Facades : owner[f] \in {"pending", "probe"}}
Discard ==
  /\ owner' = [f \in Facades |-> IF f \in Discarded THEN "freed" ELSE owner[f]]
  /\ scheduled' = [w \in Waits |-> IF w \in Discarded THEN "no" ELSE scheduled[w]]
  /\ cancelled' = cancelled \cup (Waits \cap Discarded)
  /\ impl' = "none" /\ needing' = {}

ReconnectNode ==
  /\ Exists /\ connected /\ node < MaxNodes
  /\ Discard /\ node' = node + 1
  /\ UNCHANGED <<connected, of, stack, told>>

Destroy ==
  /\ Exists
  /\ Discard /\ node' = 0
  /\ UNCHANGED <<connected, of, stack, told>>

-----------------------------------------------------------------------------
(* The three ways to acquire, and the handles they give.                   *)

\* Mutation of RequestObjectWhenAvailable: an object that is there already is
\* waited for.
RequestObjectUnlooked(w) ==
  /\ Exists /\ connected /\ owner[w] = "unmade"
  /\ Acquire(w, "pending")
  /\ UNCHANGED <<connection, scheduled, stack, history>>

\* A new PendingAcquire posts its delivery when the replica is Valid already.
RequestObjectWhenAvailable(w) ==
  /\ Exists /\ connected /\ owner[w] = "unmade"
  /\ Acquire(w, "pending")
  /\ scheduled' = [scheduled EXCEPT ![w] = IF impl = "valid" THEN "ok" ELSE "no"]
  /\ UNCHANGED <<connection, stack, history>>

\* Mutation of Deliver: the posted call is not tied to the PendingAcquire.
DeliverUnbound(w) ==
  /\ owner[w] # "unmade" /\ told[w] = 0 /\ (scheduled[w] # "no" \/ w \in cancelled)
  /\ told' = [told EXCEPT ![w] = @ + 1]
  /\ owner' = [owner EXCEPT ![w] = IF scheduled[w] = "ok" THEN "handle" ELSE "freed"]
  /\ scheduled' = [scheduled EXCEPT ![w] = "no"]
  /\ UNCHANGED <<connection, qtro, of, stack, cancelled>>

\* deliver(): the replica becomes a handle, or is deleted; the callback is told.
Deliver(w) ==
  /\ owner[w] = "pending" /\ scheduled[w] # "no"
  /\ told' = [told EXCEPT ![w] = @ + 1]
  /\ owner' = [owner EXCEPT ![w] = IF scheduled[w] = "ok" THEN "handle" ELSE "freed"]
  /\ scheduled' = [scheduled EXCEPT ![w] = "no"]
  /\ ImplKept(owner')
  /\ UNCHANGED <<connection, of, stack, cancelled>>

Parked == {p \in Probes : owner[p] = "probe"}

\* Mutation of TryAcquireNow: a probe that is not Valid is deleted at once.
TryAcquireAndDelete ==
  /\ Exists /\ connected
  /\ \E p \in Probes :
       /\ owner[p] = "unmade"
       /\ owner' = [owner EXCEPT ![p] = IF impl = "valid" THEN "handle" ELSE "freed"]
       /\ of' = [of EXCEPT ![p] = node]
       /\ IF impl \in {"waiting", "mismatch"} THEN needing' = needing \cup {p} /\ UNCHANGED impl
          ELSE UNCHANGED qtro
  /\ UNCHANGED <<connection, scheduled, stack, history>>

\* A parked probe is looked at, or a fresh one parked; a Valid one is given away.
TryAcquireNow ==
  /\ Exists /\ connected
  /\ \/ \E p \in Parked :
          /\ Valid(p)
          /\ owner' = [owner EXCEPT ![p] = "handle"] /\ UNCHANGED <<of, qtro>>
     \/ /\ Parked = {}
        /\ \E p \in Probes :
             /\ owner[p] = "unmade"
             /\ Acquire(p, IF impl = "valid" THEN "handle" ELSE "probe")
  /\ UNCHANGED <<connection, scheduled, stack, history>>

\* requestObject: acquires and waits for the source in a nested loop.
RequestObject(r) ==
  /\ Exists /\ connected /\ owner[r] = "unmade"
  /\ Acquire(r, "request")
  /\ stack' = Append(stack, [f |-> r, quit |-> FALSE])
  /\ UNCHANGED <<connection, scheduled, history>>

\* The loop of a request ends with the source or the deadline ...
QuitWait(i) ==
  /\ ~stack[i].quit
  /\ stack' = [stack EXCEPT ![i].quit = TRUE]
  /\ UNCHANGED <<connection, qtro, facades, history>>

\* ... and the innermost request goes on: a Valid replica is returned as a
\* handle, any other is deleted.
RequestReturns ==
  /\ stack # <<>> /\ stack[Len(stack)].quit
  /\ LET r == stack[Len(stack)].f IN
       owner' = [owner EXCEPT ![r] = IF Valid(r) THEN "handle" ELSE "freed"]
  /\ ImplKept(owner')
  /\ stack' = SubSeq(stack, 1, Len(stack) - 1)
  /\ UNCHANGED <<connection, of, scheduled, history>>

\* The handle is released and its replica deleted.
Release(f) ==
  /\ owner[f] = "handle"
  /\ owner' = [owner EXCEPT ![f] = "freed"]
  /\ ImplKept(owner')
  /\ UNCHANGED <<connection, of, scheduled, stack, history>>

-----------------------------------------------------------------------------
AcquireNext ==
  \/ ClassDefinition \/ SourceDrops \/ SourceReturns \/ SignatureMismatch
  \/ ConnectToHost \/ ReconnectNode \/ Destroy \/ TryAcquireNow \/ RequestReturns
  \/ \E w \in Waits : RequestObjectWhenAvailable(w) \/ Deliver(w)
  \/ \E r \in Requests : RequestObject(r)
  \/ \E i \in DOMAIN stack : QuitWait(i)
  \/ \E f \in Facades : Release(f)

AcquireSpec == AcquireInit /\ [][AcquireNext]_acquireVars

\* The event loop runs what is posted.  The source need not come.
FairAcquireSpec == AcquireSpec /\ \A w \in Waits : WF_acquireVars(Deliver(w))

-----------------------------------------------------------------------------
\* No parked probe, pending acquire or released handle leaves a pointer behind in
\* the implementation's list: what it follows when the class definition comes is
\* alive, unless a blocking request gave up on an object that others wait for.
OnlyRequestsDangle ==
  impl = "waiting" => \A f \in needing : owner[f] = "freed" => f \in Requests

\* A wait that was cancelled, by a reconnect or the destructor, is never told
\* anything, also when its delivery was posted already.
CancelledIsSilent == [][\A w \in cancelled : told'[w] = told[w]]_acquireVars

\* A wait for an object that is there is told so, whichever of the two came
\* first, unless it is cancelled.
WaitServed ==
  \A w \in Waits : owner[w] = "pending" /\ impl = "valid" ~> told[w] = 1 \/ w \in cancelled
=============================================================================
