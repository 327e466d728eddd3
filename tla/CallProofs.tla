----------------------------- MODULE CallProofs -----------------------------
(***************************************************************************)
(* What happens to a call in flight, at the two places that keep it: the   *)
(* registry of pending calls of a connection (RpcPeer), and the Qt object  *)
(* handle with its nested event loops (QtLogosObject).                     *)
(*                                                                         *)
(* RpcPeer, for any number of calls, requests and threads. The safety      *)
(* invariants are not inductive as they stand; IInv adds where each        *)
(* handler can be at each step of its sender and of fail().                *)
(***************************************************************************)
EXTENDS RpcPeer, QtLogosObject, SequenceTheorems, TLAPS

\* A handler is in one place only.
OnePlace ==
  \A i \in Ids :
    /\ i \in pending => i \notin taken /\ i \notin swept /\ ~Inline(i)
    /\ i \in taken => i \notin swept /\ ~Inline(i)
    /\ i \in swept => ~Inline(i)

\* A handler in a map or in a thread's hands has not been invoked; a call that
\* has not been issued has none.
LiveUnanswered ==
  \A i \in Ids : /\ Live(i) => invoked[i] = 0 /\ sender[i] # "idle"
                 /\ sender[i] = "idle" => invoked[i] = 0

\* Only the loop of fail() has swept handlers.
SweptWhileAnswering == failStep # "answer" => swept = {}

\* m_stopped is what the winner of fail()'s CAS wrote.
StoppedIffFailing == stopped <=> failStep # "none"

\* A sender that has not reached emitMessage has put nothing on the wire, and
\* only a sender that never will answers TRANSPORT_CLOSED.
UnsentBeforeEmit ==
  \A i \in Ids :
    /\ sender[i] \in {"idle", "registered", "reclaim", "inline"} => i \notin sent
    /\ outcome[i] = "transport_closed" => sender[i] = "returned" /\ i \notin sent

IInv ==
  /\ TypeOK
  /\ OnePlace
  /\ LiveUnanswered
  /\ AtMostOnce
  /\ SweptWhileAnswering
  /\ StoppedIffFailing
  /\ NoneStranded
  /\ NoneLost
  /\ UnsentBeforeEmit

-----------------------------------------------------------------------------
\* Every variable of RpcPeer keeps its type in every step.
LEMMA TypeStep == TypeOK /\ [Next]_vars => TypeOK'
<1> SUFFICES ASSUME TypeOK, [Next]_vars PROVE TypeOK'
  OBVIOUS
<1> USE DEF TypeOK, registry, failVars, answers, SenderSteps, FailSteps, Outcomes
<1>1. ASSUME NEW i \in Ids, Register(i) PROVE TypeOK'
  BY <1>1 DEF Register, Goto, Insert, Ids
<1>2. ASSUME NEW i \in Ids, CheckStopped(i) PROVE TypeOK'
  BY <1>2 DEF CheckStopped, Goto
<1>3. ASSUME NEW i \in Ids, Reclaim(i) PROVE TypeOK'
  BY <1>3 DEF Reclaim, Goto, Erase
<1>4. ASSUME NEW i \in Ids, AnswerInline(i) PROVE TypeOK'
  BY <1>4 DEF AnswerInline, Goto, Invoke
<1>5. ASSUME NEW i \in Ids, Emit(i) PROVE TypeOK'
  BY <1>5 DEF Emit, Goto
<1>6. ASSUME NEW i \in Ids, CancelPending(i) PROVE TypeOK'
  BY <1>6 DEF CancelPending, Erase
<1>7. ASSUME NEW i \in Ids, TakeReply(i) PROVE TypeOK'
  BY <1>7 DEF TakeReply, Erase
<1>8. ASSUME NEW i \in Ids, InvokeTaken(i) PROVE TypeOK'
  BY <1>8 DEF InvokeTaken, Invoke
<1>9. ASSUME NEW i \in Ids, AnswerSwept(i) PROVE TypeOK'
  BY <1>9 DEF AnswerSwept, Invoke
<1>10. CASE SetErrorHandler
  BY <1>10 DEF SetErrorHandler
<1>11. ASSUME NEW t \in Threads, FailCas(t) PROVE TypeOK'
  BY <1>11 DEF FailCas
<1>12. CASE Sweep
  BY <1>12 DEF Sweep, pending, Ids
<1>13. CASE CloseTransport
  BY <1>13 DEF CloseTransport, FailNext
<1>14. CASE NotifyClosed
  BY <1>14 DEF NotifyClosed, FailNext
<1>15. CASE FireError
  BY <1>15 DEF FireError, FailNext
<1>16. CASE UNCHANGED vars
  BY <1>16 DEF vars
<1>17. QED
  BY <1>1, <1>2, <1>3, <1>4, <1>5, <1>6, <1>7, <1>8, <1>9, <1>10, <1>11, <1>12,
     <1>13, <1>14, <1>15, <1>16 DEF Next

\* The initial state of RpcPeer is well typed.
LEMMA InitType == Init => TypeOK
<1> SUFFICES ASSUME Init PROVE TypeOK
  OBVIOUS
<1>1. failer \in Threads /\ failStep \in FailSteps
  BY DEF Init, Threads, FailSteps
<1>2. sender \in [Ids -> SenderSteps] /\ outcome \in [Ids -> Outcomes]
  BY DEF Init, SenderSteps, Outcomes
<1>3. invoked \in [Ids -> Nat]
  BY DEF Init
<1>4. QED
  BY <1>1, <1>2, <1>3, Zenon DEF Init, TypeOK

\* Type correctness of the pending-call registry.
THEOREM TypeCorrect == Spec => []TypeOK
  BY InitType, TypeStep, PTL DEF Spec

\* The inductive invariant holds initially.
LEMMA IInvInit == Init => IInv
<1> SUFFICES ASSUME Init PROVE IInv
  OBVIOUS
<1>1. TypeOK
  BY InitType
<1>2. pending = {} /\ taken = {} /\ swept = {} /\ sent = {}
  BY DEF Init, pending
<1>3. \A i \in Ids : sender[i] = "idle" /\ invoked[i] = 0 /\ outcome[i] = "none"
  BY DEF Init
<1>4. failStep = "none" /\ ~stopped
  BY DEF Init
<1>5. QED
  BY <1>1, <1>2, <1>3, <1>4 DEF IInv, OnePlace, LiveUnanswered, AtMostOnce,
     SweptWhileAnswering, StoppedIffFailing, NoneStranded, NoneLost, UnsentBeforeEmit, Live, Inline

\* Every step preserves the inductive invariant.
LEMMA IInvStep == IInv /\ [Next]_vars => IInv'
<1> SUFFICES ASSUME IInv, [Next]_vars PROVE IInv'
  OBVIOUS
<1>0. TypeOK'
  BY TypeStep DEF IInv
<1> USE IdsAssumption, <1>0
    DEF IInv, OnePlace, LiveUnanswered, AtMostOnce, SweptWhileAnswering,
        StoppedIffFailing, NoneStranded,
        NoneLost, UnsentBeforeEmit, Live, Inline, pending, Ids, TypeOK,
        registry, failVars, answers, SenderSteps, FailSteps, Outcomes
<1>1. ASSUME NEW i \in Ids, Register(i) PROVE IInv'
  BY <1>1 DEF Register, Goto, Insert
<1>2. ASSUME NEW i \in Ids, CheckStopped(i) PROVE IInv'
  BY <1>2 DEF CheckStopped, Goto
<1>3. ASSUME NEW i \in Ids, Reclaim(i) PROVE IInv'
  BY <1>3 DEF Reclaim, Goto, Erase
<1>4. ASSUME NEW i \in Ids, AnswerInline(i) PROVE IInv'
  BY <1>4 DEF AnswerInline, Goto, Invoke
<1>5. ASSUME NEW i \in Ids, Emit(i) PROVE IInv'
  BY <1>5 DEF Emit, Goto
<1>6. ASSUME NEW i \in Ids, CancelPending(i) PROVE IInv'
  BY <1>6 DEF CancelPending, Erase
<1>7. ASSUME NEW i \in Ids, TakeReply(i) PROVE IInv'
  BY <1>7 DEF TakeReply, Erase, IoBusy
<1>8. ASSUME NEW i \in Ids, InvokeTaken(i) PROVE IInv'
  BY <1>8 DEF InvokeTaken, Invoke
<1>9. ASSUME NEW i \in Ids, AnswerSwept(i) PROVE IInv'
  BY <1>9 DEF AnswerSwept, Invoke
<1>10. CASE SetErrorHandler
  BY <1>10 DEF SetErrorHandler
<1>11. CASE Sweep
  <2>1. pending' = {} /\ swept' = pending /\ failStep = "sweep" /\ failStep' = "answer"
    BY <1>11 DEF Sweep
  <2>2. UNCHANGED <<stopped, sender, sent, taken, invoked, outcome, gaveUp>>
    BY <1>11 DEF Sweep
  <2>3. swept = {}
    BY <2>1 DEF Sweep
  <2>4. QED
    BY <2>1, <2>2, <2>3
<1>12. CASE CloseTransport
  BY <1>12 DEF CloseTransport, FailNext
<1>13. CASE NotifyClosed
  BY <1>13 DEF NotifyClosed, FailNext
<1>14. CASE FireError
  BY <1>14 DEF FireError, FailNext
<1>15. CASE UNCHANGED vars
  BY <1>15 DEF vars
<1>16. ASSUME NEW t \in Threads, FailCas(t) PROVE IInv'
  BY <1>16 DEF FailCas
<1>17. QED
  BY <1>1, <1>2, <1>3, <1>4, <1>5, <1>6, <1>7, <1>8, <1>9, <1>10, <1>11, <1>12, <1>13, <1>14, <1>15, <1>16 DEF Next

\* The inductive invariant is an invariant of RpcPeer.
LEMMA IInvAlways == Spec => []IInv
  BY IInvInit, IInvStep, PTL DEF Spec

\* AT MOST ONCE: no interleaving of replies, teardown, cancels and sends invokes
\* the handler of a call twice.
THEOREM AtMostOnceAlways == Spec => []AtMostOnce
<1>1. IInv => AtMostOnce
  BY DEF IInv
<1>2. QED
  BY <1>1, IInvAlways, PTL

\* AT LEAST ONCE, its safety half: a teardown and a registration never pass each
\* other unseen, and no handler is lost.
THEOREM NoneStrandedAlways == Spec => [](NoneStranded /\ NoneLost)
<1>1. IInv => NoneStranded /\ NoneLost
  BY DEF IInv
<1>2. QED
  BY <1>1, IInvAlways, PTL

\* A call answered with TRANSPORT_CLOSED was never sent.
THEOREM ClosedMeansUnsentAlways == Spec => []ClosedMeansUnsent
<1>1. IInv => ClosedMeansUnsent
  BY DEF IInv, UnsentBeforeEmit, ClosedMeansUnsent
<1>2. QED
  BY <1>1, IInvAlways, PTL

-----------------------------------------------------------------------------
(* RpcPeer implements the safety part of CallContract.                      *)

\* The initial state maps to the initial state of the contract.
LEMMA ContractInit == Init => Contract!Init
<1> SUFFICES ASSUME Init PROVE Contract!Init
  OBVIOUS
<1>1. \A i \in Ids : PhaseOf(i) = "idle"
  BY DEF Init, PhaseOf
<1>2. QED
  BY <1>1 DEF Init, Contract!Init

\* A step that changes the phase of no call, no cancel and not m_stopped is a
\* stuttering step of the contract.
LEMMA ContractStutter ==
  ASSUME \A j \in Ids : PhaseOf(j)' = PhaseOf(j), UNCHANGED <<gaveUp, stopped>>
  PROVE  UNCHANGED Contract!cvars
  BY DEF Contract!cvars

\* A step that moves the call i, and no other, from one phase to the next.
LEMMA ContractMove ==
  ASSUME NEW i \in Ids, NEW p, NEW q, PhaseOf(i) = p, PhaseOf(i)' = q,
         \A j \in Ids \ {i} : PhaseOf(j)' = PhaseOf(j), UNCHANGED <<gaveUp, stopped>>
  PROVE  /\ p = "idle" /\ q = "waiting" => Contract!Issue(i)
         /\ p = "waiting" /\ q = "answered" => Contract!Answer(i)
  BY DEF Contract!Issue, Contract!Answer

\* Every step of RpcPeer is a step of the contract or a stuttering step of it.
LEMMA ContractStep == IInv /\ IInv' /\ [Next]_vars => [Contract!Next]_(Contract!cvars)
<1> SUFFICES ASSUME IInv, IInv', [Next]_vars PROVE [Contract!Next]_(Contract!cvars)
  OBVIOUS
<1> USE IdsAssumption
    DEF IInv, OnePlace, LiveUnanswered, AtMostOnce, TypeOK, PhaseOf, Live, Inline,
        pending, Ids, registry, failVars, answers
<1>1. ASSUME NEW i \in Ids, Register(i) PROVE Contract!Issue(i)
  <2>1. PhaseOf(i) = "idle" /\ PhaseOf(i)' = "waiting"
    BY <1>1 DEF Register, Goto, Insert
  <2>2. \A j \in Ids \ {i} : PhaseOf(j)' = PhaseOf(j)
    BY <1>1 DEF Register, Goto, Insert
  <2>3. QED
    BY <1>1, <2>1, <2>2, ContractMove DEF Register
<1>2. ASSUME NEW i \in Ids, CheckStopped(i) PROVE UNCHANGED Contract!cvars
  <2>1. \A j \in Ids : PhaseOf(j)' = PhaseOf(j)
    BY <1>2 DEF CheckStopped, Goto
  <2>2. QED
    BY <1>2, <2>1, ContractStutter DEF CheckStopped
<1>3. ASSUME NEW i \in Ids, Reclaim(i) PROVE UNCHANGED Contract!cvars
  <2>1. \A j \in Ids : PhaseOf(j)' = PhaseOf(j)
    BY <1>3 DEF Reclaim, Goto, Erase
  <2>2. QED
    BY <1>3, <2>1, ContractStutter DEF Reclaim
<1>4. ASSUME NEW i \in Ids, AnswerInline(i) PROVE Contract!Answer(i)
  <2>1. PhaseOf(i) = "waiting" /\ PhaseOf(i)' = "answered"
    BY <1>4 DEF AnswerInline, Goto, Invoke
  <2>2. \A j \in Ids \ {i} : PhaseOf(j)' = PhaseOf(j)
    BY <1>4 DEF AnswerInline, Goto, Invoke
  <2>3. QED
    BY <1>4, <2>1, <2>2, ContractMove DEF AnswerInline
<1>5. ASSUME NEW i \in Ids, Emit(i) PROVE UNCHANGED Contract!cvars
  <2>1. \A j \in Ids : PhaseOf(j)' = PhaseOf(j)
    BY <1>5 DEF Emit, Goto
  <2>2. QED
    BY <1>5, <2>1, ContractStutter DEF Emit
<1>6. ASSUME NEW i \in Ids, CancelPending(i) PROVE Contract!GiveUp(i)
  BY <1>6 DEF CancelPending, Erase, Contract!GiveUp
<1>7. ASSUME NEW i \in Ids, TakeReply(i) PROVE UNCHANGED Contract!cvars
  <2>1. \A j \in Ids : PhaseOf(j)' = PhaseOf(j)
    BY <1>7 DEF TakeReply, Erase, IoBusy
  <2>2. QED
    BY <1>7, <2>1, ContractStutter DEF TakeReply
<1>8. ASSUME NEW i \in Ids, InvokeTaken(i) PROVE Contract!Answer(i)
  <2>1. PhaseOf(i) = "waiting" /\ PhaseOf(i)' = "answered"
    BY <1>8 DEF InvokeTaken, Invoke
  <2>2. \A j \in Ids \ {i} : PhaseOf(j)' = PhaseOf(j)
    BY <1>8 DEF InvokeTaken, Invoke
  <2>3. QED
    BY <1>8, <2>1, <2>2, ContractMove DEF InvokeTaken
<1>9. ASSUME NEW i \in Ids, AnswerSwept(i) PROVE Contract!Answer(i)
  <2>1. PhaseOf(i) = "waiting" /\ PhaseOf(i)' = "answered"
    BY <1>9 DEF AnswerSwept, Invoke
  <2>2. \A j \in Ids \ {i} : PhaseOf(j)' = PhaseOf(j)
    BY <1>9 DEF AnswerSwept, Invoke
  <2>3. QED
    BY <1>9, <2>1, <2>2, ContractMove DEF AnswerSwept
<1>10. CASE SetErrorHandler
  BY <1>10 DEF SetErrorHandler, Contract!cvars
<1>11. ASSUME NEW t \in Threads, FailCas(t) PROVE Contract!Close
  BY <1>11 DEF FailCas, Contract!Close
<1>12. CASE Sweep
  <2>1. \A j \in Ids : PhaseOf(j)' = PhaseOf(j)
    BY <1>12 DEF Sweep, SweptWhileAnswering
  <2>2. QED
    BY <1>12, <2>1, ContractStutter DEF Sweep
<1>13. CASE CloseTransport
  BY <1>13 DEF CloseTransport, FailNext, Contract!cvars
<1>14. CASE NotifyClosed
  BY <1>14 DEF NotifyClosed, FailNext, Contract!cvars
<1>15. CASE FireError
  BY <1>15 DEF FireError, FailNext, Contract!cvars
<1>16. CASE UNCHANGED vars
  BY <1>16 DEF vars, Contract!cvars
<1>17. QED
  BY <1>1, <1>2, <1>3, <1>4, <1>5, <1>6, <1>7, <1>8, <1>9, <1>10, <1>11, <1>12,
     <1>13, <1>14, <1>15, <1>16, Zenon DEF Next, Contract!Next

\* The registry, its mutex and fail() together keep the contract callers rely on:
\* at most one invocation per call, and only a cancel can drop one.
THEOREM ImplementsContractSafety == Spec => Contract!SafeSpec
  BY ContractInit, ContractStep, IInvAlways, PTL DEF Spec, Contract!SafeSpec

-----------------------------------------------------------------------------
(***************************************************************************)
(* QtLogosObject, for any calls: a callback runs once, a timeout is one,   *)
(* and a handle that is given up in quiet leaves no call behind. HandleInv *)
(* adds who holds a callback, whose each nested loop is, and who ended it. *)
(***************************************************************************)

LoopFrames == [s : Sync, at : {"answer", "completion"}, replied : BOOLEAN,
               quit : {"no", "reply", "sink", "deadline", "teardown"}]

Underway == {"posted", "sent", "queued", "waiting"}
CallStages == Underway \cup {"idle", "failing", "over"}

\* The variables of QtLogosObject that the arguments below are about.
HandleTypeOK ==
  /\ freed \in BOOLEAN /\ channel \in {"none", "sink", "bare"} /\ stack \in Seq(LoopFrames)
  /\ stage \in [Calls -> CallStages]
  /\ plan \in [Calls -> {"none", "value", "sentinel", "error"}] /\ values \subseteq Calls
  /\ hops \subseteq Async /\ result \in [Calls -> {"none", "value", "timeout", "error"}]
  /\ fired \in [Async -> Nat]
  /\ hasty \in BOOLEAN /\ misused \in BOOLEAN /\ cut \in BOOLEAN

\* The answer of a call that was made is settled, if not known; one that was not
\* made has no result.
PlannedOnceMade ==
  \A c \in Calls : /\ stage[c] # "idle" => plan[c] # "none"
                   /\ stage[c] = "idle" => result[c] = "none"

\* A callback was invoked when its call has a result, and then once.
FiredWithResult == \A a \in Async : fired[a] = IF result[a] = "none" THEN 0 ELSE 1

\* A callback that a lambda, the waiters or a posted delivery still holds has not
\* been invoked, and the one that a posted delivery holds is out of the waiters.
OneHolder ==
  \A a \in Async : /\ stage[a] \in {"failing", "posted", "waiting"} \/ a \in hops => result[a] = "none"
                   /\ a \in hops => stage[a] = "over"

\* Each nested loop is that of a blocking call that has not returned, and no
\* call has two.
LoopsOfCalls ==
  /\ \A i \in DOMAIN stack : stage[stack[i].s] = "sent" /\ result[stack[i].s] = "none"
  /\ \A i, j \in DOMAIN stack : stack[i].s = stack[j].s => i = j

\* What a loop that was ended tells of who ended it: its answer is here, or its
\* result has landed and nobody else has taken it.
LoopEndsForReason ==
  \A i \in DOMAIN stack :
    /\ stack[i].at = "completion" => stack[i].replied
    /\ stack[i].quit = "reply" => stack[i].replied /\ stack[i].at = "answer"
    /\ stack[i].quit \in {"sink", "teardown"} => stack[i].at = "completion"
    /\ stack[i].quit = "sink" => stack[i].s \in values

\* A handle that is gone hears no event, and has no call outstanding unless it
\* was cut.
FreedIsQuiet == freed => channel = "none" /\ (cut \/ Outstanding = {})

HandleInv ==
  /\ HandleTypeOK /\ PlannedOnceMade /\ FiredWithResult /\ OneHolder /\ LoopsOfCalls /\ LoopEndsForReason
  /\ FreedIsQuiet /\ TimeoutIsReal /\ QuietReleaseIsSafe

-----------------------------------------------------------------------------
LEMMA HandleInvInit == HandleInit => HandleInv
<1> SUFFICES ASSUME HandleInit PROVE HandleInv
  OBVIOUS
<1> USE DEF HandleInit
<1>1. HandleTypeOK
  <2>1. stack \in Seq(LoopFrames)
    BY EmptySeq
  <2> QED  BY <2>1 DEF HandleTypeOK, CallStages
<1>2. PlannedOnceMade /\ FiredWithResult /\ OneHolder /\ FreedIsQuiet /\ TimeoutIsReal /\ QuietReleaseIsSafe
  BY DEF PlannedOnceMade, FiredWithResult, OneHolder, FreedIsQuiet, TimeoutIsReal, QuietReleaseIsSafe, Calls
<1>3. LoopsOfCalls /\ LoopEndsForReason
  BY EmptySeq DEF LoopsOfCalls, LoopEndsForReason
<1> QED  BY <1>1, <1>2, <1>3 DEF HandleInv

\* A sequence changed in place is one.
LEMMA SameLength ==
  ASSUME NEW S, NEW q \in Seq(S), NEW g, g = [i \in DOMAIN q |-> g[i]], \A i \in DOMAIN q : g[i] \in S
  PROVE  g \in Seq(S) /\ DOMAIN g = DOMAIN q
<1>1. DOMAIN q = 1..Len(q) /\ Len(q) \in Nat
  BY LenProperties
<1>2. PICK n \in Nat : n = Len(q)
  BY <1>1
<1>3. g \in [1..n -> S]
  BY <1>1, <1>2
<1> QED  BY <1>1, <1>2, <1>3

\* A frame of the stack, and the call it is for.
LEMMA FrameTyped ==
  ASSUME HandleInv, NEW i \in DOMAIN stack
  PROVE  /\ stack[i] \in LoopFrames /\ stack[i].s \in Sync /\ stack[i].s \in Calls
         /\ stack[i].s \notin Async
<1>1. stack[i] \in LoopFrames
  BY ElementOfSeq, LenProperties DEF HandleInv, HandleTypeOK
<1> QED  BY <1>1, CallsAssumption DEF LoopFrames, Calls

\* A step of one asynchronous call that has been made: its callback is invoked or
\* not, and what has landed for blocking calls stays.
LEMMA AsyncMoves ==
  ASSUME HandleInv, NEW a \in Async, NEW v \in CallStages \ {"idle"}, stage[a] # "idle",
         stage' = [stage EXCEPT ![a] = v], v \in Underway => stage[a] \in Underway,
         \/ UNCHANGED <<result, fired>>
         \/ result[a] = "none" /\ \E r \in {"value", "timeout", "error"} : RunCallback(a, r),
         hops' \subseteq hops \cup {a}, a \in hops' => v = "over",
         v \in {"failing", "posted", "waiting"} \/ a \in hops' => result'[a] = "none",
         values' \subseteq Calls, \A s \in Sync : s \in values => s \in values',
         misused' = misused \/ (misused' = TRUE /\ freed /\ stage[a] \in Underway),
         UNCHANGED <<stack, plan, freed, channel, hasty, cut>>
  PROVE  HandleInv'
<1> USE DEF HandleInv
<1>a. a \in Calls
  BY DEF Calls
<1>f. \A i \in DOMAIN stack : stack[i].s \in Sync /\ stack[i].s \in Calls /\ stack[i].s # a
  BY FrameTyped
<1>1. /\ result' \in [Calls -> {"none", "value", "timeout", "error"}] /\ fired' \in [Async -> Nat]
      /\ FiredWithResult'
      /\ \A c \in Calls : c # a => result'[c] = result[c]
  <2>1. CASE UNCHANGED <<result, fired>>
    BY <2>1 DEF HandleTypeOK, FiredWithResult
  <2>2. ASSUME NEW r \in {"value", "timeout", "error"}, result[a] = "none", RunCallback(a, r)
        PROVE  /\ result' \in [Calls -> {"none", "value", "timeout", "error"}] /\ fired' \in [Async -> Nat]
               /\ FiredWithResult'
               /\ \A c \in Calls : c # a => result'[c] = result[c]
    <3>0. fired[a] = 0 /\ fired[a] + 1 = 1
      BY <2>2 DEF FiredWithResult
    <3>1. result' = [result EXCEPT ![a] = r] /\ fired' = [fired EXCEPT ![a] = 1]
      BY <2>2, <3>0 DEF RunCallback
    <3> QED  BY <1>a, <2>2, <3>1 DEF HandleTypeOK, FiredWithResult, Calls
  <2> QED  BY <2>1, <2>2
<1>2. HandleTypeOK'
  BY <1>1, <1>a DEF HandleTypeOK
<1>3. PlannedOnceMade'
  BY <1>1, <1>a DEF PlannedOnceMade, HandleTypeOK
<1>h. OneHolder'
  BY <1>1, <1>a DEF OneHolder, HandleTypeOK, Calls
<1>4. LoopsOfCalls'
  BY <1>1, <1>f DEF LoopsOfCalls, HandleTypeOK
<1>5. LoopEndsForReason'
  BY <1>f DEF LoopEndsForReason
<1>6. FreedIsQuiet'
  BY <1>a DEF FreedIsQuiet, Outstanding, HandleTypeOK, Underway
<1>7. TimeoutIsReal' /\ QuietReleaseIsSafe'
  BY <1>a DEF TimeoutIsReal, QuietReleaseIsSafe, FreedIsQuiet, Outstanding, Underway
<1> QED  BY <1>1, <1>2, <1>3, <1>h, <1>4, <1>5, <1>6, <1>7

\* The first answer of a call whose slot or lambda runs.
LEMMA SettleKeeps ==
  ASSUME HandleInv, NEW a \in Async, NEW h, stage[a] \in {"posted", "queued"}, result[a] = "none", Settle(a, h),
         UNCHANGED <<hops, stack, plan, freed, channel, hasty, cut>>
  PROVE  HandleInv'
<1>1. a \in Calls /\ plan[a] \in {"value", "sentinel", "error"} /\ a \notin Sync /\ values \subseteq Calls
  <2>1. a \in Calls /\ a \notin Sync
    BY CallsAssumption DEF Calls
  <2>2. plan \in [Calls -> {"none", "value", "sentinel", "error"}] /\ values \subseteq Calls
    BY DEF HandleInv, HandleTypeOK
  <2>3. plan[a] # "none"
    BY <2>1 DEF HandleInv, PlannedOnceMade
  <2> QED  BY <2>1, <2>2, <2>3
<1>2. "over" \in CallStages /\ "waiting" \in CallStages /\ "waiting" \in Underway /\ "over" \notin Underway
      /\ stage[a] \in Underway
  BY DEF CallStages, Underway
<1>h. a \notin hops
  BY DEF HandleInv, OneHolder
<1>3. CASE plan[a] # "sentinel"
  BY <1>1, <1>2, <1>h, <1>3, AsyncMoves DEF Settle, Deliver
<1>4. CASE plan[a] = "sentinel" /\ freed
  BY <1>1, <1>2, <1>h, <1>4, AsyncMoves DEF Settle
<1>5. CASE plan[a] = "sentinel" /\ ~freed /\ a \in values
  BY <1>1, <1>2, <1>h, <1>5, AsyncMoves DEF Settle, Deliver
<1>6. CASE plan[a] = "sentinel" /\ ~freed /\ a \notin values
  BY <1>1, <1>2, <1>h, <1>6, AsyncMoves DEF Settle
<1> QED  BY <1>3, <1>4, <1>5, <1>6

LEMMA AsyncKeeps ==
  ASSUME HandleInv, NEW a \in Async,
         \/ ReportFailure(a) \/ Reply(a) \/ Finished(a) \/ WatchTimeout(a) \/ RunPosted(a)
         \/ DeferredDeadline(a) \/ HandOver(a)
  PROVE  HandleInv'
<1>1. a \in Calls /\ stage \in [Calls -> CallStages] /\ values \subseteq Calls
  BY DEF Calls, HandleInv, HandleTypeOK
<1>2. /\ {"over", "queued"} \subseteq CallStages /\ "over" \notin Underway
      /\ {"sent", "queued", "posted", "waiting"} \subseteq Underway
  BY DEF CallStages, Underway
<1> USE DEF object, provider
<1>h. /\ stage[a] \in {"failing", "posted", "waiting"} \/ a \in hops => result[a] = "none"
      /\ a \in hops => stage[a] = "over"
  BY DEF HandleInv, OneHolder
<1>3. CASE ReportFailure(a)
  BY <1>1, <1>2, <1>h, <1>3, AsyncMoves DEF ReportFailure
<1>4. CASE Reply(a)
  BY <1>1, <1>2, <1>h, <1>4, AsyncMoves DEF Reply, history
<1>5. CASE Finished(a)
  <2>1. CASE result[a] # "none"
    BY <1>1, <1>2, <1>h, <1>5, <2>1, AsyncMoves DEF Finished
  <2>2. CASE result[a] = "none"
    BY <1>5, <2>2, SettleKeeps DEF Finished
  <2> QED  BY <2>1, <2>2
<1>6. CASE WatchTimeout(a)
  <2>1. PICK v : v = IF stage[a] = "queued" THEN "queued" ELSE "over"
    OBVIOUS
  <2>2. stage' = [stage EXCEPT ![a] = v] /\ v \in CallStages \ {"idle"} /\ stage[a] \in {"sent", "queued"}
    BY <1>2, <1>6, <2>1 DEF WatchTimeout
  <2> QED  BY <1>1, <1>2, <1>h, <1>6, <2>1, <2>2, AsyncMoves DEF WatchTimeout, Deliver
<1>7. CASE RunPosted(a)
  <2>1. CASE source
    BY <1>h, <1>7, <2>1, SettleKeeps DEF RunPosted
  <2>2. CASE ~source
    BY <1>1, <1>2, <1>h, <1>7, <2>2, AsyncMoves DEF RunPosted, Deliver
  <2> QED  BY <2>1, <2>2
<1>8. CASE DeferredDeadline(a)
  BY <1>1, <1>2, <1>h, <1>8, AsyncMoves DEF DeferredDeadline, Deliver
<1>9. CASE HandOver(a)
  <2>1. stage[a] = "over" /\ stage' = [stage EXCEPT ![a] = "over"]
    BY <1>1, <1>h, <1>9 DEF HandOver
  <2>2. hops' = hops \ {a} /\ result[a] = "none" /\ RunCallback(a, "value")
    BY <1>h, <1>9 DEF HandOver, Deliver
  <2> QED  BY <1>1, <1>2, <1>9, <2>1, <2>2, AsyncMoves DEF HandOver
<1> QED  BY <1>3, <1>4, <1>5, <1>6, <1>7, <1>8, <1>9

\* A step that leaves alone what the invariant is about; an event channel may be
\* built on a handle that is there.
LEMMA HandleUnaffected ==
  ASSUME HandleInv, channel' \in {"none", "sink", "bare"}, channel' = channel \/ ~freed,
         UNCHANGED <<freed, stack, stage, hops, plan, values, result, fired, hasty, misused, cut>>
  PROVE  HandleInv'
BY DEF HandleInv, HandleTypeOK, PlannedOnceMade, FiredWithResult, OneHolder, LoopsOfCalls, LoopEndsForReason,
       FreedIsQuiet, Outstanding, TimeoutIsReal, QuietReleaseIsSafe

\* A call is made asynchronously.
LEMMA CallAsyncKeeps == ASSUME HandleInv, NEW a \in Async, CallMethodAsync(a) PROVE HandleInv'
<1> USE DEF HandleInv
<1>1. PICK p \in {"value", "sentinel", "error"}, v \in {"failing", "sent", "posted"} :
        plan' = [plan EXCEPT ![a] = p] /\ stage' = [stage EXCEPT ![a] = v]
  BY DEF CallMethodAsync, Plans
<1>2. /\ ~freed /\ stage[a] = "idle" /\ a \in Calls /\ channel' \in {channel, "sink"}
      /\ UNCHANGED <<freed, stack, hops, values, result, fired, hasty, misused, cut>>
  BY DEF CallMethodAsync, EnsureChannel, Calls, history
<1>f. \A i \in DOMAIN stack : stack[i].s \in Calls /\ stack[i].s # a
  BY FrameTyped
<1>3. HandleTypeOK'
  <2>1. v \in CallStages
    BY DEF CallStages, Underway
  <2> QED  BY <1>1, <1>2, <2>1 DEF HandleTypeOK
<1>4. PlannedOnceMade' /\ FiredWithResult' /\ OneHolder'
  BY <1>1, <1>2 DEF PlannedOnceMade, FiredWithResult, OneHolder, HandleTypeOK, Calls
<1>5. LoopsOfCalls' /\ LoopEndsForReason'
  BY <1>1, <1>2, <1>f DEF LoopsOfCalls, LoopEndsForReason, HandleTypeOK
<1>6. FreedIsQuiet' /\ TimeoutIsReal' /\ QuietReleaseIsSafe'
  BY <1>2 DEF FreedIsQuiet, TimeoutIsReal, QuietReleaseIsSafe
<1> QED  BY <1>3, <1>4, <1>5, <1>6

\* The frames change in place, and each still waits for what ended it.
LEMMA FramesMove ==
  ASSUME HandleInv, stack' = [i \in DOMAIN stack |-> stack'[i]],
         \A i \in DOMAIN stack :
           /\ stack'[i] \in LoopFrames /\ stack'[i].s = stack[i].s
           /\ stack'[i].at = "completion" => stack'[i].replied
           /\ stack'[i].quit = "reply" => stack'[i].replied /\ stack'[i].at = "answer"
           /\ stack'[i].quit \in {"sink", "teardown"} => stack'[i].at = "completion"
           /\ stack'[i].quit = "sink" => stack[i].s \in values',
         values' \subseteq Calls, UNCHANGED <<stage, hops, plan, freed, channel, result, fired, hasty, misused, cut>>
  PROVE  HandleInv'
<1> USE DEF HandleInv
<1>1. stack' \in Seq(LoopFrames) /\ DOMAIN stack' = DOMAIN stack
  <2>1. PICK g : g = stack'
    OBVIOUS
  <2>2. g = [i \in DOMAIN stack |-> g[i]] /\ \A i \in DOMAIN stack : g[i] \in LoopFrames
    BY <2>1
  <2> QED  BY <2>1, <2>2, SameLength DEF HandleTypeOK
<1>2. HandleTypeOK' /\ PlannedOnceMade' /\ FiredWithResult' /\ OneHolder' /\ FreedIsQuiet'
      /\ TimeoutIsReal' /\ QuietReleaseIsSafe'
  BY <1>1 DEF HandleTypeOK, PlannedOnceMade, FiredWithResult, OneHolder, FreedIsQuiet, Outstanding, TimeoutIsReal,
              QuietReleaseIsSafe
<1>3. LoopsOfCalls'
  BY <1>1 DEF LoopsOfCalls
<1>4. LoopEndsForReason'
  BY <1>1 DEF LoopEndsForReason
<1> QED  BY <1>2, <1>3, <1>4

\* Who ends a loop is noted once.
LEMMA QuitTyped ==
  ASSUME NEW f \in LoopFrames, NEW who \in {"reply", "sink", "deadline", "teardown"}
  PROVE  /\ Quit(f, who) \in LoopFrames /\ Quit(f, who).s = f.s /\ Quit(f, who).at = f.at
         /\ Quit(f, who).replied = f.replied
         /\ Quit(f, who).quit = IF f.quit = "no" THEN who ELSE f.quit
BY DEF Quit, LoopFrames

LEMMA DisconnectKeeps ==
  ASSUME HandleInv, Disconnect, ~freed, freed' \in BOOLEAN, cut' \in BOOLEAN,
         cut => cut', freed' => cut' \/ Outstanding = {},
         UNCHANGED <<hops, values, plan, result, fired, hasty, misused>>
  PROVE  HandleInv'
<1> USE DEF HandleInv
<1>f. \A i \in DOMAIN stack : /\ stack[i] \in LoopFrames /\ stack[i].s \in Sync /\ stack[i].s \in Calls
                             /\ stack[i].s \notin Async
  BY FrameTyped
<1>1. /\ stage' \in [Calls -> CallStages]
      /\ \A c \in Calls : stage'[c] = stage[c] \/ (c \in Async /\ stage[c] = "waiting" /\ stage'[c] = "over")
  BY DEF Disconnect, HandleTypeOK, CallStages
<1>2. /\ stack' = [i \in DOMAIN stack |-> stack'[i]]
      /\ \A i \in DOMAIN stack :
           \/ stack'[i] = stack[i]
           \/ stack[i].at = "completion" /\ stack'[i] = Quit(stack[i], "teardown")
  <2>1. CASE stack' = stack
    BY <2>1, LenProperties DEF HandleTypeOK
  <2>2. CASE stack' # stack
    BY <2>2 DEF Disconnect
  <2> QED  BY <2>1, <2>2
<1>3. \A i \in DOMAIN stack :
        /\ stack'[i] \in LoopFrames /\ stack'[i].s = stack[i].s
        /\ stack'[i].at = "completion" => stack'[i].replied
        /\ stack'[i].quit = "reply" => stack'[i].replied /\ stack'[i].at = "answer"
        /\ stack'[i].quit \in {"sink", "teardown"} => stack'[i].at = "completion"
        /\ stack'[i].quit = "sink" => stack[i].s \in values
  BY <1>2, <1>f, QuitTyped DEF LoopEndsForReason
<1>4. stack' \in Seq(LoopFrames) /\ DOMAIN stack' = DOMAIN stack
  <2>1. PICK g : g = stack'
    OBVIOUS
  <2>2. g = [i \in DOMAIN stack |-> g[i]] /\ \A i \in DOMAIN stack : g[i] \in LoopFrames
    BY <1>2, <1>3, <2>1
  <2>3. stack \in Seq(LoopFrames)
    BY DEF HandleTypeOK
  <2>4. g \in Seq(LoopFrames) /\ DOMAIN g = DOMAIN stack
    BY <2>2, <2>3, SameLength
  <2> QED  BY <2>1, <2>4
<1>5. HandleTypeOK'
  BY <1>1, <1>4 DEF HandleTypeOK, Disconnect
<1>6. PlannedOnceMade' /\ FiredWithResult' /\ OneHolder'
  BY <1>1 DEF PlannedOnceMade, FiredWithResult, OneHolder, Calls
<1>7. LoopsOfCalls'
  BY <1>1, <1>3, <1>4, <1>f DEF LoopsOfCalls
<1>8. LoopEndsForReason'
  BY <1>3, <1>4 DEF LoopEndsForReason
<1>9. FreedIsQuiet'
  <2>1. Outstanding = {} => Outstanding' = {}
    BY <1>1 DEF Outstanding
  <2> QED  BY <2>1 DEF FreedIsQuiet, Disconnect
<1>10. TimeoutIsReal' /\ QuietReleaseIsSafe'
  BY DEF TimeoutIsReal, QuietReleaseIsSafe
<1> QED  BY <1>5, <1>6, <1>7, <1>8, <1>9, <1>10

\* disconnectEvents and release.
LEMMA TeardownKeeps == ASSUME HandleInv, DisconnectEvents \/ Release PROVE HandleInv'
<1>1. freed \in BOOLEAN /\ cut \in BOOLEAN /\ Remote \in BOOLEAN
  BY DEF HandleInv, HandleTypeOK, Remote
<1>2. CASE DisconnectEvents
  BY <1>1, <1>2, DisconnectKeeps DEF DisconnectEvents, provider
<1>3. CASE Release
  <2>1. cut' \in BOOLEAN /\ (cut => cut') /\ (freed' => cut' \/ Outstanding = {}) /\ freed' \in BOOLEAN
    BY <1>1, <1>3 DEF Release
  <2> QED  BY <1>3, <2>1, DisconnectKeeps DEF Release, provider
<1> QED  BY <1>2, <1>3

\* A completion event.
LEMMA CompleteKeeps == ASSUME HandleInv, NEW c \in Calls, Complete(c) PROVE HandleInv'
<1>1. CASE channel # "sink"
  BY <1>1, HandleUnaffected DEF Complete, object, HandleInv, HandleTypeOK
<1>2. CASE channel = "sink"
  <2>0. /\ ~freed /\ Sink(c) /\ values \subseteq Calls /\ stage[c] # "idle"
        /\ UNCHANGED <<freed, channel, plan, result, fired, hasty, cut>>
    <3>1. ~freed /\ values \subseteq Calls
      BY <1>2 DEF HandleInv, FreedIsQuiet, HandleTypeOK
    <3>2. Sink(c) /\ stage[c] # "idle"
      BY <1>2 DEF Complete
    <3>3. UNCHANGED <<freed, channel, plan, result, fired, hasty, cut>>
      BY DEF Complete, object
    <3> QED  BY <3>1, <3>2, <3>3
  <2>1. CASE c \in Async /\ stage[c] = "waiting"
    <3>1. "over" \in CallStages \ {"idle"} /\ "over" \notin Underway
      BY DEF CallStages, Underway
    <3>2. result[c] = "none"
      BY <2>1 DEF HandleInv, OneHolder
    <3> QED  BY <2>0, <2>1, <3>1, <3>2, AsyncMoves DEF Sink
  <2>2. CASE ~(c \in Async /\ stage[c] = "waiting")
    <3>1. values' = values \cup {c} /\ stack' = Woken(c) /\ UNCHANGED <<stage, hops, misused>>
      BY <2>0, <2>2 DEF Sink
    <3>2. /\ stack' = [i \in DOMAIN stack |-> stack'[i]]
          /\ \A i \in DOMAIN stack :
               \/ stack'[i] = stack[i]
               \/ stack[i].s = c /\ stack[i].at = "completion" /\ stack'[i] = Quit(stack[i], "sink")
      BY <3>1 DEF Woken
    <3>3. \A i \in DOMAIN stack :
            /\ stack'[i] \in LoopFrames /\ stack'[i].s = stack[i].s
            /\ stack'[i].at = "completion" => stack'[i].replied
            /\ stack'[i].quit = "reply" => stack'[i].replied /\ stack'[i].at = "answer"
            /\ stack'[i].quit \in {"sink", "teardown"} => stack'[i].at = "completion"
            /\ stack'[i].quit = "sink" => stack[i].s \in values'
      BY <3>1, <3>2, FrameTyped, QuitTyped DEF HandleInv, LoopEndsForReason
    <3> QED  BY <2>0, <3>1, <3>2, <3>3, FramesMove
  <2> QED  BY <2>1, <2>2
<1> QED  BY <1>1, <1>2

\* The answer of a blocking call, or its deadline.
LEMMA LoopEndKeeps == ASSUME HandleInv, NEW k \in DOMAIN stack, ReplySync(k) \/ Deadline(k) PROVE HandleInv'
<1>f. stack[k] \in LoopFrames
  BY FrameTyped
<1>1. PICK g \in LoopFrames : /\ stack' = [stack EXCEPT ![k] = g]
                              /\ g.s = stack[k].s /\ g.at = stack[k].at
                              /\ \/ g.replied /\ ~stack[k].replied
                                    /\ g.quit = IF stack[k].quit = "no" THEN "reply" ELSE stack[k].quit
                                 \/ g.replied = stack[k].replied
                                    /\ g.quit = IF stack[k].quit = "no" THEN "deadline" ELSE stack[k].quit
  <2>1. CASE ReplySync(k)
    <3>1. PICK q \in LoopFrames : /\ q = Quit(stack[k], "reply") /\ q.s = stack[k].s /\ q.at = stack[k].at
                                  /\ q.quit = IF stack[k].quit = "no" THEN "reply" ELSE stack[k].quit
      BY <1>f, QuitTyped
    <3>2. PICK g \in LoopFrames : /\ g = [q EXCEPT !.replied = TRUE] /\ g.s = q.s /\ g.at = q.at
                                  /\ g.quit = q.quit /\ g.replied
      <4>1. [q EXCEPT !.replied = TRUE] \in LoopFrames
        BY DEF LoopFrames
      <4>2. PICK g : g = [q EXCEPT !.replied = TRUE]
        OBVIOUS
      <4>3. g.s = q.s /\ g.at = q.at /\ g.quit = q.quit /\ g.replied
        BY <4>2 DEF LoopFrames
      <4> QED  BY <4>1, <4>2, <4>3
    <3> QED  BY <2>1, <3>1, <3>2 DEF ReplySync
  <2>2. CASE Deadline(k)
    <3>1. PICK g \in LoopFrames : /\ g = Quit(stack[k], "deadline") /\ g.s = stack[k].s /\ g.at = stack[k].at
                                  /\ g.replied = stack[k].replied
                                  /\ g.quit = IF stack[k].quit = "no" THEN "deadline" ELSE stack[k].quit
      BY <1>f, QuitTyped
    <3> QED  BY <2>2, <3>1 DEF Deadline
  <2> QED  BY <2>1, <2>2
<1>2. /\ values \subseteq Calls
      /\ UNCHANGED <<stage, hops, plan, values, freed, channel, result, fired, hasty, misused, cut>>
  BY DEF ReplySync, Deadline, object, provider, history, HandleInv, HandleTypeOK
<1>3. stack' = [i \in DOMAIN stack |-> stack'[i]] /\ \A i \in DOMAIN stack : stack'[i] = IF i = k THEN g ELSE stack[i]
  BY <1>1, LenProperties DEF HandleInv, HandleTypeOK
<1>4. \A i \in DOMAIN stack :
        /\ stack'[i] \in LoopFrames /\ stack'[i].s = stack[i].s
        /\ stack'[i].at = "completion" => stack'[i].replied
        /\ stack'[i].quit = "reply" => stack'[i].replied /\ stack'[i].at = "answer"
        /\ stack'[i].quit \in {"sink", "teardown"} => stack'[i].at = "completion"
        /\ stack'[i].quit = "sink" => stack[i].s \in values
  <2>1. g.at \in {"answer", "completion"}
    BY DEF LoopFrames
  <2> QED  BY <1>1, <1>3, <2>1, FrameTyped DEF HandleInv, LoopEndsForReason
<1> QED  BY <1>2, <1>3, <1>4, FramesMove

\* A blocking call is made: it waits in a loop of its own, or has its result.
LEMMA CallKeeps == ASSUME HandleInv, NEW c \in Sync, CallMethod(c) PROVE HandleInv'
<1> USE DEF HandleInv
<1>1. PICK p \in {"value", "sentinel", "error"} :
        /\ plan' = [plan EXCEPT ![c] = p]
        /\ \/ /\ stack' = Append(stack, Frame(c, IF Remote THEN "answer" ELSE "completion"))
              /\ stage' = [stage EXCEPT ![c] = "sent"] /\ result' = result
           \/ /\ result' = [result EXCEPT ![c] = p] /\ p # "sentinel"
              /\ stage' = [stage EXCEPT ![c] = "over"] /\ stack' = stack
  BY DEF CallMethod, Plans
<1>2. /\ ~freed /\ stage[c] = "idle" /\ c \in Calls /\ c \notin Async /\ channel' \in {channel, "sink"}
      /\ UNCHANGED <<freed, hops, values, fired, hasty, misused, cut>>
  BY CallsAssumption DEF CallMethod, EnsureChannel, Calls
<1>f. \A i \in DOMAIN stack : stack[i].s \in Calls /\ stack[i].s # c
  BY <1>2, FrameTyped DEF LoopsOfCalls
<1>q. stack \in Seq(LoopFrames) /\ DOMAIN stack = 1..Len(stack) /\ Len(stack) \in Nat
  BY LenProperties DEF HandleTypeOK
<1>3. FreedIsQuiet' /\ TimeoutIsReal' /\ QuietReleaseIsSafe'
  BY <1>2 DEF FreedIsQuiet, TimeoutIsReal, QuietReleaseIsSafe
<1>4. CASE /\ stack' = Append(stack, Frame(c, IF Remote THEN "answer" ELSE "completion"))
           /\ stage' = [stage EXCEPT ![c] = "sent"] /\ result' = result
  <2>1. PICK g \in LoopFrames : /\ g = Frame(c, IF Remote THEN "answer" ELSE "completion")
                                /\ g.s = c /\ g.quit = "no" /\ (g.at = "completion" => g.replied)
    <3>1. PICK at \in {"answer", "completion"} : at = IF Remote THEN "answer" ELSE "completion"
      OBVIOUS
    <3>2. /\ Frame(c, at) \in LoopFrames /\ Frame(c, at).s = c /\ Frame(c, at).quit = "no"
          /\ Frame(c, at).at = at /\ (at = "completion" => Frame(c, at).replied)
      BY DEF Frame, LoopFrames
    <3> QED  BY <3>1, <3>2
  <2>2. PICK n \in Nat : n = Len(stack)
    BY <1>q
  <2>3. /\ stack' \in Seq(LoopFrames) /\ Len(stack') = n + 1
        /\ \A i \in 1..n : stack'[i] = stack[i]
        /\ stack'[n + 1] = g
    BY <1>q, <1>4, <2>1, <2>2, AppendProperties
  <2>4. DOMAIN stack' = 1..(n + 1) /\ DOMAIN stack = 1..n
    BY <1>q, <2>2, <2>3, LenProperties
  <2>5. \A i \in 1..(n + 1) : i = n + 1 \/ i \in 1..n
    OBVIOUS
  <2>6. HandleTypeOK'
    <3>1. "sent" \in CallStages
      BY DEF CallStages, Underway
    <3> QED  BY <1>1, <1>2, <1>4, <2>3, <3>1 DEF HandleTypeOK
  <2>7. PlannedOnceMade' /\ FiredWithResult' /\ OneHolder'
    BY <1>1, <1>2, <1>4 DEF PlannedOnceMade, FiredWithResult, OneHolder, HandleTypeOK, Calls
  <2>8. result[c] = "none"
    BY <1>2 DEF PlannedOnceMade
  <2>9. LoopsOfCalls'
    BY <1>2, <1>4, <1>f, <2>1, <2>3, <2>4, <2>5, <2>8 DEF LoopsOfCalls, HandleTypeOK
  <2>10. LoopEndsForReason'
    BY <1>2, <2>1, <2>3, <2>4, <2>5 DEF LoopEndsForReason
  <2> QED  BY <1>3, <2>6, <2>7, <2>9, <2>10
<1>5. CASE /\ result' = [result EXCEPT ![c] = p] /\ p # "sentinel"
           /\ stage' = [stage EXCEPT ![c] = "over"] /\ stack' = stack
  <2>1. HandleTypeOK'
    <3>1. "over" \in CallStages
      BY DEF CallStages
    <3> QED  BY <1>1, <1>2, <1>5, <3>1 DEF HandleTypeOK
  <2>2. PlannedOnceMade' /\ FiredWithResult' /\ OneHolder'
    BY <1>1, <1>2, <1>5 DEF PlannedOnceMade, FiredWithResult, OneHolder, HandleTypeOK, Calls
  <2>3. LoopsOfCalls' /\ LoopEndsForReason'
    BY <1>2, <1>5, <1>f DEF LoopsOfCalls, LoopEndsForReason, HandleTypeOK
  <2> QED  BY <1>3, <2>1, <2>2, <2>3
<1> QED  BY <1>1, <1>4, <1>5

\* The innermost loop returns: the frame goes, the others keep what they have.
LEMMA ReturnKeeps ==
  ASSUME HandleInv, stack # <<>>, NEW r \in {"none", "value", "timeout", "error"},
         Return(stack[Len(stack)].s, r), values' \in {values, values \ {stack[Len(stack)].s}},
         hasty' = FALSE, misused' = misused \/ (misused' = TRUE /\ freed),
         UNCHANGED <<hops, plan, freed, channel, fired, cut>>
  PROVE  HandleInv'
<1> USE DEF HandleInv
<1>q. stack \in Seq(LoopFrames) /\ DOMAIN stack = 1..Len(stack) /\ Len(stack) \in Nat
  BY LenProperties DEF HandleTypeOK
<1>1. PICK n \in Nat : n = Len(stack)
  BY <1>q
<1>2. n \in DOMAIN stack /\ n > 0 /\ DOMAIN stack = 1..n
  <2>1. Len(stack) \in Nat \ {0}
    BY <1>q, EmptySeq
  <2> QED  BY <1>q, <1>1, <2>1
<1>3. PICK c \in Sync : c = stack[n].s
  BY <1>2, FrameTyped
<1>4. c \in Calls /\ c \notin Async /\ stage[c] = "sent"
  BY <1>2, <1>3, FrameTyped DEF LoopsOfCalls
<1>5. /\ stack' = SubSeq(stack, 1, n - 1) /\ stage' = [stage EXCEPT ![c] = "over"]
      /\ result' = [result EXCEPT ![c] = r] /\ values' \in {values, values \ {c}}
  BY <1>1, <1>3 DEF Return
<1>6. /\ stack' \in Seq(LoopFrames) /\ DOMAIN stack' = 1..(n - 1)
      /\ \A i \in 1..(n - 1) : stack'[i] = stack[i]
  <2>1. \A i \in 1..(n - 1) : stack[i] \in LoopFrames
    BY <1>2, FrameTyped
  <2>2. /\ stack' \in Seq(LoopFrames) /\ Len(stack') = n - 1
        /\ \A i \in 1..(n - 1) : stack'[i] = stack[i]
    BY <1>2, <1>5, <2>1, SubSeqProperties
  <2> QED  BY <2>2, LenProperties
<1>7. \A i \in 1..(n - 1) : i \in DOMAIN stack /\ stack[i].s \in Calls /\ stack[i].s # c
  <2>1. \A i \in 1..(n - 1) : i \in DOMAIN stack /\ i # n
    BY <1>2
  <2> QED  BY <1>2, <1>3, <2>1, FrameTyped DEF LoopsOfCalls
<1>8. HandleTypeOK'
  <2>1. "over" \in CallStages
    BY DEF CallStages
  <2> QED  BY <1>4, <1>5, <1>6, <2>1 DEF HandleTypeOK
<1>9. PlannedOnceMade' /\ FiredWithResult' /\ OneHolder'
  BY <1>4, <1>5 DEF PlannedOnceMade, FiredWithResult, OneHolder, HandleTypeOK, Calls
<1>10. LoopsOfCalls'
  <2>1. \A d \in Calls : d # c => stage'[d] = stage[d] /\ result'[d] = result[d]
    BY <1>4, <1>5 DEF HandleTypeOK
  <2>2. \A i \in 1..(n - 1) : stage'[stack'[i].s] = "sent" /\ result'[stack'[i].s] = "none"
    BY <1>6, <1>7, <2>1 DEF LoopsOfCalls
  <2>3. \A i, j \in 1..(n - 1) : stack'[i].s = stack'[j].s => i = j
    BY <1>6, <1>7 DEF LoopsOfCalls
  <2> QED  BY <1>6, <2>2, <2>3 DEF LoopsOfCalls
<1>11. LoopEndsForReason'
  BY <1>5, <1>6, <1>7 DEF LoopEndsForReason
<1>12. FreedIsQuiet'
  BY <1>4, <1>5 DEF FreedIsQuiet, Outstanding, HandleTypeOK
<1>13. TimeoutIsReal' /\ QuietReleaseIsSafe'
  BY <1>4 DEF TimeoutIsReal, QuietReleaseIsSafe, FreedIsQuiet, Outstanding
<1> QED  BY <1>8, <1>9, <1>10, <1>11, <1>12, <1>13

LEMMA ResumeKeeps == ASSUME HandleInv, Resume PROVE HandleInv'
<1>q. stack \in Seq(LoopFrames) /\ DOMAIN stack = 1..Len(stack) /\ Len(stack) \in Nat /\ stack # <<>>
  BY LenProperties DEF HandleInv, HandleTypeOK, Resume
<1>1. PICK n \in Nat : n = Len(stack)
  BY <1>q
<1>2. n \in DOMAIN stack
  <2>1. Len(stack) \in Nat \ {0}
    BY <1>q, EmptySeq
  <2> QED  BY <1>q, <1>1, <2>1
<1>3. PICK f \in LoopFrames : f = stack[n]
  BY <1>2, FrameTyped
<1>4. /\ f.s \in Sync /\ f.s \in Calls /\ stage[f.s] = "sent" /\ result[f.s] = "none" /\ f.quit # "no"
      /\ plan[f.s] \in {"value", "sentinel", "error"}
      /\ f.at \in {"answer", "completion"} /\ f.quit \in {"no", "reply", "sink", "deadline", "teardown"}
      /\ f.replied \in BOOLEAN
  <2>1. f.s \in Sync /\ f.s \in Calls
    BY <1>2, <1>3, FrameTyped
  <2>2. stage[f.s] = "sent" /\ result[f.s] = "none" /\ f.quit # "no"
    BY <1>1, <1>2, <1>3 DEF HandleInv, LoopsOfCalls, Resume
  <2>3. plan[f.s] \in {"value", "sentinel", "error"}
    <3>1. plan \in [Calls -> {"none", "value", "sentinel", "error"}]
      BY DEF HandleInv, HandleTypeOK
    <3>2. plan[f.s] # "none"
      BY <2>1, <2>2 DEF HandleInv, PlannedOnceMade
    <3> QED  BY <2>1, <3>1, <3>2
  <2> QED  BY <2>1, <2>2, <2>3 DEF LoopFrames
<1>5. /\ f.at = "completion" => f.replied
      /\ f.quit = "reply" => f.replied /\ f.at = "answer"
      /\ f.quit \in {"sink", "teardown"} => f.at = "completion"
      /\ f.quit = "sink" => f.s \in values
  BY <1>2, <1>3 DEF HandleInv, LoopEndsForReason
<1>6. /\ ~hasty /\ UNCHANGED <<hops, plan, freed, channel, fired, cut>> /\ result \in [Calls -> {"none", "value", "timeout", "error"}]
      /\ hasty' = (hasty \/ (result'[f.s] = "timeout" /\ f.quit \notin {"deadline", "teardown"}))
  BY <1>1, <1>3 DEF Resume, HandleInv, TimeoutIsReal, HandleTypeOK, object, provider
<1>7. ASSUME NEW r \in {"none", "value", "timeout", "error"}, Return(f.s, r),
             r = "timeout" => f.quit \in {"deadline", "teardown"},
             values' \in {values, values \ {f.s}}, misused' = misused \/ (misused' = TRUE /\ freed)
      PROVE  HandleInv'
  <2>1. result'[f.s] = r
    BY <1>4, <1>6, <1>7 DEF Return
  <2>2. hasty' = FALSE
    BY <1>6, <1>7, <2>1
  <2> QED  BY <1>1, <1>3, <1>6, <1>7, <1>q, <2>2, ReturnKeeps
<1>8. CASE ~(f.replied /\ plan[f.s] = "sentinel")
  <2>1. PICK r \in {"none", "value", "timeout", "error"} : r = IF f.replied THEN plan[f.s] ELSE "timeout"
    BY <1>4, <1>8
  <2>2. Return(f.s, r) /\ UNCHANGED <<values, misused>>
    BY <1>1, <1>3, <1>8, <2>1 DEF Resume
  <2>3. r = "timeout" => f.quit \in {"deadline", "teardown"}
    BY <1>4, <1>5, <2>1
  <2> QED  BY <1>7, <2>2, <2>3
<1>9. CASE f.replied /\ plan[f.s] = "sentinel" /\ freed
  <2>1. Return(f.s, "none") /\ misused' = TRUE /\ UNCHANGED values
    BY <1>1, <1>3, <1>9 DEF Resume
  <2> QED  BY <1>7, <1>9, <2>1
<1>10. CASE f.replied /\ plan[f.s] = "sentinel" /\ ~freed /\ f.s \in values
  <2>1. Return(f.s, "value") /\ values' = values \ {f.s} /\ UNCHANGED misused
    BY <1>1, <1>3, <1>10 DEF Resume
  <2> QED  BY <1>7, <2>1
<1>11. CASE f.replied /\ plan[f.s] = "sentinel" /\ ~freed /\ f.s \notin values /\ f.at = "completion"
  <2>1. Return(f.s, "timeout") /\ UNCHANGED <<values, misused>>
    BY <1>1, <1>3, <1>11 DEF Resume
  <2>2. f.quit \in {"deadline", "teardown"}
    BY <1>4, <1>5, <1>11
  <2> QED  BY <1>7, <2>1, <2>2
<1>12. CASE f.replied /\ plan[f.s] = "sentinel" /\ ~freed /\ f.s \notin values /\ f.at # "completion"
  <2>1. /\ stack' = [stack EXCEPT ![n] = Frame(f.s, "completion")]
        /\ UNCHANGED <<stage, values, misused, result>>
    BY <1>1, <1>3, <1>12 DEF Resume
  <2>2. PICK g \in LoopFrames : /\ g = Frame(f.s, "completion") /\ g.s = f.s /\ g.quit = "no" /\ g.replied
                                /\ g.at = "completion"
    <3>1. /\ Frame(f.s, "completion") \in LoopFrames /\ Frame(f.s, "completion").s = f.s
          /\ Frame(f.s, "completion").quit = "no" /\ Frame(f.s, "completion").replied
          /\ Frame(f.s, "completion").at = "completion"
      BY <1>4 DEF Frame, LoopFrames
    <3> QED  BY <3>1
  <2>3. stack' = [i \in DOMAIN stack |-> stack'[i]] /\ \A i \in DOMAIN stack : stack'[i] = IF i = n THEN g ELSE stack[i]
    BY <1>q, <2>1, <2>2
  <2>4. \A i \in DOMAIN stack :
          /\ stack'[i] \in LoopFrames /\ stack'[i].s = stack[i].s
          /\ stack'[i].at = "completion" => stack'[i].replied
          /\ stack'[i].quit = "reply" => stack'[i].replied /\ stack'[i].at = "answer"
          /\ stack'[i].quit \in {"sink", "teardown"} => stack'[i].at = "completion"
          /\ stack'[i].quit = "sink" => stack[i].s \in values
    BY <1>3, <2>2, <2>3, FrameTyped DEF HandleInv, LoopEndsForReason
  <2>5. hasty' = hasty
    <3>1. result'[f.s] # "timeout"
      BY <1>4, <2>1
    <3>2. hasty \in BOOLEAN
      BY DEF HandleInv, HandleTypeOK
    <3> QED  BY <1>6, <3>1, <3>2
  <2>6. values \subseteq Calls
    BY DEF HandleInv, HandleTypeOK
  <2> QED  BY <1>6, <2>1, <2>3, <2>4, <2>5, <2>6, FramesMove
<1> QED  BY <1>8, <1>9, <1>10, <1>11, <1>12

LEMMA HandleInvNext == HandleInv /\ [HandleNext]_handleVars => HandleInv'
<1> SUFFICES ASSUME HandleInv, [HandleNext]_handleVars PROVE HandleInv'
  OBVIOUS
<1>1. channel \in {"none", "sink", "bare"}
  BY DEF HandleInv, HandleTypeOK
<1>2. CASE OnEvent
  BY <1>1, <1>2, HandleUnaffected DEF OnEvent, EnsureChannel, calls, provider, history
<1>3. CASE ProxyDies
  BY <1>1, <1>3, HandleUnaffected DEF ProxyDies, calls, provider, history
<1>4. ASSUME NEW d \in doomed, Reap(d) PROVE HandleInv'
  BY <1>1, <1>4, HandleUnaffected DEF Reap, calls, provider, history
<1>5. CASE UNCHANGED handleVars
  BY <1>1, <1>5, HandleUnaffected DEF handleVars, object, calls, provider, history
<1> QED
  BY <1>2, <1>3, <1>4, <1>5, TeardownKeeps, ResumeKeeps, CallAsyncKeeps, AsyncKeeps, CompleteKeeps, CallKeeps,
     LoopEndKeeps DEF HandleNext

\* The callback of callMethodAsync is invoked at most once, in whatever order its
\* timer, its watcher's slot, its completion and its deadline run: in a local handle
\* because the sink and the deadline take it from the waiters, not by a flag.
THEOREM CallbackOnce == HandleSpec => []DeliveredOnce
<1>1. HandleInv => DeliveredOnce
  BY DEF HandleInv, FiredWithResult, DeliveredOnce
<1> QED  BY <1>1, HandleInvInit, HandleInvNext, PTL DEF HandleSpec

\* callMethod returns a timeout only when a deadline of its own has passed or its
\* channel was taken down, however deep other calls were nested in its loop.
THEOREM NoHastyTimeout == HandleSpec => []TimeoutIsReal
<1>1. HandleInv => TimeoutIsReal
  BY DEF HandleInv
<1> QED  BY <1>1, HandleInvInit, HandleInvNext, PTL DEF HandleSpec

\* A handle that is released while no call on it is outstanding is not touched
\* again by a queued slot, a timer, a hand-over or an event.
THEOREM QuietRelease == HandleSpec => []QuietReleaseIsSafe
<1>1. HandleInv => QuietReleaseIsSafe
  BY DEF HandleInv
<1> QED  BY <1>1, HandleInvInit, HandleInvNext, PTL DEF HandleSpec
=============================================================================
