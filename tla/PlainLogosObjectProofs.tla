----------------------- MODULE PlainLogosObjectProofs -----------------------
(***************************************************************************)
(* Proofs about PlainLogosObject, for any sets of calls, any cap on the    *)
(* parked completions and any of the three things the environment may do.  *)
(***************************************************************************)
EXTENDS PlainLogosObject, SequenceTheorems, TLAPS

-----------------------------------------------------------------------------
(* Types.                                                                  *)

Places == {"idle", "entered", "subscribed", "refused", "send", "wait", "await", "scope",
           "leave", "returned"}
Steps == {"leave", "claim", "withdraw", "post", "sentinel", "file", "rearm"}
Outcomes == {"none", "value", "error", "sentinel", "timeout", "released"}
Tasks == {"arm", "cancel", "fire"}

\* What a worker can be doing: nothing, something about an asynchronous call, or,
\* on the I/O thread, an event.
JobOK(w) ==
  \/ job[w] = Idle
  \/ job[w].call \in Async /\ job[w].step \in Steps
  \/ w = "io" /\ job[w].call \in Keys /\ job[w].step = "event"

Registries ==
  /\ inflight \subseteq Async /\ deferred \subseteq Async /\ syncOut \subseteq Sync
  /\ parked \in Seq(Keys) /\ stopping \in BOOLEAN

HandleType ==
  /\ inside \subseteq Calls /\ owner \in BOOLEAN /\ destroyed \in BOOLEAN
  /\ relStep \in {"none", "stop", "cancel", "done"}
  /\ cancelling \subseteq Async

ConnType ==
  /\ pending \subseteq Calls /\ swept \subseteq Calls /\ sent \subseteq Calls
  /\ completed \subseteq Keys /\ arrived \subseteq Keys /\ evicted \subseteq Keys

AsyncType ==
  /\ delivered \subseteq Async /\ armed \subseteq Async
  /\ posted \in [Async -> Nat]
  /\ timerQ \in [Async -> Seq(Tasks)]

JobType ==
  /\ job \in [Workers -> [call : Keys \cup {NoCall}, step : Steps \cup {"idle", "event"},
                          how : Outcomes]]
  /\ \A w \in Workers : JobOK(w)

CallerType ==
  pc \in [Calls -> Places]

TypeOK == Registries /\ HandleType /\ ConnType /\ AsyncType /\ JobType /\ CallerType

\* Taking a completion out of the queue leaves the others where they were.
LEMMA RemoveAtProperties ==
  ASSUME NEW S, NEW s \in Seq(S), NEW i \in 1..Len(s)
  PROVE  /\ RemoveAt(s, i) \in Seq(S)
         /\ \A x : x # s[i] => (Contains(RemoveAt(s, i), x) <=> Contains(s, x))
         /\ \A x : Contains(RemoveAt(s, i), x) => Contains(s, x)
<1> DEFINE a == SubSeq(s, 1, i - 1)
           b == SubSeq(s, i + 1, Len(s))
<1>1. a \in Seq(S) /\ Len(a) = i - 1 /\ \A j \in 1..(i - 1) : a[j] = s[j]
  BY SubSeqProperties
<1>2. b \in Seq(S) /\ Len(b) = Len(s) - i /\ \A j \in 1..(Len(s) - i) : b[j] = s[i + j]
  BY SubSeqProperties
<1>3. RemoveAt(s, i) = a \o b
  BY DEF RemoveAt
<1> HIDE DEF a, b
<1>4. /\ a \o b \in Seq(S) /\ Len(a \o b) = Len(s) - 1
      /\ \A j \in 1..(i - 1) : (a \o b)[j] = s[j]
      /\ \A j \in i..(Len(s) - 1) : (a \o b)[j] = s[j + 1]
  <2>1. /\ a \o b \in Seq(S) /\ Len(a \o b) = Len(a) + Len(b)
        /\ \A j \in 1..(Len(a) + Len(b)) :
             (a \o b)[j] = IF j <= Len(a) THEN a[j] ELSE b[j - Len(a)]
    BY <1>1, <1>2, ConcatProperties
  <2>2. Len(s) \in Nat
    OBVIOUS
  <2>3. ASSUME NEW j \in 1..(i - 1) PROVE (a \o b)[j] = s[j]
    BY <2>1, <2>2, <1>1, <1>2
  <2>4. ASSUME NEW j \in i..(Len(s) - 1) PROVE (a \o b)[j] = s[j + 1]
    <3>1. j - (i - 1) \in 1..(Len(s) - i) /\ i + (j - (i - 1)) = j + 1
      BY <2>2
    <3>2. (a \o b)[j] = b[j - (i - 1)]
      BY <2>1, <2>2, <1>1, <1>2
    <3> QED
      BY <3>1, <3>2, <1>2
  <2> QED
    BY <2>1, <2>2, <2>3, <2>4, <1>1, <1>2
<1>5. ASSUME NEW x, x # s[i], Contains(s, x) PROVE Contains(a \o b, x)
  <2>1. PICK j \in 1..Len(s) : s[j] = x
    BY <1>5 DEF Contains
  <2>2. CASE j < i
    <3>1. j \in 1..(i - 1) /\ j \in 1..(Len(s) - 1)
      BY <2>2
    <3>2. (a \o b)[j] = x
      BY <3>1, <2>1, <1>4
    <3> QED
      BY <3>1, <3>2, <1>4 DEF Contains
  <2>3. CASE j > i
    <3>1. j - 1 \in i..(Len(s) - 1) /\ j - 1 \in 1..(Len(s) - 1) /\ (j - 1) + 1 = j
      BY <2>3
    <3>2. (a \o b)[j - 1] = x
      BY <3>1, <2>1, <1>4
    <3> QED
      BY <3>1, <3>2, <1>4 DEF Contains
  <2> QED
    BY <2>1, <2>2, <2>3, <1>5
<1>6. ASSUME NEW x, Contains(a \o b, x) PROVE Contains(s, x)
  <2>1. PICK j \in 1..(Len(s) - 1) : (a \o b)[j] = x
    BY <1>4, <1>6 DEF Contains
  <2>2. CASE j < i
    BY <2>1, <2>2, <1>4 DEF Contains
  <2>3. CASE j >= i
    BY <2>1, <2>3, <1>4 DEF Contains
  <2> QED
    BY <2>2, <2>3
<1> QED
  BY <1>3, <1>4, <1>5, <1>6

\* A completion parked: it is in the queue, unless nobody could claim it, and what
\* was there is there still or was pushed out.
LEMMA ParkEffect ==
  ASSUME parked \in Seq(Keys), NEW k \in Keys, ParkCompletion(k)
  PROVE  /\ parked' \in Seq(Keys)
         /\ evicted \subseteq evicted' /\ evicted' \subseteq evicted \cup Keys
         /\ \A x : Contains(parked', x) => Contains(parked, x) \/ x = k
         /\ \A x : Contains(parked, x) => Contains(parked', x) \/ x \in evicted'
         /\ Busy(inflight, deferred, syncOut) => Contains(parked', k)
<1>1. CASE ~Busy(inflight, deferred, syncOut) \/ Contains(parked, k)
  BY <1>1 DEF ParkCompletion
<1>2. CASE Busy(inflight, deferred, syncOut) /\ ~Contains(parked, k) /\ Len(parked) < ParkedCap
  <2>1. parked' = Append(parked, k) /\ evicted' = evicted
    BY <1>2 DEF ParkCompletion
  <2>2. /\ parked' \in Seq(Keys) /\ Len(parked') = Len(parked) + 1
        /\ \A i \in 1..Len(parked) : parked'[i] = parked[i]
        /\ parked'[Len(parked) + 1] = k
    BY <2>1, AppendProperties
  <2> QED
    BY <2>1, <2>2 DEF Contains
<1>3. CASE Busy(inflight, deferred, syncOut) /\ ~Contains(parked, k) /\ ~(Len(parked) < ParkedCap)
  <2>1. parked' = Append(Tail(parked), k) /\ evicted' = evicted \cup {Head(parked)}
    BY <1>3 DEF ParkCompletion
  <2>2. parked # <<>> /\ Len(parked) \in Nat \ {0}
    BY <1>3, CapAssumption
  <2>3. /\ Tail(parked) \in Seq(Keys) /\ Len(Tail(parked)) = Len(parked) - 1
        /\ \A i \in 1..(Len(parked) - 1) : Tail(parked)[i] = parked[i + 1]
        /\ Head(parked) = parked[1] /\ Head(parked) \in Keys
    BY <2>2, HeadTailProperties
  <2>4. /\ parked' \in Seq(Keys) /\ Len(parked') = Len(parked)
        /\ \A i \in 1..(Len(parked) - 1) : parked'[i] = parked[i + 1]
        /\ parked'[Len(parked)] = k
    BY <2>1, <2>2, <2>3, AppendProperties
  <2>5. ASSUME NEW x, Contains(parked, x) PROVE Contains(parked', x) \/ x \in evicted'
    <3>1. PICK i \in 1..Len(parked) : parked[i] = x
      BY <2>5 DEF Contains
    <3>2. CASE i = 1
      BY <3>1, <3>2, <2>1, <2>3
    <3>3. CASE i # 1
      <4>1. i - 1 \in 1..(Len(parked) - 1) /\ (i - 1) + 1 = i /\ i - 1 \in 1..Len(parked')
        BY <3>3, <2>2, <2>4
      <4> QED
        BY <4>1, <3>1, <2>4 DEF Contains
    <3> QED
      BY <3>2, <3>3
  <2>6. ASSUME NEW x, Contains(parked', x) PROVE Contains(parked, x) \/ x = k
    <3>1. PICK i \in 1..Len(parked) : parked'[i] = x
      BY <2>4, <2>6 DEF Contains
    <3>2. CASE i = Len(parked)
      BY <3>1, <3>2, <2>4
    <3>3. CASE i # Len(parked)
      <4>1. i \in 1..(Len(parked) - 1) /\ i + 1 \in 1..Len(parked)
        BY <3>3, <2>2
      <4> QED
        BY <4>1, <3>1, <2>4 DEF Contains
    <3> QED
      BY <3>2, <3>3
  <2>7. Contains(parked', k)
    BY <2>2, <2>4 DEF Contains
  <2> QED
    BY <2>1, <2>3, <2>4, <2>5, <2>6, <2>7
<1> QED
  BY <1>1, <1>2, <1>3

\* A worker that is in a step of a call is in one of an asynchronous call.
LEMMA InStep ==
  ASSUME JobType, NEW w \in Workers, job[w].step \in Steps
  PROVE  job[w].call \in Async
BY DEF JobType, JobOK, Idle, Steps

\* A worker takes up a step of a call, goes on to the next one, or is done.
LEMMA JobChanges ==
  ASSUME JobType, NEW w \in Workers
  PROVE  /\ \A c \in Async, st \in Steps, h \in Outcomes :
              job' = [job EXCEPT ![w] = Job(c, st, h)] => JobType'
         /\ \A st \in Steps :
              job[w].step \in Steps /\ job' = [job EXCEPT ![w].step = st] => JobType'
         /\ job' = [job EXCEPT ![w] = Idle] => JobType'
         /\ job' = job => JobType'
<1>1. ASSUME NEW c \in Async, NEW st \in Steps, NEW h \in Outcomes,
             job' = [job EXCEPT ![w] = Job(c, st, h)]
      PROVE  JobType'
  BY <1>1 DEF JobType, JobOK, Job, Keys, Calls
<1>2. ASSUME NEW st \in Steps, job[w].step \in Steps, job' = [job EXCEPT ![w].step = st]
      PROVE  JobType'
  BY <1>2, InStep DEF JobType, JobOK
<1>3. ASSUME job' = [job EXCEPT ![w] = Idle] PROVE JobType'
  BY <1>3 DEF JobType, JobOK, Idle, Outcomes
<1>4. ASSUME job' = job PROVE JobType'
  BY <1>4 DEF JobType, JobOK
<1> QED
  BY <1>1, <1>2, <1>3, <1>4

\* The last reference gone, or not: the types of what it changes.
LEMMA DropReferenceType ==
  ASSUME Registries, HandleType, NEW o \in BOOLEAN, NEW in \in SUBSET Calls,
         DropReference(o, in), syncOut' = syncOut,
         relStep' \in {"none", "stop", "cancel", "done"}
  PROVE  Registries' /\ HandleType'
<1>1. CASE ~o /\ in = {}
  BY <1>1 DEF DropReference, Registries, HandleType
<1>2. CASE ~(~o /\ in = {})
  BY <1>2 DEF DropReference, Registries, HandleType
<1> QED
  BY <1>1, <1>2

\* Every step keeps the types.
LEMMA TypeStep == TypeOK /\ [Next]_vars => TypeOK'
<1> SUFFICES ASSUME TypeOK, [Next]_vars PROVE TypeOK'
  OBVIOUS
<1> USE DEF TypeOK
<1>1. ASSUME NEW c \in Async, EnterAsync(c) PROVE TypeOK'
  <2>1. JobType'
    BY <1>1 DEF EnterAsync, JobType, JobOK
  <2>2. Registries' /\ ConnType' /\ HandleType'
    BY <1>1 DEF EnterAsync, Registries, ConnType, HandleType, callState, conn, history, Calls
  <2>3. CallerType'
    BY <1>1 DEF EnterAsync, CallerType, Places, Calls
  <2>4. AsyncType'
    BY <1>1 DEF EnterAsync, AsyncType, timers
  <2> QED
    BY <2>1, <2>2, <2>3, <2>4
<1>2. ASSUME NEW c \in Async, ArmDeadline(c) PROVE TypeOK'
  BY <1>2, SetsAssumption DEF ArmDeadline, Goto, EnsureCompletionSub, PostTimer,
     callState, conn, history, Registries, HandleType, ConnType, AsyncType, JobType,
     JobOK, CallerType, Places, Steps, Outcomes, Tasks, Idle, Calls, Keys, Workers
<1>3. ASSUME NEW c \in Async, Admit(c) PROVE TypeOK'
  <2>1. JobType'
    <3>1. c \in Workers /\ "leave" \in Steps /\ "released" \in Outcomes
      BY DEF Workers, Steps, Outcomes
    <3> QED
      BY <1>3, <3>1, JobChanges DEF Admit
  <2>2. Registries' /\ ConnType' /\ HandleType' /\ AsyncType'
    BY <1>3 DEF Admit, Registries, ConnType, HandleType, AsyncType, handle, conn, history,
                asyncCall, timers
  <2>3. CallerType'
    BY <1>3 DEF Admit, CallerType, Places, Calls
  <2> QED
    BY <2>1, <2>2, <2>3
<1>4. ASSUME NEW c \in Async, SendAsync(c) PROVE TypeOK'
  BY <1>4, SetsAssumption DEF SendAsync, Goto, Job, callState, handle, asyncCall,
     history, timers, Registries, HandleType, ConnType, AsyncType, JobType, JobOK,
     CallerType, Places, Steps, Outcomes, Tasks, Idle, Calls, Keys, Workers
<1>5. ASSUME NEW c \in Async, IoReplyAsync(c) PROVE TypeOK'
  BY <1>5, SetsAssumption DEF IoReplyAsync, Free, Reply, Job, callState, handle,
     asyncCall, callers, history, timers, Registries, HandleType, ConnType, AsyncType,
     JobType, JobOK, CallerType, Places, Steps, Outcomes, Tasks, Idle, Calls, Keys,
     Workers
<1>6. ASSUME NEW c \in Async, TimerTask(c) PROVE TypeOK'
  BY <1>6, SetsAssumption DEF TimerTask, Free, Job, callState, handle, conn, callers,
     history, Registries, HandleType, ConnType, AsyncType, JobType, JobOK, CallerType,
     Places, Steps, Outcomes, Tasks, Idle, Calls, Keys, Workers
<1>7. ASSUME NEW c \in Async, Expire(c) PROVE TypeOK'
  BY <1>7, SetsAssumption DEF Expire, PostTimer, callState, handle, conn, callers,
     history, Registries, HandleType, ConnType, AsyncType, JobType, JobOK, CallerType,
     Places, Steps, Outcomes, Tasks, Idle, Calls, Keys, Workers
<1>8. ASSUME NEW s \in Sync, EnterSync(s) PROVE TypeOK'
  <2>1. JobType' /\ AsyncType'
    BY <1>8 DEF EnterSync, JobType, JobOK, AsyncType, asyncCall, timers
  <2>2. Registries' /\ ConnType' /\ HandleType'
    BY <1>8 DEF EnterSync, Registries, ConnType, HandleType, callState, conn, history, Calls
  <2>3. CallerType'
    BY <1>8 DEF EnterSync, CallerType, Places, Calls
  <2> QED
    BY <2>1, <2>2, <2>3
<1>9. ASSUME NEW s \in Sync, OpenScope(s) PROVE TypeOK'
  BY <1>9, SetsAssumption DEF OpenScope, Goto, EnsureCompletionSub, conn, asyncCall,
     history, timers, Registries, HandleType, ConnType, AsyncType, JobType, JobOK,
     CallerType, Places, Steps, Outcomes, Tasks, Idle, Calls, Keys, Workers
<1>10. ASSUME NEW s \in Sync, SendSync(s) PROVE TypeOK'
  BY <1>10, SetsAssumption DEF SendSync, Goto, callState, handle, asyncCall, history,
     timers, Registries, HandleType, ConnType, AsyncType, JobType, JobOK, CallerType,
     Places, Steps, Outcomes, Tasks, Idle, Calls, Keys, Workers
<1>11. ASSUME NEW s \in Sync, FutureReady(s) PROVE TypeOK'
  <2>1. CallerType'
    BY <1>11 DEF FutureReady, Goto, Conclude, CallerType, Places, Calls
  <2>2. JobType' /\ Registries' /\ ConnType' /\ HandleType' /\ AsyncType'
    BY <1>11 DEF FutureReady, JobType, JobOK, Registries, ConnType, HandleType, AsyncType,
                 callState, handle, conn, asyncCall, timers, history
  <2> QED
    BY <2>1, <2>2
<1>12. ASSUME NEW s \in Sync, FutureTimeout(s) PROVE TypeOK'
  BY <1>12, SetsAssumption DEF FutureTimeout, Goto, Conclude, callState, handle,
     asyncCall, history, timers, Registries, HandleType, ConnType, AsyncType, JobType,
     JobOK, CallerType, Places, Steps, Outcomes, Tasks, Idle, Calls, Keys, Workers
<1>13. ASSUME NEW s \in Sync, AwaitCompletion(s) PROVE TypeOK'
  <2>1. parked' \in Seq(Keys)
    BY <1>13, RemoveAtProperties DEF AwaitCompletion, TakeCompletion, Registries
  <2>2. CallerType'
    BY <1>13 DEF AwaitCompletion, Goto, Conclude, CallerType, Places, Calls
  <2>3. JobType' /\ Registries' /\ ConnType' /\ HandleType' /\ AsyncType'
    BY <1>13, <2>1 DEF AwaitCompletion, JobType, JobOK, Registries, ConnType, HandleType,
                       AsyncType, handle, conn, asyncCall, timers, history
  <2> QED
    BY <2>2, <2>3
<1>14. ASSUME NEW s \in Sync, CloseScope(s) PROVE TypeOK'
  BY <1>14, SetsAssumption DEF CloseScope, Goto, DropUnclaimedIfIdle, handle, conn,
     asyncCall, history, timers, Registries, HandleType, ConnType, AsyncType, JobType,
     JobOK, CallerType, Places, Steps, Outcomes, Tasks, Idle, Calls, Keys, Workers
<1>15. ASSUME NEW s \in Sync, IoReplySync(s) PROVE TypeOK'
  BY <1>15, SetsAssumption DEF IoReplySync, Free, Reply, callState, handle, asyncCall,
     history, timers, Registries, HandleType, ConnType, AsyncType, JobType, JobOK,
     CallerType, Places, Steps, Outcomes, Tasks, Idle, Calls, Keys, Workers
<1>16. ASSUME NEW c \in Calls, Leave(c) PROVE TypeOK'
  <2>1. Registries' /\ HandleType'
    BY <1>16, DropReferenceType DEF Leave, HandleType
  <2>2. JobType' /\ ConnType' /\ AsyncType' /\ CallerType'
    BY <1>16 DEF Leave, JobType, JobOK, ConnType, AsyncType, CallerType, Places, conn,
                 asyncCall, timers, history
  <2> QED
    BY <2>1, <2>2
<1>17. ASSUME NEW c \in Calls, FailAnswer(c) PROVE TypeOK'
  BY <1>17, SetsAssumption DEF FailAnswer, Free, Job, callState, handle, asyncCall,
     history, timers, Registries, HandleType, ConnType, AsyncType, JobType, JobOK,
     CallerType, Places, Steps, Outcomes, Tasks, Idle, Calls, Keys, Workers
<1>18. ASSUME NEW w \in Workers, DeliverLeave(w) PROVE TypeOK'
  <2>1. JobType'
    BY <1>18, JobChanges DEF DeliverLeave, Steps
  <2>4. ConnType' /\ HandleType' /\ AsyncType' /\ CallerType'
    BY <1>18 DEF DeliverLeave, ConnType, HandleType, AsyncType, CallerType, handle, conn,
                 asyncCall, timers, callers, history
  <2>2. CASE destroyed
    BY <1>18, <2>2, <2>1, <2>4 DEF DeliverLeave, Registries, callState
  <2>3. CASE ~destroyed
    <3>1. parked' \in Seq(Keys)
      <4>1. parked' = parked \/ parked' = <<>>
        BY <1>18, <2>3 DEF DeliverLeave, DropUnclaimedIfIdle
      <4> QED
        BY <4>1, EmptySeq DEF Registries
    <3> QED
      BY <1>18, <2>3, <3>1, <2>1, <2>4 DEF DeliverLeave, Registries
  <2> QED
    BY <2>2, <2>3
<1>19. ASSUME NEW w \in Workers, DeliverClaim(w) PROVE TypeOK'
  <2>1. JobType'
    BY <1>19, JobChanges DEF DeliverClaim, Steps
  <2>2. AsyncType'
    BY <1>19, InStep DEF DeliverClaim, AsyncType, Steps, timers
  <2>3. Registries' /\ ConnType' /\ HandleType' /\ CallerType'
    BY <1>19 DEF DeliverClaim, Registries, ConnType, HandleType, CallerType, callState, handle,
                 conn, callers, history
  <2> QED
    BY <2>1, <2>2, <2>3
<1>20. ASSUME NEW w \in Workers, DeliverWithdraw(w) PROVE TypeOK'
  <2>1. JobType'
    BY <1>20, JobChanges DEF DeliverWithdraw, Steps
  <2>2. Registries' /\ ConnType' /\ HandleType' /\ AsyncType' /\ CallerType'
    BY <1>20 DEF DeliverWithdraw, Registries, ConnType, HandleType, AsyncType, CallerType,
                 callState, handle, asyncCall, timers, callers, history
  <2> QED
    BY <2>1, <2>2
<1>21. ASSUME NEW w \in Workers, DeliverPost(w) PROVE TypeOK'
  BY <1>21, SetsAssumption DEF DeliverPost, PostTimer, callState, handle, conn, history,
     Registries, HandleType, ConnType, AsyncType, JobType, JobOK, CallerType, Places,
     Steps, Outcomes, Tasks, Idle, Calls, Keys, Workers
<1>22. ASSUME NEW k \in Keys, IoEvent(k) PROVE TypeOK'
  BY <1>22, SetsAssumption DEF IoEvent, Free, Emittable, Job, callState, handle,
     asyncCall, callers, history, timers, Registries, HandleType, ConnType, AsyncType,
     JobType, JobOK, CallerType, Places, Steps, Outcomes, Tasks, Idle, Calls, Keys,
     Workers
<1>23. ASSUME SentinelCheck PROVE TypeOK'
  BY <1>23, SetsAssumption DEF SentinelCheck, Job, callState, handle, conn, asyncCall,
     callers, history, timers, Registries, HandleType, ConnType, AsyncType, JobType,
     JobOK, CallerType, Places, Steps, Outcomes, Tasks, Idle, Calls, Keys, Workers
<1>24. ASSUME FileDeferred PROVE TypeOK'
  <2>1. "io" \in Workers /\ job["io"].call \in Async
    BY <1>24, InStep DEF FileDeferred, Workers, Steps
  <2>2. JobType'
    BY <1>24, <2>1, JobChanges DEF FileDeferred, Steps, Outcomes
  <2>3. parked' \in Seq(Keys)
    BY <1>24, RemoveAtProperties DEF FileDeferred, TakeCompletion, Registries
  <2>4. Registries'
    BY <1>24, <2>1, <2>3 DEF FileDeferred, Registries
  <2>5. ConnType' /\ HandleType' /\ AsyncType' /\ CallerType'
    BY <1>24 DEF FileDeferred, ConnType, HandleType, AsyncType, CallerType, handle, conn,
                 timers, callers, history
  <2> QED
    BY <2>2, <2>4, <2>5
<1>25. ASSUME Rearm PROVE TypeOK'
  <2>1. "io" \in Workers /\ job["io"].call \in Async
    BY <1>25, InStep DEF Rearm, Workers, Steps
  <2>2. JobType'
    BY <1>25, <2>1, JobChanges DEF Rearm
  <2>3. AsyncType'
    BY <1>25, <2>1 DEF Rearm, PostTimer, AsyncType, Tasks
  <2>4. Registries' /\ ConnType' /\ HandleType' /\ CallerType'
    BY <1>25 DEF Rearm, Registries, ConnType, HandleType, CallerType, callState, handle, conn,
                 callers, history
  <2> QED
    BY <2>2, <2>3, <2>4
<1>26. ASSUME HandleEvent PROVE TypeOK'
  <2>1. "io" \in Workers /\ job["io"].call \in Keys
    BY <1>26 DEF HandleEvent, Workers, JobType, JobOK, Idle, Steps
  <2>2. JobType'
    BY <1>26, <2>1, JobChanges DEF HandleEvent, Registries, Steps, Outcomes
  <2>3. parked' \in Seq(Keys) /\ evicted' \subseteq Keys
    BY <1>26, <2>1, ParkEffect DEF HandleEvent, Registries, ConnType, history
  <2>4. Registries' /\ ConnType'
    BY <1>26, <2>1, <2>3 DEF HandleEvent, Registries, ConnType, conn, history
  <2>5. HandleType' /\ AsyncType' /\ CallerType'
    BY <1>26 DEF HandleEvent, HandleType, AsyncType, CallerType, handle, asyncCall, timers,
                 callers
  <2> QED
    BY <2>2, <2>4, <2>5
<1>27. ASSUME FailConnection PROVE TypeOK'
  BY <1>27, SetsAssumption DEF FailConnection, callState, handle, asyncCall, callers,
     history, timers, Registries, HandleType, ConnType, AsyncType, JobType, JobOK,
     CallerType, Places, Steps, Outcomes, Tasks, Idle, Calls, Keys, Workers
<1>28. ASSUME DisconnectEvents PROVE TypeOK'
  BY <1>28, SetsAssumption DEF DisconnectEvents, callState, conn, asyncCall, callers,
     history, timers, Registries, HandleType, ConnType, AsyncType, JobType, JobOK,
     CallerType, Places, Steps, Outcomes, Tasks, Idle, Calls, Keys, Workers
<1>29. ASSUME ReleaseDisconnect PROVE TypeOK'
  BY <1>29, SetsAssumption DEF ReleaseDisconnect, callState, conn, asyncCall, callers,
     history, timers, Registries, HandleType, ConnType, AsyncType, JobType, JobOK,
     CallerType, Places, Steps, Outcomes, Tasks, Idle, Calls, Keys, Workers
<1>30. ASSUME ReleaseStop PROVE TypeOK'
  BY <1>30, SetsAssumption DEF ReleaseStop, conn, asyncCall, callers, history, timers,
     Registries, HandleType, ConnType, AsyncType, JobType, JobOK, CallerType, Places,
     Steps, Outcomes, Tasks, Idle, Calls, Keys, Workers
<1>31. ASSUME NEW c \in Async, ReleaseCancel(c) PROVE TypeOK'
  BY <1>31, SetsAssumption DEF ReleaseCancel, Free, Job, callState, conn, asyncCall,
     callers, history, timers, Registries, HandleType, ConnType, AsyncType, JobType,
     JobOK, CallerType, Places, Steps, Outcomes, Tasks, Idle, Calls, Keys, Workers
<1>32. ASSUME ReleaseDrop PROVE TypeOK'
  <2>1. Registries' /\ HandleType'
    BY <1>32, DropReferenceType DEF ReleaseDrop, HandleType
  <2>2. JobType' /\ ConnType' /\ AsyncType' /\ CallerType'
    BY <1>32 DEF ReleaseDrop, JobType, JobOK, ConnType, AsyncType, CallerType, conn,
                 asyncCall, timers, callers, history
  <2> QED
    BY <2>1, <2>2
<1>33. ASSUME UNCHANGED vars PROVE TypeOK'
  BY <1>33 DEF vars, callState, handle, conn, timers, asyncCall, callers, history, Registries,
               HandleType, ConnType, AsyncType, JobType, JobOK, CallerType
<1> QED
  BY <1>1, <1>2, <1>3, <1>4, <1>5, <1>6, <1>7, <1>8, <1>9, <1>10, <1>11, <1>12, <1>13, <1>14, <1>15,
     <1>16, <1>17, <1>18, <1>19, <1>20, <1>21, <1>22, <1>23, <1>24, <1>25, <1>26, <1>27, <1>28,
     <1>29, <1>30, <1>31, <1>32, <1>33 DEF Next, AsyncStep, SyncStep, DeliverStep, HandlerStep,
     ReleaseStep

-----------------------------------------------------------------------------
(* References: who is inside a handle, and when it may be deleted.         *)

\* The owner's reference is dropped at the end of release(), a call holds one
\* from its entry to its return, and a handle is deleted, and its calls are
\* refused from then on, when nobody holds one.
RefInv ==
  /\ owner <=> relStep # "done"
  /\ inside = {c \in Calls : pc[c] \notin {"idle", "returned"}}
  /\ destroyed => ~owner /\ inside = {} /\ stopping
  /\ relStep \in {"cancel", "done"} => stopping

\* Every step keeps RefInv.
LEMMA RefStep == TypeOK /\ RefInv /\ [Next]_vars => RefInv'
<1> SUFFICES ASSUME TypeOK, RefInv, [Next]_vars PROVE RefInv'
  OBVIOUS
<1> USE DEF TypeOK
<1>1. ASSUME NEW c \in Async, EnterAsync(c) PROVE RefInv'
  BY <1>1 DEF EnterAsync, MayEnter, callState, conn, timers, history, RefInv,
     Registries, HandleType, CallerType, Places, Calls
<1>2. ASSUME NEW c \in Async, ArmDeadline(c) PROVE RefInv'
  BY <1>2 DEF ArmDeadline, Goto, EnsureCompletionSub, PostTimer, callState, conn,
     history, RefInv, Registries, HandleType, CallerType, Places
<1>3. ASSUME NEW c \in Async, Admit(c) PROVE RefInv'
  BY <1>3 DEF Admit, Job, handle, conn, asyncCall, history, timers, RefInv, Registries,
     HandleType, CallerType, Places
<1>4. ASSUME NEW c \in Async, SendAsync(c) PROVE RefInv'
  BY <1>4 DEF SendAsync, Goto, Job, callState, handle, asyncCall, history, timers,
     RefInv, Registries, HandleType, CallerType, Places
<1>5. ASSUME NEW c \in Async, IoReplyAsync(c) PROVE RefInv'
  BY <1>5 DEF IoReplyAsync, Free, Reply, Job, callState, handle, asyncCall, callers,
     history, timers, RefInv, Registries, HandleType, CallerType, Places
<1>6. ASSUME NEW c \in Async, TimerTask(c) PROVE RefInv'
  BY <1>6 DEF TimerTask, Free, Job, callState, handle, conn, callers, history, RefInv,
     Registries, HandleType, CallerType, Places
<1>7. ASSUME NEW c \in Async, Expire(c) PROVE RefInv'
  BY <1>7 DEF Expire, PostTimer, callState, handle, conn, callers, history, RefInv,
     Registries, HandleType, CallerType, Places
<1>8. ASSUME NEW s \in Sync, EnterSync(s) PROVE RefInv'
  BY <1>8 DEF EnterSync, MayEnter, callState, conn, asyncCall, history, timers, RefInv,
     Registries, HandleType, CallerType, Places, Calls
<1>9. ASSUME NEW s \in Sync, OpenScope(s) PROVE RefInv'
  BY <1>9 DEF OpenScope, Goto, EnsureCompletionSub, conn, asyncCall, history, timers,
     RefInv, Registries, HandleType, CallerType, Places
<1>10. ASSUME NEW s \in Sync, SendSync(s) PROVE RefInv'
  BY <1>10 DEF SendSync, Goto, callState, handle, asyncCall, history, timers, RefInv,
     Registries, HandleType, CallerType, Places
<1>11. ASSUME NEW s \in Sync, FutureReady(s) PROVE RefInv'
  BY <1>11 DEF FutureReady, Goto, Conclude, callState, handle, conn, asyncCall, history,
     timers, RefInv, Registries, HandleType, CallerType, Places
<1>12. ASSUME NEW s \in Sync, FutureTimeout(s) PROVE RefInv'
  BY <1>12 DEF FutureTimeout, Goto, Conclude, callState, handle, asyncCall, history,
     timers, RefInv, Registries, HandleType, CallerType, Places
<1>13. ASSUME NEW s \in Sync, AwaitCompletion(s) PROVE RefInv'
  BY <1>13 DEF AwaitCompletion, Goto, Conclude, TakeCompletion, handle, conn, asyncCall,
     history, timers, RefInv, Registries, HandleType, CallerType, Places
<1>14. ASSUME NEW s \in Sync, CloseScope(s) PROVE RefInv'
  BY <1>14 DEF CloseScope, Goto, DropUnclaimedIfIdle, handle, conn, asyncCall, history,
     timers, RefInv, Registries, HandleType, CallerType, Places
<1>15. ASSUME NEW s \in Sync, IoReplySync(s) PROVE RefInv'
  BY <1>15 DEF IoReplySync, Free, Reply, callState, handle, asyncCall, history, timers,
     RefInv, Registries, HandleType, CallerType, Places
<1>16. ASSUME NEW c \in Calls, Leave(c) PROVE RefInv'
  BY <1>16 DEF Leave, Free, DropReference, conn, asyncCall, history, timers, RefInv,
     Registries, HandleType, CallerType, Places
<1>17. ASSUME NEW c \in Calls, FailAnswer(c) PROVE RefInv'
  BY <1>17 DEF FailAnswer, Free, Job, callState, handle, asyncCall, history, timers,
     RefInv, Registries, HandleType, CallerType, Places
<1>18. ASSUME NEW w \in Workers, DeliverLeave(w) PROVE RefInv'
  BY <1>18 DEF DeliverLeave, DropUnclaimedIfIdle, callState, handle, conn, asyncCall,
     callers, history, timers, RefInv, Registries, HandleType, CallerType, Places
<1>19. ASSUME NEW w \in Workers, DeliverClaim(w) PROVE RefInv'
  BY <1>19 DEF DeliverClaim, callState, handle, conn, timers, callers, history, RefInv,
     Registries, HandleType, CallerType, Places
<1>20. ASSUME NEW w \in Workers, DeliverWithdraw(w) PROVE RefInv'
  BY <1>20 DEF DeliverWithdraw, callState, handle, asyncCall, callers, history, timers,
     RefInv, Registries, HandleType, CallerType, Places
<1>21. ASSUME NEW w \in Workers, DeliverPost(w) PROVE RefInv'
  BY <1>21 DEF DeliverPost, PostTimer, callState, handle, conn, history, RefInv,
     Registries, HandleType, CallerType, Places
<1>22. ASSUME NEW k \in Keys, IoEvent(k) PROVE RefInv'
  BY <1>22 DEF IoEvent, Free, Emittable, Job, callState, handle, asyncCall, callers,
     history, timers, RefInv, Registries, HandleType, CallerType, Places
<1>23. ASSUME SentinelCheck PROVE RefInv'
  BY <1>23 DEF SentinelCheck, Job, callState, handle, conn, asyncCall, callers, history,
     timers, RefInv, Registries, HandleType, CallerType, Places
<1>24. ASSUME FileDeferred PROVE RefInv'
  BY <1>24 DEF FileDeferred, Job, TakeCompletion, handle, conn, timers, callers,
     history, RefInv, Registries, HandleType, CallerType, Places
<1>25. ASSUME Rearm PROVE RefInv'
  BY <1>25 DEF Rearm, PostTimer, callState, handle, conn, callers, history, RefInv,
     Registries, HandleType, CallerType, Places
<1>26. ASSUME HandleEvent PROVE RefInv'
  BY <1>26 DEF HandleEvent, Job, ParkCompletion, handle, conn, asyncCall, callers,
     history, timers, RefInv, Registries, HandleType, CallerType, Places
<1>27. ASSUME FailConnection PROVE RefInv'
  BY <1>27 DEF FailConnection, callState, handle, asyncCall, callers, history, timers,
     RefInv, Registries, HandleType, CallerType, Places
<1>28. ASSUME DisconnectEvents PROVE RefInv'
  BY <1>28 DEF DisconnectEvents, callState, conn, asyncCall, callers, history, timers,
     RefInv, Registries, HandleType, CallerType, Places
<1>29. ASSUME ReleaseDisconnect PROVE RefInv'
  BY <1>29 DEF ReleaseDisconnect, callState, conn, asyncCall, callers, history, timers,
     RefInv, Registries, HandleType, CallerType, Places
<1>30. ASSUME ReleaseStop PROVE RefInv'
  BY <1>30 DEF ReleaseStop, conn, asyncCall, callers, history, timers, RefInv,
     Registries, HandleType, CallerType, Places
<1>31. ASSUME NEW c \in Async, ReleaseCancel(c) PROVE RefInv'
  BY <1>31 DEF ReleaseCancel, Free, Job, callState, conn, asyncCall, callers, history,
     timers, RefInv, Registries, HandleType, CallerType, Places
<1>32. ASSUME ReleaseDrop PROVE RefInv'
  BY <1>32 DEF ReleaseDrop, Free, DropReference, conn, asyncCall, callers, history,
     timers, RefInv, Registries, HandleType, CallerType, Places
<1>33. ASSUME UNCHANGED vars PROVE RefInv'
  BY <1>33 DEF vars, RefInv, callState, handle, callers
<1> QED
  BY <1>1, <1>2, <1>3, <1>4, <1>5, <1>6, <1>7, <1>8, <1>9, <1>10, <1>11, <1>12, <1>13,
     <1>14, <1>15, <1>16, <1>17, <1>18, <1>19, <1>20, <1>21, <1>22, <1>23, <1>24, <1>25,
     <1>26, <1>27, <1>28, <1>29, <1>30, <1>31, <1>32, <1>33 DEF Next, AsyncStep,
     SyncStep, DeliverStep, HandlerStep, ReleaseStep

-----------------------------------------------------------------------------
(* Callbacks.                                                              *)

\* The worker that has claimed the call and has not handed its callback over yet.
Winner(w, c) == job[w].call = c /\ job[w].step \in {"withdraw", "post"}

\* Nothing that could deliver the call refers to it.
Untouched(c) ==
  /\ c \notin inflight \cup deferred \cup cancelling \cup pending \cup swept \cup sent \cup armed
  /\ timerQ[c] = <<>>
  /\ \A w \in Workers : job[w].call # c

\* The events on their way to the handle, and those it has had, are of calls that
\* were sent, or foreign.
EventsSent ==
  /\ job["io"].step = "event" => job["io"].call \in sent \cup Foreign
  /\ arrived \subseteq sent \cup Foreign

\* A callback is handed over by the one worker that claimed the call, or, at
\* once, for a call that was refused on entry and that nothing refers to.
OnceFor(c) ==
  /\ pc[c] = "idle" => Untouched(c) /\ posted[c] = 0 /\ c \notin delivered
  /\ posted[c] \in {0, 1}
  /\ posted[c] = 1 => c \in delivered \/ (pc[c] \in {"leave", "returned"} /\ Untouched(c))
  /\ \A w \in Workers : Winner(w, c) => c \in delivered /\ posted[c] = 0
  /\ \A v, w \in Workers : Winner(v, c) /\ Winner(w, c) => v = w

OnceInv == EventsSent /\ \A c \in Async : OnceFor(c)

\* Every step keeps EventsSent.
LEMMA EventsSentStep == TypeOK /\ EventsSent /\ [Next]_vars => EventsSent'
<1> SUFFICES ASSUME TypeOK, EventsSent, [Next]_vars PROVE EventsSent'
  OBVIOUS
<1> USE DEF TypeOK
<1>1. ASSUME NEW c \in Async, EnterAsync(c) PROVE EventsSent'
  BY <1>1, SetsAssumption DEF EnterAsync, MayEnter, callState, conn, timers, history,
     EventsSent, ConnType, JobType, JobOK, Steps, Workers, Idle, Keys
<1>2. ASSUME NEW c \in Async, ArmDeadline(c) PROVE EventsSent'
  BY <1>2, SetsAssumption DEF ArmDeadline, Goto, EnsureCompletionSub, PostTimer,
     callState, conn, history, EventsSent, ConnType, JobType, JobOK, Steps, Workers,
     Idle, Keys
<1>3. ASSUME NEW c \in Async, Admit(c) PROVE EventsSent'
  BY <1>3, SetsAssumption DEF Admit, Job, handle, conn, asyncCall, history, timers,
     EventsSent, ConnType, JobType, JobOK, Steps, Workers, Idle, Keys
<1>4. ASSUME NEW c \in Async, SendAsync(c) PROVE EventsSent'
  BY <1>4, SetsAssumption DEF SendAsync, Goto, Job, callState, handle, asyncCall,
     history, timers, EventsSent, ConnType, JobType, JobOK, Steps, Workers, Idle, Keys
<1>5. ASSUME NEW c \in Async, IoReplyAsync(c) PROVE EventsSent'
  BY <1>5, SetsAssumption DEF IoReplyAsync, Free, Reply, Job, callState, handle,
     asyncCall, callers, history, timers, EventsSent, ConnType, JobType, JobOK, Steps,
     Workers, Idle, Keys
<1>6. ASSUME NEW c \in Async, TimerTask(c) PROVE EventsSent'
  BY <1>6, SetsAssumption DEF TimerTask, Free, Job, callState, handle, conn, callers,
     history, EventsSent, ConnType, JobType, JobOK, Steps, Workers, Idle, Keys
<1>7. ASSUME NEW c \in Async, Expire(c) PROVE EventsSent'
  BY <1>7, SetsAssumption DEF Expire, PostTimer, callState, handle, conn, callers,
     history, EventsSent, ConnType, JobType, JobOK, Steps, Workers, Idle, Keys
<1>8. ASSUME NEW s \in Sync, EnterSync(s) PROVE EventsSent'
  BY <1>8, SetsAssumption DEF EnterSync, MayEnter, callState, conn, asyncCall, history,
     timers, EventsSent, ConnType, JobType, JobOK, Steps, Workers, Idle, Keys
<1>9. ASSUME NEW s \in Sync, OpenScope(s) PROVE EventsSent'
  BY <1>9, SetsAssumption DEF OpenScope, Goto, EnsureCompletionSub, conn, asyncCall,
     history, timers, EventsSent, ConnType, JobType, JobOK, Steps, Workers, Idle, Keys
<1>10. ASSUME NEW s \in Sync, SendSync(s) PROVE EventsSent'
  BY <1>10, SetsAssumption DEF SendSync, Goto, callState, handle, asyncCall, history,
     timers, EventsSent, ConnType, JobType, JobOK, Steps, Workers, Idle, Keys
<1>11. ASSUME NEW s \in Sync, FutureReady(s) PROVE EventsSent'
  BY <1>11, SetsAssumption DEF FutureReady, Goto, Conclude, callState, handle, conn,
     asyncCall, history, timers, EventsSent, ConnType, JobType, JobOK, Steps, Workers,
     Idle, Keys
<1>12. ASSUME NEW s \in Sync, FutureTimeout(s) PROVE EventsSent'
  BY <1>12, SetsAssumption DEF FutureTimeout, Goto, Conclude, callState, handle,
     asyncCall, history, timers, EventsSent, ConnType, JobType, JobOK, Steps, Workers,
     Idle, Keys
<1>13. ASSUME NEW s \in Sync, AwaitCompletion(s) PROVE EventsSent'
  BY <1>13, SetsAssumption DEF AwaitCompletion, Goto, Conclude, TakeCompletion, handle,
     conn, asyncCall, history, timers, EventsSent, ConnType, JobType, JobOK, Steps,
     Workers, Idle, Keys
<1>14. ASSUME NEW s \in Sync, CloseScope(s) PROVE EventsSent'
  BY <1>14, SetsAssumption DEF CloseScope, Goto, DropUnclaimedIfIdle, handle, conn,
     asyncCall, history, timers, EventsSent, ConnType, JobType, JobOK, Steps, Workers,
     Idle, Keys
<1>15. ASSUME NEW s \in Sync, IoReplySync(s) PROVE EventsSent'
  BY <1>15, SetsAssumption DEF IoReplySync, Free, Reply, callState, handle, asyncCall,
     history, timers, EventsSent, ConnType, JobType, JobOK, Steps, Workers, Idle, Keys
<1>16. ASSUME NEW c \in Calls, Leave(c) PROVE EventsSent'
  BY <1>16, SetsAssumption DEF Leave, Free, DropReference, conn, asyncCall, history,
     timers, EventsSent, ConnType, JobType, JobOK, Steps, Workers, Idle, Keys
<1>17. ASSUME NEW c \in Calls, FailAnswer(c) PROVE EventsSent'
  BY <1>17, SetsAssumption DEF FailAnswer, Free, Job, callState, handle, asyncCall,
     history, timers, EventsSent, ConnType, JobType, JobOK, Steps, Workers, Idle, Keys
<1>18. ASSUME NEW w \in Workers, DeliverLeave(w) PROVE EventsSent'
  BY <1>18, SetsAssumption DEF DeliverLeave, DropUnclaimedIfIdle, callState, handle,
     conn, asyncCall, callers, history, timers, EventsSent, ConnType, JobType, JobOK,
     Steps, Workers, Idle, Keys
<1>19. ASSUME NEW w \in Workers, DeliverClaim(w) PROVE EventsSent'
  BY <1>19, SetsAssumption DEF DeliverClaim, callState, handle, conn, timers, callers,
     history, EventsSent, ConnType, JobType, JobOK, Steps, Workers, Idle, Keys
<1>20. ASSUME NEW w \in Workers, DeliverWithdraw(w) PROVE EventsSent'
  BY <1>20, SetsAssumption DEF DeliverWithdraw, callState, handle, asyncCall, callers,
     history, timers, EventsSent, ConnType, JobType, JobOK, Steps, Workers, Idle, Keys
<1>21. ASSUME NEW w \in Workers, DeliverPost(w) PROVE EventsSent'
  BY <1>21, SetsAssumption DEF DeliverPost, PostTimer, callState, handle, conn, history,
     EventsSent, ConnType, JobType, JobOK, Steps, Workers, Idle, Keys
<1>22. ASSUME NEW k \in Keys, IoEvent(k) PROVE EventsSent'
  BY <1>22, SetsAssumption DEF IoEvent, Free, Emittable, Job, callState, handle,
     asyncCall, callers, history, timers, EventsSent, ConnType, JobType, JobOK, Steps,
     Workers, Idle, Keys
<1>23. ASSUME SentinelCheck PROVE EventsSent'
  BY <1>23, SetsAssumption DEF SentinelCheck, Job, callState, handle, conn, asyncCall,
     callers, history, timers, EventsSent, ConnType, JobType, JobOK, Steps, Workers,
     Idle, Keys
<1>24. ASSUME FileDeferred PROVE EventsSent'
  BY <1>24, SetsAssumption DEF FileDeferred, Job, TakeCompletion, handle, conn, timers,
     callers, history, EventsSent, ConnType, JobType, JobOK, Steps, Workers, Idle, Keys
<1>25. ASSUME Rearm PROVE EventsSent'
  BY <1>25, SetsAssumption DEF Rearm, PostTimer, callState, handle, conn, callers,
     history, EventsSent, ConnType, JobType, JobOK, Steps, Workers, Idle, Keys
<1>26. ASSUME HandleEvent PROVE EventsSent'
  BY <1>26, SetsAssumption DEF HandleEvent, Job, ParkCompletion, handle, conn,
     asyncCall, callers, history, timers, EventsSent, ConnType, JobType, JobOK, Steps,
     Workers, Idle, Keys
<1>27. ASSUME FailConnection PROVE EventsSent'
  BY <1>27, SetsAssumption DEF FailConnection, callState, handle, asyncCall, callers,
     history, timers, EventsSent, ConnType, JobType, JobOK, Steps, Workers, Idle, Keys
<1>28. ASSUME DisconnectEvents PROVE EventsSent'
  BY <1>28, SetsAssumption DEF DisconnectEvents, callState, conn, asyncCall, callers,
     history, timers, EventsSent, ConnType, JobType, JobOK, Steps, Workers, Idle, Keys
<1>29. ASSUME ReleaseDisconnect PROVE EventsSent'
  BY <1>29, SetsAssumption DEF ReleaseDisconnect, callState, conn, asyncCall, callers,
     history, timers, EventsSent, ConnType, JobType, JobOK, Steps, Workers, Idle, Keys
<1>30. ASSUME ReleaseStop PROVE EventsSent'
  BY <1>30, SetsAssumption DEF ReleaseStop, conn, asyncCall, callers, history, timers,
     EventsSent, ConnType, JobType, JobOK, Steps, Workers, Idle, Keys
<1>31. ASSUME NEW c \in Async, ReleaseCancel(c) PROVE EventsSent'
  BY <1>31, SetsAssumption DEF ReleaseCancel, Free, Job, callState, conn, asyncCall,
     callers, history, timers, EventsSent, ConnType, JobType, JobOK, Steps, Workers,
     Idle, Keys
<1>32. ASSUME ReleaseDrop PROVE EventsSent'
  BY <1>32, SetsAssumption DEF ReleaseDrop, Free, DropReference, conn, asyncCall,
     callers, history, timers, EventsSent, ConnType, JobType, JobOK, Steps, Workers,
     Idle, Keys
<1>33. ASSUME UNCHANGED vars PROVE EventsSent'
  BY <1>33 DEF vars, EventsSent, conn, history
<1> QED
  BY <1>1, <1>2, <1>3, <1>4, <1>5, <1>6, <1>7, <1>8, <1>9, <1>10, <1>11, <1>12, <1>13,
     <1>14, <1>15, <1>16, <1>17, <1>18, <1>19, <1>20, <1>21, <1>22, <1>23, <1>24, <1>25,
     <1>26, <1>27, <1>28, <1>29, <1>30, <1>31, <1>32, <1>33 DEF Next, AsyncStep,
     SyncStep, DeliverStep, HandlerStep, ReleaseStep

\* Every step keeps OnceInv.
LEMMA OnceStep == TypeOK /\ OnceInv /\ [Next]_vars => OnceInv'
<1> SUFFICES ASSUME TypeOK, OnceInv, [Next]_vars, NEW d \in Async PROVE OnceFor(d)'
  BY EventsSentStep DEF OnceInv
<1> USE DEF TypeOK
<1>1. ASSUME NEW c \in Async, EnterAsync(c) PROVE OnceFor(d)'
  BY <1>1, SetsAssumption DEF EnterAsync, MayEnter, callState, conn, timers, history,
     OnceInv, OnceFor, Winner, Untouched, EventsSent, Registries, HandleType, ConnType,
     AsyncType, JobType, JobOK, CallerType, Steps, Tasks, Idle, Calls, Keys, Workers
<1>2. ASSUME NEW c \in Async, ArmDeadline(c) PROVE OnceFor(d)'
  BY <1>2, SetsAssumption DEF ArmDeadline, Goto, EnsureCompletionSub, PostTimer,
     callState, conn, history, OnceInv, OnceFor, Winner, Untouched, EventsSent,
     Registries, HandleType, ConnType, AsyncType, JobType, JobOK, CallerType, Steps,
     Tasks, Idle, Calls, Keys, Workers
<1>3. ASSUME NEW c \in Async, Admit(c) PROVE OnceFor(d)'
  <2>1. CASE d # c
    <3>1. Untouched(d) => Untouched(d)'
      BY <1>3, <2>1 DEF Admit, Untouched, Job, Workers, JobType, handle, conn, asyncCall, timers
    <3>2. \A w \in Workers : Winner(w, d)' => Winner(w, d)
      BY <1>3, <2>1 DEF Admit, Winner, Job, Workers, JobType
    <3>3. pc'[d] = pc[d] /\ posted'[d] = posted[d] /\ delivered' = delivered
      BY <1>3, <2>1 DEF Admit, CallerType, Calls, asyncCall
    <3> QED
      BY <3>1, <3>2, <3>3 DEF OnceInv, OnceFor
  <2>2. CASE d = c
    <3>1. \A w \in Workers : Winner(w, d)' => Winner(w, d)
      BY <1>3, <2>2 DEF Admit, Winner, Job, Workers, JobType
    <3>2. pc[d] = "subscribed" /\ pc'[d] \in {"refused", "send"}
      BY <1>3, <2>2 DEF Admit, CallerType, Calls
    <3>3. posted'[d] = posted[d] /\ delivered' = delivered
      BY <1>3 DEF Admit, asyncCall
    <3> QED
      BY <3>1, <3>2, <3>3 DEF OnceInv, OnceFor
  <2> QED
    BY <2>1, <2>2
<1>4. ASSUME NEW c \in Async, SendAsync(c) PROVE OnceFor(d)'
  <2>1. CASE d # c
    <3>1. Untouched(d) => Untouched(d)'
      BY <1>4, <2>1 DEF SendAsync, Untouched, Job, Workers, JobType, callState, handle,
                        asyncCall, timers
    <3>2. \A w \in Workers : Winner(w, d)' => Winner(w, d)
      BY <1>4, <2>1 DEF SendAsync, Winner, Job, Workers, JobType
    <3>3. pc'[d] = pc[d] /\ posted'[d] = posted[d] /\ delivered' = delivered
      BY <1>4, <2>1 DEF SendAsync, Goto, CallerType, Calls, asyncCall
    <3> QED
      BY <3>1, <3>2, <3>3 DEF OnceInv, OnceFor
  <2>2. CASE d = c
    <3>1. \A w \in Workers : Winner(w, d)' => Winner(w, d)
      BY <1>4, <2>2 DEF SendAsync, Winner, Job, Workers, JobType
    <3>2. pc[d] = "send" /\ pc'[d] = "leave"
      BY <1>4, <2>2 DEF SendAsync, Goto, CallerType, Calls
    <3>3. posted'[d] = posted[d] /\ delivered' = delivered
      BY <1>4 DEF SendAsync, asyncCall
    <3> QED
      BY <3>1, <3>2, <3>3 DEF OnceInv, OnceFor
  <2> QED
    BY <2>1, <2>2
<1>5. ASSUME NEW c \in Async, IoReplyAsync(c) PROVE OnceFor(d)'
  BY <1>5, SetsAssumption DEF IoReplyAsync, Free, Reply, Job, callState, handle,
     asyncCall, callers, history, timers, OnceInv, OnceFor, Winner, Untouched,
     EventsSent, Registries, HandleType, ConnType, AsyncType, JobType, JobOK,
     CallerType, Steps, Tasks, Idle, Calls, Keys, Workers
<1>6. ASSUME NEW c \in Async, TimerTask(c) PROVE OnceFor(d)'
  BY <1>6, SetsAssumption DEF TimerTask, Free, Job, callState, handle, conn, callers,
     history, OnceInv, OnceFor, Winner, Untouched, EventsSent, Registries, HandleType,
     ConnType, AsyncType, JobType, JobOK, CallerType, Steps, Tasks, Idle, Calls, Keys,
     Workers
<1>7. ASSUME NEW c \in Async, Expire(c) PROVE OnceFor(d)'
  BY <1>7, SetsAssumption DEF Expire, PostTimer, callState, handle, conn, callers,
     history, OnceInv, OnceFor, Winner, Untouched, EventsSent, Registries, HandleType,
     ConnType, AsyncType, JobType, JobOK, CallerType, Steps, Tasks, Idle, Calls, Keys,
     Workers
<1>8. ASSUME NEW s \in Sync, EnterSync(s) PROVE OnceFor(d)'
  BY <1>8, SetsAssumption DEF EnterSync, MayEnter, callState, conn, asyncCall, history,
     timers, OnceInv, OnceFor, Winner, Untouched, EventsSent, Registries, HandleType,
     ConnType, AsyncType, JobType, JobOK, CallerType, Steps, Tasks, Idle, Calls, Keys,
     Workers
<1>9. ASSUME NEW s \in Sync, OpenScope(s) PROVE OnceFor(d)'
  BY <1>9, SetsAssumption DEF OpenScope, Goto, EnsureCompletionSub, conn, asyncCall,
     history, timers, OnceInv, OnceFor, Winner, Untouched, EventsSent, Registries,
     HandleType, ConnType, AsyncType, JobType, JobOK, CallerType, Steps, Tasks, Idle,
     Calls, Keys, Workers
<1>10. ASSUME NEW s \in Sync, SendSync(s) PROVE OnceFor(d)'
  BY <1>10, SetsAssumption DEF SendSync, Goto, callState, handle, asyncCall, history,
     timers, OnceInv, OnceFor, Winner, Untouched, EventsSent, Registries, HandleType,
     ConnType, AsyncType, JobType, JobOK, CallerType, Steps, Tasks, Idle, Calls, Keys,
     Workers
<1>11. ASSUME NEW s \in Sync, FutureReady(s) PROVE OnceFor(d)'
  BY <1>11, SetsAssumption DEF FutureReady, Goto, Conclude, callState, handle, conn,
     asyncCall, history, timers, OnceInv, OnceFor, Winner, Untouched, EventsSent,
     Registries, HandleType, ConnType, AsyncType, JobType, JobOK, CallerType, Steps,
     Tasks, Idle, Calls, Keys, Workers
<1>12. ASSUME NEW s \in Sync, FutureTimeout(s) PROVE OnceFor(d)'
  BY <1>12, SetsAssumption DEF FutureTimeout, Goto, Conclude, callState, handle,
     asyncCall, history, timers, OnceInv, OnceFor, Winner, Untouched, EventsSent,
     Registries, HandleType, ConnType, AsyncType, JobType, JobOK, CallerType, Steps,
     Tasks, Idle, Calls, Keys, Workers
<1>13. ASSUME NEW s \in Sync, AwaitCompletion(s) PROVE OnceFor(d)'
  BY <1>13, SetsAssumption DEF AwaitCompletion, Goto, Conclude, TakeCompletion, handle,
     conn, asyncCall, history, timers, OnceInv, OnceFor, Winner, Untouched, EventsSent,
     Registries, HandleType, ConnType, AsyncType, JobType, JobOK, CallerType, Steps,
     Tasks, Idle, Calls, Keys, Workers
<1>14. ASSUME NEW s \in Sync, CloseScope(s) PROVE OnceFor(d)'
  BY <1>14, SetsAssumption DEF CloseScope, Goto, DropUnclaimedIfIdle, handle, conn,
     asyncCall, history, timers, OnceInv, OnceFor, Winner, Untouched, EventsSent,
     Registries, HandleType, ConnType, AsyncType, JobType, JobOK, CallerType, Steps,
     Tasks, Idle, Calls, Keys, Workers
<1>15. ASSUME NEW s \in Sync, IoReplySync(s) PROVE OnceFor(d)'
  BY <1>15, SetsAssumption DEF IoReplySync, Free, Reply, callState, handle, asyncCall,
     history, timers, OnceInv, OnceFor, Winner, Untouched, EventsSent, Registries,
     HandleType, ConnType, AsyncType, JobType, JobOK, CallerType, Steps, Tasks, Idle,
     Calls, Keys, Workers
<1>16. ASSUME NEW c \in Calls, Leave(c) PROVE OnceFor(d)'
  BY <1>16, SetsAssumption DEF Leave, Free, DropReference, conn, asyncCall, history,
     timers, OnceInv, OnceFor, Winner, Untouched, EventsSent, Registries, HandleType,
     ConnType, AsyncType, JobType, JobOK, CallerType, Steps, Tasks, Idle, Calls, Keys,
     Workers
<1>17. ASSUME NEW c \in Calls, FailAnswer(c) PROVE OnceFor(d)'
  BY <1>17, SetsAssumption DEF FailAnswer, Free, Job, callState, handle, asyncCall,
     history, timers, OnceInv, OnceFor, Winner, Untouched, EventsSent, Registries,
     HandleType, ConnType, AsyncType, JobType, JobOK, CallerType, Steps, Tasks, Idle,
     Calls, Keys, Workers
<1>18. ASSUME NEW w \in Workers, DeliverLeave(w) PROVE OnceFor(d)'
  BY <1>18, SetsAssumption DEF DeliverLeave, DropUnclaimedIfIdle, callState, handle,
     conn, asyncCall, callers, history, timers, OnceInv, OnceFor, Winner, Untouched,
     EventsSent, Registries, HandleType, ConnType, AsyncType, JobType, JobOK,
     CallerType, Steps, Tasks, Idle, Calls, Keys, Workers
<1>19. ASSUME NEW w \in Workers, DeliverClaim(w) PROVE OnceFor(d)'
  <2>1. Untouched(d) => Untouched(d)'
    BY <1>19, SetsAssumption DEF DeliverClaim, Untouched, Idle, Keys, Calls, JobType, callState,
                                 handle, conn, timers
  <2>2. pc' = pc /\ posted' = posted
    BY <1>19 DEF DeliverClaim, callers
  <2>3. CASE job[w].call \in delivered
    <3>1. delivered' = delivered /\ \A v \in Workers : Winner(v, d)' => Winner(v, d)
      BY <1>19, <2>3, SetsAssumption DEF DeliverClaim, Winner, Idle, JobType
    <3> QED
      BY <3>1, <2>1, <2>2 DEF OnceInv, OnceFor
  <2>4. CASE job[w].call \notin delivered
    <3>1. delivered' = delivered \cup {job[w].call}
      BY <1>19, <2>4 DEF DeliverClaim
    <3>2. CASE job[w].call # d
      <4>1. \A v \in Workers : Winner(v, d)' => Winner(v, d)
        BY <1>19, <2>4, <3>2 DEF DeliverClaim, Winner, JobType
      <4> QED
        BY <4>1, <3>1, <3>2, <2>1, <2>2 DEF OnceInv, OnceFor
    <3>3. CASE job[w].call = d
      <4>1. d \notin delivered /\ ~Untouched(d)
        BY <2>4, <3>3 DEF Untouched
      <4>2. \A v \in Workers : ~Winner(v, d)
        BY <4>1 DEF OnceInv, OnceFor
      <4>3. \A v \in Workers : Winner(v, d)' => v = w
        BY <1>19, <2>4, <4>2 DEF DeliverClaim, Winner, JobType
      <4>4. posted[d] = 0 /\ pc[d] # "idle"
        BY <4>1 DEF OnceInv, OnceFor
      <4> QED
        BY <4>3, <4>4, <3>1, <3>3, <2>2 DEF OnceFor
    <3> QED
      BY <3>2, <3>3
  <2> QED
    BY <2>3, <2>4
<1>20. ASSUME NEW w \in Workers, DeliverWithdraw(w) PROVE OnceFor(d)'
  BY <1>20, SetsAssumption DEF DeliverWithdraw, callState, handle, asyncCall, callers,
     history, timers, OnceInv, OnceFor, Winner, Untouched, EventsSent, Registries,
     HandleType, ConnType, AsyncType, JobType, JobOK, CallerType, Steps, Tasks, Idle,
     Calls, Keys, Workers
<1>21. ASSUME NEW w \in Workers, DeliverPost(w) PROVE OnceFor(d)'
  BY <1>21, SetsAssumption DEF DeliverPost, PostTimer, callState, handle, conn, history,
     OnceInv, OnceFor, Winner, Untouched, EventsSent, Registries, HandleType, ConnType,
     AsyncType, JobType, JobOK, CallerType, Steps, Tasks, Idle, Calls, Keys, Workers
<1>22. ASSUME NEW k \in Keys, IoEvent(k) PROVE OnceFor(d)'
  BY <1>22, SetsAssumption DEF IoEvent, Free, Emittable, Job, callState, handle,
     asyncCall, callers, history, timers, OnceInv, OnceFor, Winner, Untouched,
     EventsSent, Registries, HandleType, ConnType, AsyncType, JobType, JobOK,
     CallerType, Steps, Tasks, Idle, Calls, Keys, Workers
<1>23. ASSUME SentinelCheck PROVE OnceFor(d)'
  BY <1>23, SetsAssumption DEF SentinelCheck, Job, callState, handle, conn, asyncCall,
     callers, history, timers, OnceInv, OnceFor, Winner, Untouched, EventsSent,
     Registries, HandleType, ConnType, AsyncType, JobType, JobOK, CallerType, Steps,
     Tasks, Idle, Calls, Keys, Workers
<1>24. ASSUME FileDeferred PROVE OnceFor(d)'
  BY <1>24, SetsAssumption DEF FileDeferred, Job, TakeCompletion, handle, conn, timers,
     callers, history, OnceInv, OnceFor, Winner, Untouched, EventsSent, Registries,
     HandleType, ConnType, AsyncType, JobType, JobOK, CallerType, Steps, Tasks, Idle,
     Calls, Keys, Workers
<1>25. ASSUME Rearm PROVE OnceFor(d)'
  BY <1>25, SetsAssumption DEF Rearm, PostTimer, callState, handle, conn, callers,
     history, OnceInv, OnceFor, Winner, Untouched, EventsSent, Registries, HandleType,
     ConnType, AsyncType, JobType, JobOK, CallerType, Steps, Tasks, Idle, Calls, Keys,
     Workers
<1>26. ASSUME HandleEvent PROVE OnceFor(d)'
  BY <1>26, SetsAssumption DEF HandleEvent, Job, ParkCompletion, handle, conn,
     asyncCall, callers, history, timers, OnceInv, OnceFor, Winner, Untouched,
     EventsSent, Registries, HandleType, ConnType, AsyncType, JobType, JobOK,
     CallerType, Steps, Tasks, Idle, Calls, Keys, Workers
<1>27. ASSUME FailConnection PROVE OnceFor(d)'
  BY <1>27, SetsAssumption DEF FailConnection, callState, handle, asyncCall, callers,
     history, timers, OnceInv, OnceFor, Winner, Untouched, EventsSent, Registries,
     HandleType, ConnType, AsyncType, JobType, JobOK, CallerType, Steps, Tasks, Idle,
     Calls, Keys, Workers
<1>28. ASSUME DisconnectEvents PROVE OnceFor(d)'
  BY <1>28, SetsAssumption DEF DisconnectEvents, callState, conn, asyncCall, callers,
     history, timers, OnceInv, OnceFor, Winner, Untouched, EventsSent, Registries,
     HandleType, ConnType, AsyncType, JobType, JobOK, CallerType, Steps, Tasks, Idle,
     Calls, Keys, Workers
<1>29. ASSUME ReleaseDisconnect PROVE OnceFor(d)'
  BY <1>29, SetsAssumption DEF ReleaseDisconnect, callState, conn, asyncCall, callers,
     history, timers, OnceInv, OnceFor, Winner, Untouched, EventsSent, Registries,
     HandleType, ConnType, AsyncType, JobType, JobOK, CallerType, Steps, Tasks, Idle,
     Calls, Keys, Workers
<1>30. ASSUME ReleaseStop PROVE OnceFor(d)'
  BY <1>30, SetsAssumption DEF ReleaseStop, conn, asyncCall, callers, history, timers,
     OnceInv, OnceFor, Winner, Untouched, EventsSent, Registries, HandleType, ConnType,
     AsyncType, JobType, JobOK, CallerType, Steps, Tasks, Idle, Calls, Keys, Workers
<1>31. ASSUME NEW c \in Async, ReleaseCancel(c) PROVE OnceFor(d)'
  BY <1>31, SetsAssumption DEF ReleaseCancel, Free, Job, callState, conn, asyncCall,
     callers, history, timers, OnceInv, OnceFor, Winner, Untouched, EventsSent,
     Registries, HandleType, ConnType, AsyncType, JobType, JobOK, CallerType, Steps,
     Tasks, Idle, Calls, Keys, Workers
<1>32. ASSUME ReleaseDrop PROVE OnceFor(d)'
  BY <1>32, SetsAssumption DEF ReleaseDrop, Free, DropReference, conn, asyncCall,
     callers, history, timers, OnceInv, OnceFor, Winner, Untouched, EventsSent,
     Registries, HandleType, ConnType, AsyncType, JobType, JobOK, CallerType, Steps,
     Tasks, Idle, Calls, Keys, Workers
<1>33. ASSUME UNCHANGED vars PROVE OnceFor(d)'
  BY <1>33 DEF vars, callState, handle, conn, asyncCall, timers, callers, OnceInv, OnceFor,
               Winner, Untouched
<1> QED
  BY <1>1, <1>2, <1>3, <1>4, <1>5, <1>6, <1>7, <1>8, <1>9, <1>10, <1>11, <1>12, <1>13,
     <1>14, <1>15, <1>16, <1>17, <1>18, <1>19, <1>20, <1>21, <1>22, <1>23, <1>24, <1>25,
     <1>26, <1>27, <1>28, <1>29, <1>30, <1>31, <1>32, <1>33 DEF Next, AsyncStep,
     SyncStep, DeliverStep, HandlerStep, ReleaseStep

-----------------------------------------------------------------------------
(* Completions.                                                            *)

\* A call that was sent and is not resolved counts as in flight, so that the
\* queue is not dropped under it, until a worker is about to claim it.
Claimed(c) == \E w \in Workers : job[w].call = c /\ job[w].step = "claim"
SentInFlight ==
  ~stopping => \A c \in Async \ delivered :
                 pc[c] = "send" \/ c \in sent => c \in inflight \/ Claimed(c)

\* A synchronous call is counted while it waits, and sent no earlier.
ScopeCounts ==
  \A s \in Sync : /\ s \in syncOut <=> pc[s] \in {"send", "wait", "await", "scope"}
                  /\ pc[s] \in {"idle", "entered", "send"} => s \notin sent

\* The three parts of CompletionNotLost.
Held(c) == Contains(parked, c) \/ \E w \in Workers : Carries(w, c)
AsyncKept == ~stopping => \A c \in (arrived \cap Async) \ (delivered \cup evicted) : Held(c)
SyncKept ==
  ~stopping => \A s \in (arrived \cap Sync) \ evicted :
                 pc[s] \in {"wait", "await"} => Contains(parked, s)
FiledNotParked == ~stopping => \A c \in deferred : ~Contains(parked, c)

\* A handler of the I/O thread carries no result before it delivers one.
NothingYet == job["io"].step \in {"sentinel", "file", "rearm", "event"} => job["io"].how = "none"

\* A caller's own thread delivers its call only where callAsync does so.
OwnThread == \A c \in Async : job[c] # Idle => pc[c] \in {"refused", "leave"}

KeptInv ==
  /\ EventsSent /\ SentInFlight /\ ScopeCounts /\ NothingYet /\ OwnThread
  /\ AsyncKept /\ SyncKept /\ FiledNotParked

\* Every step keeps ScopeCounts.
LEMMA ScopeCountsStep == TypeOK /\ ScopeCounts /\ [Next]_vars => ScopeCounts'
<1> SUFFICES ASSUME TypeOK, ScopeCounts, [Next]_vars PROVE ScopeCounts'
  OBVIOUS
<1> USE DEF TypeOK
<1>1. ASSUME NEW c \in Async, EnterAsync(c) PROVE ScopeCounts'
  BY <1>1, SetsAssumption DEF EnterAsync, MayEnter, callState, conn, timers, history,
     ScopeCounts, Registries, ConnType, CallerType, Places, Calls
<1>2. ASSUME NEW c \in Async, ArmDeadline(c) PROVE ScopeCounts'
  BY <1>2, SetsAssumption DEF ArmDeadline, Goto, EnsureCompletionSub, PostTimer,
     callState, conn, history, ScopeCounts, Registries, ConnType, CallerType, Places,
     Calls
<1>3. ASSUME NEW c \in Async, Admit(c) PROVE ScopeCounts'
  BY <1>3, SetsAssumption DEF Admit, Job, handle, conn, asyncCall, history, timers,
     ScopeCounts, Registries, ConnType, CallerType, Places, Calls
<1>4. ASSUME NEW c \in Async, SendAsync(c) PROVE ScopeCounts'
  BY <1>4, SetsAssumption DEF SendAsync, Goto, Job, callState, handle, asyncCall,
     history, timers, ScopeCounts, Registries, ConnType, CallerType, Places, Calls
<1>5. ASSUME NEW c \in Async, IoReplyAsync(c) PROVE ScopeCounts'
  BY <1>5, SetsAssumption DEF IoReplyAsync, Free, Reply, Job, callState, handle,
     asyncCall, callers, history, timers, ScopeCounts, Registries, ConnType, CallerType,
     Places, Calls
<1>6. ASSUME NEW c \in Async, TimerTask(c) PROVE ScopeCounts'
  BY <1>6, SetsAssumption DEF TimerTask, Free, Job, callState, handle, conn, callers,
     history, ScopeCounts, Registries, ConnType, CallerType, Places, Calls
<1>7. ASSUME NEW c \in Async, Expire(c) PROVE ScopeCounts'
  BY <1>7, SetsAssumption DEF Expire, PostTimer, callState, handle, conn, callers,
     history, ScopeCounts, Registries, ConnType, CallerType, Places, Calls
<1>8. ASSUME NEW s \in Sync, EnterSync(s) PROVE ScopeCounts'
  BY <1>8, SetsAssumption DEF EnterSync, MayEnter, callState, conn, asyncCall, history,
     timers, ScopeCounts, Registries, ConnType, CallerType, Places, Calls
<1>9. ASSUME NEW s \in Sync, OpenScope(s) PROVE ScopeCounts'
  BY <1>9, SetsAssumption DEF OpenScope, Goto, EnsureCompletionSub, conn, asyncCall,
     history, timers, ScopeCounts, Registries, ConnType, CallerType, Places, Calls
<1>10. ASSUME NEW s \in Sync, SendSync(s) PROVE ScopeCounts'
  BY <1>10, SetsAssumption DEF SendSync, Goto, callState, handle, asyncCall, history,
     timers, ScopeCounts, Registries, ConnType, CallerType, Places, Calls
<1>11. ASSUME NEW s \in Sync, FutureReady(s) PROVE ScopeCounts'
  BY <1>11, SetsAssumption DEF FutureReady, Goto, Conclude, callState, handle, conn,
     asyncCall, history, timers, ScopeCounts, Registries, ConnType, CallerType, Places,
     Calls
<1>12. ASSUME NEW s \in Sync, FutureTimeout(s) PROVE ScopeCounts'
  BY <1>12, SetsAssumption DEF FutureTimeout, Goto, Conclude, callState, handle,
     asyncCall, history, timers, ScopeCounts, Registries, ConnType, CallerType, Places,
     Calls
<1>13. ASSUME NEW s \in Sync, AwaitCompletion(s) PROVE ScopeCounts'
  BY <1>13, SetsAssumption DEF AwaitCompletion, Goto, Conclude, TakeCompletion, handle,
     conn, asyncCall, history, timers, ScopeCounts, Registries, ConnType, CallerType,
     Places, Calls
<1>14. ASSUME NEW s \in Sync, CloseScope(s) PROVE ScopeCounts'
  BY <1>14, SetsAssumption DEF CloseScope, Goto, DropUnclaimedIfIdle, handle, conn,
     asyncCall, history, timers, ScopeCounts, Registries, ConnType, CallerType, Places,
     Calls
<1>15. ASSUME NEW s \in Sync, IoReplySync(s) PROVE ScopeCounts'
  BY <1>15, SetsAssumption DEF IoReplySync, Free, Reply, callState, handle, asyncCall,
     history, timers, ScopeCounts, Registries, ConnType, CallerType, Places, Calls
<1>16. ASSUME NEW c \in Calls, Leave(c) PROVE ScopeCounts'
  BY <1>16, SetsAssumption DEF Leave, Free, DropReference, conn, asyncCall, history,
     timers, ScopeCounts, Registries, ConnType, CallerType, Places, Calls
<1>17. ASSUME NEW c \in Calls, FailAnswer(c) PROVE ScopeCounts'
  BY <1>17, SetsAssumption DEF FailAnswer, Free, Job, callState, handle, asyncCall,
     history, timers, ScopeCounts, Registries, ConnType, CallerType, Places, Calls
<1>18. ASSUME NEW w \in Workers, DeliverLeave(w) PROVE ScopeCounts'
  BY <1>18, SetsAssumption DEF DeliverLeave, DropUnclaimedIfIdle, callState, handle,
     conn, asyncCall, callers, history, timers, ScopeCounts, Registries, ConnType,
     CallerType, Places, Calls
<1>19. ASSUME NEW w \in Workers, DeliverClaim(w) PROVE ScopeCounts'
  BY <1>19, SetsAssumption DEF DeliverClaim, callState, handle, conn, timers, callers,
     history, ScopeCounts, Registries, ConnType, CallerType, Places, Calls
<1>20. ASSUME NEW w \in Workers, DeliverWithdraw(w) PROVE ScopeCounts'
  BY <1>20, SetsAssumption DEF DeliverWithdraw, callState, handle, asyncCall, callers,
     history, timers, ScopeCounts, Registries, ConnType, CallerType, Places, Calls
<1>21. ASSUME NEW w \in Workers, DeliverPost(w) PROVE ScopeCounts'
  BY <1>21, SetsAssumption DEF DeliverPost, PostTimer, callState, handle, conn, history,
     ScopeCounts, Registries, ConnType, CallerType, Places, Calls
<1>22. ASSUME NEW k \in Keys, IoEvent(k) PROVE ScopeCounts'
  BY <1>22, SetsAssumption DEF IoEvent, Free, Emittable, Job, callState, handle,
     asyncCall, callers, history, timers, ScopeCounts, Registries, ConnType, CallerType,
     Places, Calls
<1>23. ASSUME SentinelCheck PROVE ScopeCounts'
  BY <1>23, SetsAssumption DEF SentinelCheck, Job, callState, handle, conn, asyncCall,
     callers, history, timers, ScopeCounts, Registries, ConnType, CallerType, Places,
     Calls
<1>24. ASSUME FileDeferred PROVE ScopeCounts'
  BY <1>24, SetsAssumption DEF FileDeferred, Job, TakeCompletion, handle, conn, timers,
     callers, history, ScopeCounts, Registries, ConnType, CallerType, Places, Calls
<1>25. ASSUME Rearm PROVE ScopeCounts'
  BY <1>25, SetsAssumption DEF Rearm, PostTimer, callState, handle, conn, callers,
     history, ScopeCounts, Registries, ConnType, CallerType, Places, Calls
<1>26. ASSUME HandleEvent PROVE ScopeCounts'
  BY <1>26, SetsAssumption DEF HandleEvent, Job, ParkCompletion, handle, conn,
     asyncCall, callers, history, timers, ScopeCounts, Registries, ConnType, CallerType,
     Places, Calls
<1>27. ASSUME FailConnection PROVE ScopeCounts'
  BY <1>27, SetsAssumption DEF FailConnection, callState, handle, asyncCall, callers,
     history, timers, ScopeCounts, Registries, ConnType, CallerType, Places, Calls
<1>28. ASSUME DisconnectEvents PROVE ScopeCounts'
  BY <1>28, SetsAssumption DEF DisconnectEvents, callState, conn, asyncCall, callers,
     history, timers, ScopeCounts, Registries, ConnType, CallerType, Places, Calls
<1>29. ASSUME ReleaseDisconnect PROVE ScopeCounts'
  BY <1>29, SetsAssumption DEF ReleaseDisconnect, callState, conn, asyncCall, callers,
     history, timers, ScopeCounts, Registries, ConnType, CallerType, Places, Calls
<1>30. ASSUME ReleaseStop PROVE ScopeCounts'
  BY <1>30, SetsAssumption DEF ReleaseStop, conn, asyncCall, callers, history, timers,
     ScopeCounts, Registries, ConnType, CallerType, Places, Calls
<1>31. ASSUME NEW c \in Async, ReleaseCancel(c) PROVE ScopeCounts'
  BY <1>31, SetsAssumption DEF ReleaseCancel, Free, Job, callState, conn, asyncCall,
     callers, history, timers, ScopeCounts, Registries, ConnType, CallerType, Places,
     Calls
<1>32. ASSUME ReleaseDrop PROVE ScopeCounts'
  BY <1>32, SetsAssumption DEF ReleaseDrop, Free, DropReference, conn, asyncCall,
     callers, history, timers, ScopeCounts, Registries, ConnType, CallerType, Places,
     Calls
<1>33. ASSUME UNCHANGED vars PROVE ScopeCounts'
  BY <1>33 DEF vars, callState, handle, conn, asyncCall, timers, callers, history,
     ScopeCounts
<1> QED
  BY <1>1, <1>2, <1>3, <1>4, <1>5, <1>6, <1>7, <1>8, <1>9, <1>10, <1>11, <1>12, <1>13,
     <1>14, <1>15, <1>16, <1>17, <1>18, <1>19, <1>20, <1>21, <1>22, <1>23, <1>24, <1>25,
     <1>26, <1>27, <1>28, <1>29, <1>30, <1>31, <1>32, <1>33 DEF Next, AsyncStep,
     SyncStep, DeliverStep, HandlerStep, ReleaseStep

\* Every step keeps NothingYet.
LEMMA NothingYetStep == TypeOK /\ NothingYet /\ [Next]_vars => NothingYet'
<1> SUFFICES ASSUME TypeOK, NothingYet, [Next]_vars PROVE NothingYet'
  OBVIOUS
<1> USE DEF TypeOK
<1>1. ASSUME NEW c \in Async, EnterAsync(c) PROVE NothingYet'
  BY <1>1, SetsAssumption DEF EnterAsync, MayEnter, callState, conn, timers, history,
     NothingYet, JobType, JobOK, Steps, Idle, Workers
<1>2. ASSUME NEW c \in Async, ArmDeadline(c) PROVE NothingYet'
  BY <1>2, SetsAssumption DEF ArmDeadline, Goto, EnsureCompletionSub, PostTimer,
     callState, conn, history, NothingYet, JobType, JobOK, Steps, Idle, Workers
<1>3. ASSUME NEW c \in Async, Admit(c) PROVE NothingYet'
  BY <1>3, SetsAssumption DEF Admit, Job, handle, conn, asyncCall, history, timers,
     NothingYet, JobType, JobOK, Steps, Idle, Workers
<1>4. ASSUME NEW c \in Async, SendAsync(c) PROVE NothingYet'
  BY <1>4, SetsAssumption DEF SendAsync, Goto, Job, callState, handle, asyncCall,
     history, timers, NothingYet, JobType, JobOK, Steps, Idle, Workers
<1>5. ASSUME NEW c \in Async, IoReplyAsync(c) PROVE NothingYet'
  BY <1>5, SetsAssumption DEF IoReplyAsync, Free, Reply, Job, callState, handle,
     asyncCall, callers, history, timers, NothingYet, JobType, JobOK, Steps, Idle,
     Workers
<1>6. ASSUME NEW c \in Async, TimerTask(c) PROVE NothingYet'
  BY <1>6, SetsAssumption DEF TimerTask, Free, Job, callState, handle, conn, callers,
     history, NothingYet, JobType, JobOK, Steps, Idle, Workers
<1>7. ASSUME NEW c \in Async, Expire(c) PROVE NothingYet'
  BY <1>7, SetsAssumption DEF Expire, PostTimer, callState, handle, conn, callers,
     history, NothingYet, JobType, JobOK, Steps, Idle, Workers
<1>8. ASSUME NEW s \in Sync, EnterSync(s) PROVE NothingYet'
  BY <1>8, SetsAssumption DEF EnterSync, MayEnter, callState, conn, asyncCall, history,
     timers, NothingYet, JobType, JobOK, Steps, Idle, Workers
<1>9. ASSUME NEW s \in Sync, OpenScope(s) PROVE NothingYet'
  BY <1>9, SetsAssumption DEF OpenScope, Goto, EnsureCompletionSub, conn, asyncCall,
     history, timers, NothingYet, JobType, JobOK, Steps, Idle, Workers
<1>10. ASSUME NEW s \in Sync, SendSync(s) PROVE NothingYet'
  BY <1>10, SetsAssumption DEF SendSync, Goto, callState, handle, asyncCall, history,
     timers, NothingYet, JobType, JobOK, Steps, Idle, Workers
<1>11. ASSUME NEW s \in Sync, FutureReady(s) PROVE NothingYet'
  BY <1>11, SetsAssumption DEF FutureReady, Goto, Conclude, callState, handle, conn,
     asyncCall, history, timers, NothingYet, JobType, JobOK, Steps, Idle, Workers
<1>12. ASSUME NEW s \in Sync, FutureTimeout(s) PROVE NothingYet'
  BY <1>12, SetsAssumption DEF FutureTimeout, Goto, Conclude, callState, handle,
     asyncCall, history, timers, NothingYet, JobType, JobOK, Steps, Idle, Workers
<1>13. ASSUME NEW s \in Sync, AwaitCompletion(s) PROVE NothingYet'
  BY <1>13, SetsAssumption DEF AwaitCompletion, Goto, Conclude, TakeCompletion, handle,
     conn, asyncCall, history, timers, NothingYet, JobType, JobOK, Steps, Idle, Workers
<1>14. ASSUME NEW s \in Sync, CloseScope(s) PROVE NothingYet'
  BY <1>14, SetsAssumption DEF CloseScope, Goto, DropUnclaimedIfIdle, handle, conn,
     asyncCall, history, timers, NothingYet, JobType, JobOK, Steps, Idle, Workers
<1>15. ASSUME NEW s \in Sync, IoReplySync(s) PROVE NothingYet'
  BY <1>15, SetsAssumption DEF IoReplySync, Free, Reply, callState, handle, asyncCall,
     history, timers, NothingYet, JobType, JobOK, Steps, Idle, Workers
<1>16. ASSUME NEW c \in Calls, Leave(c) PROVE NothingYet'
  BY <1>16, SetsAssumption DEF Leave, Free, DropReference, conn, asyncCall, history,
     timers, NothingYet, JobType, JobOK, Steps, Idle, Workers
<1>17. ASSUME NEW c \in Calls, FailAnswer(c) PROVE NothingYet'
  BY <1>17, SetsAssumption DEF FailAnswer, Free, Job, callState, handle, asyncCall,
     history, timers, NothingYet, JobType, JobOK, Steps, Idle, Workers
<1>18. ASSUME NEW w \in Workers, DeliverLeave(w) PROVE NothingYet'
  BY <1>18, SetsAssumption DEF DeliverLeave, DropUnclaimedIfIdle, callState, handle,
     conn, asyncCall, callers, history, timers, NothingYet, JobType, JobOK, Steps, Idle,
     Workers
<1>19. ASSUME NEW w \in Workers, DeliverClaim(w) PROVE NothingYet'
  BY <1>19, SetsAssumption DEF DeliverClaim, callState, handle, conn, timers, callers,
     history, NothingYet, JobType, JobOK, Steps, Idle, Workers
<1>20. ASSUME NEW w \in Workers, DeliverWithdraw(w) PROVE NothingYet'
  BY <1>20, SetsAssumption DEF DeliverWithdraw, callState, handle, asyncCall, callers,
     history, timers, NothingYet, JobType, JobOK, Steps, Idle, Workers
<1>21. ASSUME NEW w \in Workers, DeliverPost(w) PROVE NothingYet'
  BY <1>21, SetsAssumption DEF DeliverPost, PostTimer, callState, handle, conn, history,
     NothingYet, JobType, JobOK, Steps, Idle, Workers
<1>22. ASSUME NEW k \in Keys, IoEvent(k) PROVE NothingYet'
  BY <1>22, SetsAssumption DEF IoEvent, Free, Emittable, Job, callState, handle,
     asyncCall, callers, history, timers, NothingYet, JobType, JobOK, Steps, Idle,
     Workers
<1>23. ASSUME SentinelCheck PROVE NothingYet'
  BY <1>23, SetsAssumption DEF SentinelCheck, Job, callState, handle, conn, asyncCall,
     callers, history, timers, NothingYet, JobType, JobOK, Steps, Idle, Workers
<1>24. ASSUME FileDeferred PROVE NothingYet'
  BY <1>24, SetsAssumption DEF FileDeferred, Job, TakeCompletion, handle, conn, timers,
     callers, history, NothingYet, JobType, JobOK, Steps, Idle, Workers
<1>25. ASSUME Rearm PROVE NothingYet'
  BY <1>25, SetsAssumption DEF Rearm, PostTimer, callState, handle, conn, callers,
     history, NothingYet, JobType, JobOK, Steps, Idle, Workers
<1>26. ASSUME HandleEvent PROVE NothingYet'
  BY <1>26, SetsAssumption DEF HandleEvent, Job, ParkCompletion, handle, conn,
     asyncCall, callers, history, timers, NothingYet, JobType, JobOK, Steps, Idle,
     Workers
<1>27. ASSUME FailConnection PROVE NothingYet'
  BY <1>27, SetsAssumption DEF FailConnection, callState, handle, asyncCall, callers,
     history, timers, NothingYet, JobType, JobOK, Steps, Idle, Workers
<1>28. ASSUME DisconnectEvents PROVE NothingYet'
  BY <1>28, SetsAssumption DEF DisconnectEvents, callState, conn, asyncCall, callers,
     history, timers, NothingYet, JobType, JobOK, Steps, Idle, Workers
<1>29. ASSUME ReleaseDisconnect PROVE NothingYet'
  BY <1>29, SetsAssumption DEF ReleaseDisconnect, callState, conn, asyncCall, callers,
     history, timers, NothingYet, JobType, JobOK, Steps, Idle, Workers
<1>30. ASSUME ReleaseStop PROVE NothingYet'
  BY <1>30, SetsAssumption DEF ReleaseStop, conn, asyncCall, callers, history, timers,
     NothingYet, JobType, JobOK, Steps, Idle, Workers
<1>31. ASSUME NEW c \in Async, ReleaseCancel(c) PROVE NothingYet'
  BY <1>31, SetsAssumption DEF ReleaseCancel, Free, Job, callState, conn, asyncCall,
     callers, history, timers, NothingYet, JobType, JobOK, Steps, Idle, Workers
<1>32. ASSUME ReleaseDrop PROVE NothingYet'
  BY <1>32, SetsAssumption DEF ReleaseDrop, Free, DropReference, conn, asyncCall,
     callers, history, timers, NothingYet, JobType, JobOK, Steps, Idle, Workers
<1>33. ASSUME UNCHANGED vars PROVE NothingYet'
  BY <1>33 DEF vars, callState, handle, conn, asyncCall, timers, callers, history,
     NothingYet
<1> QED
  BY <1>1, <1>2, <1>3, <1>4, <1>5, <1>6, <1>7, <1>8, <1>9, <1>10, <1>11, <1>12, <1>13,
     <1>14, <1>15, <1>16, <1>17, <1>18, <1>19, <1>20, <1>21, <1>22, <1>23, <1>24, <1>25,
     <1>26, <1>27, <1>28, <1>29, <1>30, <1>31, <1>32, <1>33 DEF Next, AsyncStep,
     SyncStep, DeliverStep, HandlerStep, ReleaseStep

\* Every step keeps OwnThread.
LEMMA OwnThreadStep == TypeOK /\ OwnThread /\ [Next]_vars => OwnThread'
<1> SUFFICES ASSUME TypeOK, OwnThread, [Next]_vars PROVE OwnThread'
  OBVIOUS
<1> USE DEF TypeOK
<1>1. ASSUME NEW c \in Async, EnterAsync(c) PROVE OwnThread'
  BY <1>1, SetsAssumption DEF EnterAsync, MayEnter, callState, conn, timers, history,
     OwnThread, JobType, JobOK, CallerType, Steps, Idle, Calls, Workers
<1>2. ASSUME NEW c \in Async, ArmDeadline(c) PROVE OwnThread'
  BY <1>2, SetsAssumption DEF ArmDeadline, Goto, EnsureCompletionSub, PostTimer,
     callState, conn, history, OwnThread, JobType, JobOK, CallerType, Steps, Idle,
     Calls, Workers
<1>3. ASSUME NEW c \in Async, Admit(c) PROVE OwnThread'
  BY <1>3, SetsAssumption DEF Admit, Job, handle, conn, asyncCall, history, timers,
     OwnThread, JobType, JobOK, CallerType, Steps, Idle, Calls, Workers
<1>4. ASSUME NEW c \in Async, SendAsync(c) PROVE OwnThread'
  BY <1>4, SetsAssumption DEF SendAsync, Goto, Job, callState, handle, asyncCall,
     history, timers, OwnThread, JobType, JobOK, CallerType, Steps, Idle, Calls, Workers
<1>5. ASSUME NEW c \in Async, IoReplyAsync(c) PROVE OwnThread'
  BY <1>5, SetsAssumption DEF IoReplyAsync, Free, Reply, Job, callState, handle,
     asyncCall, callers, history, timers, OwnThread, JobType, JobOK, CallerType, Steps,
     Idle, Calls, Workers
<1>6. ASSUME NEW c \in Async, TimerTask(c) PROVE OwnThread'
  BY <1>6, SetsAssumption DEF TimerTask, Free, Job, callState, handle, conn, callers,
     history, OwnThread, JobType, JobOK, CallerType, Steps, Idle, Calls, Workers
<1>7. ASSUME NEW c \in Async, Expire(c) PROVE OwnThread'
  BY <1>7, SetsAssumption DEF Expire, PostTimer, callState, handle, conn, callers,
     history, OwnThread, JobType, JobOK, CallerType, Steps, Idle, Calls, Workers
<1>8. ASSUME NEW s \in Sync, EnterSync(s) PROVE OwnThread'
  BY <1>8, SetsAssumption DEF EnterSync, MayEnter, callState, conn, asyncCall, history,
     timers, OwnThread, JobType, JobOK, CallerType, Steps, Idle, Calls, Workers
<1>9. ASSUME NEW s \in Sync, OpenScope(s) PROVE OwnThread'
  BY <1>9, SetsAssumption DEF OpenScope, Goto, EnsureCompletionSub, conn, asyncCall,
     history, timers, OwnThread, JobType, JobOK, CallerType, Steps, Idle, Calls, Workers
<1>10. ASSUME NEW s \in Sync, SendSync(s) PROVE OwnThread'
  BY <1>10, SetsAssumption DEF SendSync, Goto, callState, handle, asyncCall, history,
     timers, OwnThread, JobType, JobOK, CallerType, Steps, Idle, Calls, Workers
<1>11. ASSUME NEW s \in Sync, FutureReady(s) PROVE OwnThread'
  BY <1>11, SetsAssumption DEF FutureReady, Goto, Conclude, callState, handle, conn,
     asyncCall, history, timers, OwnThread, JobType, JobOK, CallerType, Steps, Idle,
     Calls, Workers
<1>12. ASSUME NEW s \in Sync, FutureTimeout(s) PROVE OwnThread'
  BY <1>12, SetsAssumption DEF FutureTimeout, Goto, Conclude, callState, handle,
     asyncCall, history, timers, OwnThread, JobType, JobOK, CallerType, Steps, Idle,
     Calls, Workers
<1>13. ASSUME NEW s \in Sync, AwaitCompletion(s) PROVE OwnThread'
  BY <1>13, SetsAssumption DEF AwaitCompletion, Goto, Conclude, TakeCompletion, handle,
     conn, asyncCall, history, timers, OwnThread, JobType, JobOK, CallerType, Steps,
     Idle, Calls, Workers
<1>14. ASSUME NEW s \in Sync, CloseScope(s) PROVE OwnThread'
  BY <1>14, SetsAssumption DEF CloseScope, Goto, DropUnclaimedIfIdle, handle, conn,
     asyncCall, history, timers, OwnThread, JobType, JobOK, CallerType, Steps, Idle,
     Calls, Workers
<1>15. ASSUME NEW s \in Sync, IoReplySync(s) PROVE OwnThread'
  BY <1>15, SetsAssumption DEF IoReplySync, Free, Reply, callState, handle, asyncCall,
     history, timers, OwnThread, JobType, JobOK, CallerType, Steps, Idle, Calls, Workers
<1>16. ASSUME NEW c \in Calls, Leave(c) PROVE OwnThread'
  BY <1>16, SetsAssumption DEF Leave, Free, DropReference, conn, asyncCall, history,
     timers, OwnThread, JobType, JobOK, CallerType, Steps, Idle, Calls, Workers
<1>17. ASSUME NEW c \in Calls, FailAnswer(c) PROVE OwnThread'
  BY <1>17, SetsAssumption DEF FailAnswer, Free, Job, callState, handle, asyncCall,
     history, timers, OwnThread, JobType, JobOK, CallerType, Steps, Idle, Calls, Workers
<1>18. ASSUME NEW w \in Workers, DeliverLeave(w) PROVE OwnThread'
  BY <1>18, SetsAssumption DEF DeliverLeave, DropUnclaimedIfIdle, callState, handle,
     conn, asyncCall, callers, history, timers, OwnThread, JobType, JobOK, CallerType,
     Steps, Idle, Calls, Workers
<1>19. ASSUME NEW w \in Workers, DeliverClaim(w) PROVE OwnThread'
  BY <1>19, SetsAssumption DEF DeliverClaim, callState, handle, conn, timers, callers,
     history, OwnThread, JobType, JobOK, CallerType, Steps, Idle, Calls, Workers
<1>20. ASSUME NEW w \in Workers, DeliverWithdraw(w) PROVE OwnThread'
  BY <1>20, SetsAssumption DEF DeliverWithdraw, callState, handle, asyncCall, callers,
     history, timers, OwnThread, JobType, JobOK, CallerType, Steps, Idle, Calls, Workers
<1>21. ASSUME NEW w \in Workers, DeliverPost(w) PROVE OwnThread'
  BY <1>21, SetsAssumption DEF DeliverPost, PostTimer, callState, handle, conn, history,
     OwnThread, JobType, JobOK, CallerType, Steps, Idle, Calls, Workers
<1>22. ASSUME NEW k \in Keys, IoEvent(k) PROVE OwnThread'
  BY <1>22, SetsAssumption DEF IoEvent, Free, Emittable, Job, callState, handle,
     asyncCall, callers, history, timers, OwnThread, JobType, JobOK, CallerType, Steps,
     Idle, Calls, Workers
<1>23. ASSUME SentinelCheck PROVE OwnThread'
  BY <1>23, SetsAssumption DEF SentinelCheck, Job, callState, handle, conn, asyncCall,
     callers, history, timers, OwnThread, JobType, JobOK, CallerType, Steps, Idle,
     Calls, Workers
<1>24. ASSUME FileDeferred PROVE OwnThread'
  BY <1>24, SetsAssumption DEF FileDeferred, Job, TakeCompletion, handle, conn, timers,
     callers, history, OwnThread, JobType, JobOK, CallerType, Steps, Idle, Calls,
     Workers
<1>25. ASSUME Rearm PROVE OwnThread'
  BY <1>25, SetsAssumption DEF Rearm, PostTimer, callState, handle, conn, callers,
     history, OwnThread, JobType, JobOK, CallerType, Steps, Idle, Calls, Workers
<1>26. ASSUME HandleEvent PROVE OwnThread'
  BY <1>26, SetsAssumption DEF HandleEvent, Job, ParkCompletion, handle, conn,
     asyncCall, callers, history, timers, OwnThread, JobType, JobOK, CallerType, Steps,
     Idle, Calls, Workers
<1>27. ASSUME FailConnection PROVE OwnThread'
  BY <1>27, SetsAssumption DEF FailConnection, callState, handle, asyncCall, callers,
     history, timers, OwnThread, JobType, JobOK, CallerType, Steps, Idle, Calls, Workers
<1>28. ASSUME DisconnectEvents PROVE OwnThread'
  BY <1>28, SetsAssumption DEF DisconnectEvents, callState, conn, asyncCall, callers,
     history, timers, OwnThread, JobType, JobOK, CallerType, Steps, Idle, Calls, Workers
<1>29. ASSUME ReleaseDisconnect PROVE OwnThread'
  BY <1>29, SetsAssumption DEF ReleaseDisconnect, callState, conn, asyncCall, callers,
     history, timers, OwnThread, JobType, JobOK, CallerType, Steps, Idle, Calls, Workers
<1>30. ASSUME ReleaseStop PROVE OwnThread'
  BY <1>30, SetsAssumption DEF ReleaseStop, conn, asyncCall, callers, history, timers,
     OwnThread, JobType, JobOK, CallerType, Steps, Idle, Calls, Workers
<1>31. ASSUME NEW c \in Async, ReleaseCancel(c) PROVE OwnThread'
  BY <1>31, SetsAssumption DEF ReleaseCancel, Free, Job, callState, conn, asyncCall,
     callers, history, timers, OwnThread, JobType, JobOK, CallerType, Steps, Idle,
     Calls, Workers
<1>32. ASSUME ReleaseDrop PROVE OwnThread'
  BY <1>32, SetsAssumption DEF ReleaseDrop, Free, DropReference, conn, asyncCall,
     callers, history, timers, OwnThread, JobType, JobOK, CallerType, Steps, Idle,
     Calls, Workers
<1>33. ASSUME UNCHANGED vars PROVE OwnThread'
  BY <1>33 DEF vars, callState, handle, conn, asyncCall, timers, callers, history,
     OwnThread
<1> QED
  BY <1>1, <1>2, <1>3, <1>4, <1>5, <1>6, <1>7, <1>8, <1>9, <1>10, <1>11, <1>12, <1>13,
     <1>14, <1>15, <1>16, <1>17, <1>18, <1>19, <1>20, <1>21, <1>22, <1>23, <1>24, <1>25,
     <1>26, <1>27, <1>28, <1>29, <1>30, <1>31, <1>32, <1>33 DEF Next, AsyncStep,
     SyncStep, DeliverStep, HandlerStep, ReleaseStep

\* A step that sends nothing new, takes nothing out of flight and leaves the
\* workers that are about to claim a call where they are keeps SentInFlight.
LEMMA SentFrame ==
  ASSUME SentInFlight, stopping' \/ stopping' = stopping, inflight \subseteq inflight',
         delivered \subseteq delivered',
         \A c \in Async : pc'[c] = "send" \/ c \in sent' => pc[c] = "send" \/ c \in sent,
         \A w \in Workers : job[w].step = "claim" => job'[w] = job[w]
  PROVE  SentInFlight'
BY DEF SentInFlight, Claimed

\* Every step keeps SentInFlight.
LEMMA SentInFlightStep == TypeOK /\ RefInv /\ OwnThread /\ SentInFlight /\ [Next]_vars => SentInFlight'
<1> SUFFICES ASSUME TypeOK, RefInv, OwnThread, SentInFlight, [Next]_vars PROVE SentInFlight'
  OBVIOUS
<1> USE DEF TypeOK
<1>1. ASSUME NEW c \in Async, EnterAsync(c) PROVE SentInFlight'
  <2>1. \A w \in Workers : job[w].step = "claim" => job'[w] = job[w]
    BY <1>1, SetsAssumption DEF EnterAsync, MayEnter, JobType, JobOK, Idle, Steps,
       Workers
  <2>2. \A d \in Async : pc'[d] = "send" \/ d \in sent' => pc[d] = "send" \/ d \in sent
    BY <1>1, SetsAssumption DEF EnterAsync, callState, conn, timers, history,
       CallerType, Calls
  <2> QED
    BY <1>1, <2>1, <2>2, SentFrame DEF EnterAsync, callState, conn, timers, history
<1>2. ASSUME NEW c \in Async, ArmDeadline(c) PROVE SentInFlight'
  <2>1. \A w \in Workers : job[w].step = "claim" => job'[w] = job[w]
    BY <1>2, SetsAssumption DEF ArmDeadline, Goto, EnsureCompletionSub, PostTimer,
       JobType, JobOK, Idle, Steps, Workers
  <2>2. \A d \in Async : pc'[d] = "send" \/ d \in sent' => pc[d] = "send" \/ d \in sent
    BY <1>2, SetsAssumption DEF ArmDeadline, Goto, callState, conn, history, CallerType,
       Calls
  <2> QED
    BY <1>2, <2>1, <2>2, SentFrame DEF ArmDeadline, callState, conn, history
<1>3. ASSUME NEW c \in Async, Admit(c) PROVE SentInFlight'
  BY <1>3, SetsAssumption DEF Admit, Job, handle, conn, asyncCall, history, timers,
     SentInFlight, RefInv, Claimed, Registries, HandleType, ConnType, AsyncType,
     JobType, JobOK, CallerType, Steps, Idle, Calls, Workers
<1>4. ASSUME NEW c \in Async, SendAsync(c) PROVE SentInFlight'
  <2>1. \A w \in Workers : job[w].step = "claim" => job'[w] = job[w]
    BY <1>4, SetsAssumption DEF SendAsync, Goto, Job, JobType, JobOK, OwnThread, Idle,
       Steps, Workers
  <2>2. \A d \in Async : pc'[d] = "send" \/ d \in sent' => pc[d] = "send" \/ d \in sent
    BY <1>4, SetsAssumption DEF SendAsync, Goto, callState, handle, asyncCall, history,
       timers, CallerType, Calls
  <2> QED
    BY <1>4, <2>1, <2>2, SentFrame DEF SendAsync, callState, handle, asyncCall, history,
       timers
<1>5. ASSUME NEW c \in Async, IoReplyAsync(c) PROVE SentInFlight'
  BY <1>5, SetsAssumption DEF IoReplyAsync, Free, Reply, Job, callState, handle,
     asyncCall, callers, history, timers, SentInFlight, RefInv, Claimed, Registries,
     HandleType, ConnType, AsyncType, JobType, JobOK, CallerType, Steps, Idle, Calls,
     Workers
<1>6. ASSUME NEW c \in Async, TimerTask(c) PROVE SentInFlight'
  <2>1. \A w \in Workers : job[w].step = "claim" => job'[w] = job[w]
    BY <1>6, SetsAssumption DEF TimerTask, Free, Job, JobType, JobOK, Idle, Steps,
       Workers
  <2>2. \A d \in Async : pc'[d] = "send" \/ d \in sent' => pc[d] = "send" \/ d \in sent
    BY <1>6, SetsAssumption DEF TimerTask, callState, handle, conn, callers, history,
       CallerType, Calls
  <2> QED
    BY <1>6, <2>1, <2>2, SentFrame DEF TimerTask, callState, handle, conn, callers,
       history
<1>7. ASSUME NEW c \in Async, Expire(c) PROVE SentInFlight'
  <2>1. \A w \in Workers : job[w].step = "claim" => job'[w] = job[w]
    BY <1>7, SetsAssumption DEF Expire, PostTimer, JobType, JobOK, Idle, Steps, Workers
  <2>2. \A d \in Async : pc'[d] = "send" \/ d \in sent' => pc[d] = "send" \/ d \in sent
    BY <1>7, SetsAssumption DEF Expire, callState, handle, conn, callers, history,
       CallerType, Calls
  <2> QED
    BY <1>7, <2>1, <2>2, SentFrame DEF Expire, callState, handle, conn, callers, history
<1>8. ASSUME NEW s \in Sync, EnterSync(s) PROVE SentInFlight'
  <2>1. \A w \in Workers : job[w].step = "claim" => job'[w] = job[w]
    BY <1>8, SetsAssumption DEF EnterSync, MayEnter, JobType, JobOK, Idle, Steps,
       Workers
  <2>2. \A c \in Async : pc'[c] = "send" \/ c \in sent' => pc[c] = "send" \/ c \in sent
    BY <1>8, SetsAssumption DEF EnterSync, callState, conn, asyncCall, history, timers,
       CallerType, Calls
  <2> QED
    BY <1>8, <2>1, <2>2, SentFrame DEF EnterSync, callState, conn, asyncCall, history,
       timers
<1>9. ASSUME NEW s \in Sync, OpenScope(s) PROVE SentInFlight'
  BY <1>9, SetsAssumption DEF OpenScope, Goto, EnsureCompletionSub, conn, asyncCall,
     history, timers, SentInFlight, RefInv, Claimed, Registries, HandleType, ConnType,
     AsyncType, JobType, JobOK, CallerType, Steps, Idle, Calls, Workers
<1>10. ASSUME NEW s \in Sync, SendSync(s) PROVE SentInFlight'
  BY <1>10, SetsAssumption DEF SendSync, Goto, callState, handle, asyncCall, history,
     timers, SentInFlight, RefInv, Claimed, Registries, HandleType, ConnType, AsyncType,
     JobType, JobOK, CallerType, Steps, Idle, Calls, Workers
<1>11. ASSUME NEW s \in Sync, FutureReady(s) PROVE SentInFlight'
  <2>1. \A w \in Workers : job[w].step = "claim" => job'[w] = job[w]
    BY <1>11, SetsAssumption DEF FutureReady, Goto, Conclude, JobType, JobOK, Idle,
       Steps, Workers
  <2>2. \A c \in Async : pc'[c] = "send" \/ c \in sent' => pc[c] = "send" \/ c \in sent
    BY <1>11, SetsAssumption DEF FutureReady, Goto, Conclude, callState, handle, conn,
       asyncCall, history, timers, CallerType, Calls
  <2> QED
    BY <1>11, <2>1, <2>2, SentFrame DEF FutureReady, callState, handle, conn, asyncCall,
       history, timers
<1>12. ASSUME NEW s \in Sync, FutureTimeout(s) PROVE SentInFlight'
  BY <1>12, SetsAssumption DEF FutureTimeout, Goto, Conclude, callState, handle,
     asyncCall, history, timers, SentInFlight, RefInv, Claimed, Registries, HandleType,
     ConnType, AsyncType, JobType, JobOK, CallerType, Steps, Idle, Calls, Workers
<1>13. ASSUME NEW s \in Sync, AwaitCompletion(s) PROVE SentInFlight'
  <2>1. \A w \in Workers : job[w].step = "claim" => job'[w] = job[w]
    BY <1>13, SetsAssumption DEF AwaitCompletion, Goto, Conclude, TakeCompletion,
       JobType, JobOK, Idle, Steps, Workers
  <2>2. \A c \in Async : pc'[c] = "send" \/ c \in sent' => pc[c] = "send" \/ c \in sent
    BY <1>13, SetsAssumption DEF AwaitCompletion, Goto, Conclude, handle, conn,
       asyncCall, history, timers, CallerType, Calls
  <2> QED
    BY <1>13, <2>1, <2>2, SentFrame DEF AwaitCompletion, handle, conn, asyncCall,
       history, timers
<1>14. ASSUME NEW s \in Sync, CloseScope(s) PROVE SentInFlight'
  BY <1>14, SetsAssumption DEF CloseScope, Goto, DropUnclaimedIfIdle, handle, conn,
     asyncCall, history, timers, SentInFlight, RefInv, Claimed, Registries, HandleType,
     ConnType, AsyncType, JobType, JobOK, CallerType, Steps, Idle, Calls, Workers
<1>15. ASSUME NEW s \in Sync, IoReplySync(s) PROVE SentInFlight'
  BY <1>15, SetsAssumption DEF IoReplySync, Free, Reply, callState, handle, asyncCall,
     history, timers, SentInFlight, RefInv, Claimed, Registries, HandleType, ConnType,
     AsyncType, JobType, JobOK, CallerType, Steps, Idle, Calls, Workers
<1>16. ASSUME NEW c \in Calls, Leave(c) PROVE SentInFlight'
  BY <1>16, SetsAssumption DEF Leave, Free, DropReference, conn, asyncCall, history,
     timers, SentInFlight, RefInv, Claimed, Registries, HandleType, ConnType, AsyncType,
     JobType, JobOK, CallerType, Steps, Idle, Calls, Workers
<1>17. ASSUME NEW c \in Calls, FailAnswer(c) PROVE SentInFlight'
  <2>1. \A w \in Workers : job[w].step = "claim" => job'[w] = job[w]
    BY <1>17, SetsAssumption DEF FailAnswer, Free, Job, JobType, JobOK, Idle, Steps,
       Workers
  <2>2. \A d \in Async : pc'[d] = "send" \/ d \in sent' => pc[d] = "send" \/ d \in sent
    BY <1>17, SetsAssumption DEF FailAnswer, callState, handle, asyncCall, history,
       timers, CallerType, Calls
  <2> QED
    BY <1>17, <2>1, <2>2, SentFrame DEF FailAnswer, callState, handle, asyncCall,
       history, timers
<1>18. ASSUME NEW w \in Workers, DeliverLeave(w) PROVE SentInFlight'
  BY <1>18, SetsAssumption DEF DeliverLeave, DropUnclaimedIfIdle, callState, handle,
     conn, asyncCall, callers, history, timers, SentInFlight, RefInv, Claimed,
     Registries, HandleType, ConnType, AsyncType, JobType, JobOK, CallerType, Steps,
     Idle, Calls, Workers
<1>19. ASSUME NEW w \in Workers, DeliverClaim(w) PROVE SentInFlight'
  <2>1. \A v \in Workers : v # w => job'[v] = job[v]
    BY <1>19 DEF DeliverClaim, JobType
  <2>2. delivered' = delivered \cup {job[w].call}
    BY <1>19 DEF DeliverClaim
  <2>3. \A c \in Async \ delivered' : Claimed(c) => Claimed(c)'
    BY <2>1, <2>2 DEF Claimed
  <2> QED
    BY <1>19, <2>2, <2>3 DEF DeliverClaim, SentInFlight, callState, conn, callers
<1>20. ASSUME NEW w \in Workers, DeliverWithdraw(w) PROVE SentInFlight'
  BY <1>20, SetsAssumption DEF DeliverWithdraw, callState, handle, asyncCall, callers,
     history, timers, SentInFlight, RefInv, Claimed, Registries, HandleType, ConnType,
     AsyncType, JobType, JobOK, CallerType, Steps, Idle, Calls, Workers
<1>21. ASSUME NEW w \in Workers, DeliverPost(w) PROVE SentInFlight'
  BY <1>21, SetsAssumption DEF DeliverPost, PostTimer, callState, handle, conn, history,
     SentInFlight, RefInv, Claimed, Registries, HandleType, ConnType, AsyncType,
     JobType, JobOK, CallerType, Steps, Idle, Calls, Workers
<1>22. ASSUME NEW k \in Keys, IoEvent(k) PROVE SentInFlight'
  BY <1>22, SetsAssumption DEF IoEvent, Free, Emittable, Job, callState, handle,
     asyncCall, callers, history, timers, SentInFlight, RefInv, Claimed, Registries,
     HandleType, ConnType, AsyncType, JobType, JobOK, CallerType, Steps, Idle, Calls,
     Workers
<1>23. ASSUME SentinelCheck PROVE SentInFlight'
  BY <1>23, SetsAssumption DEF SentinelCheck, Job, callState, handle, conn, asyncCall,
     callers, history, timers, SentInFlight, RefInv, Claimed, Registries, HandleType,
     ConnType, AsyncType, JobType, JobOK, CallerType, Steps, Idle, Calls, Workers
<1>24. ASSUME FileDeferred PROVE SentInFlight'
  <2>1. \A w \in Workers : job[w].step = "claim" => job'[w] = job[w]
    BY <1>24, SetsAssumption DEF FileDeferred, Job, TakeCompletion, JobType, JobOK,
       Idle, Steps, Workers
  <2>2. \A c \in Async : pc'[c] = "send" \/ c \in sent' => pc[c] = "send" \/ c \in sent
    BY <1>24, SetsAssumption DEF FileDeferred, handle, conn, timers, callers, history,
       CallerType, Calls
  <2> QED
    BY <1>24, <2>1, <2>2, SentFrame DEF FileDeferred, handle, conn, timers, callers,
       history
<1>25. ASSUME Rearm PROVE SentInFlight'
  BY <1>25, SetsAssumption DEF Rearm, PostTimer, callState, handle, conn, callers,
     history, SentInFlight, RefInv, Claimed, Registries, HandleType, ConnType,
     AsyncType, JobType, JobOK, CallerType, Steps, Idle, Calls, Workers
<1>26. ASSUME HandleEvent PROVE SentInFlight'
  <2>1. \A w \in Workers : job[w].step = "claim" => job'[w] = job[w]
    BY <1>26, SetsAssumption DEF HandleEvent, Job, ParkCompletion, JobType, JobOK, Idle,
       Steps, Workers
  <2>2. \A c \in Async : pc'[c] = "send" \/ c \in sent' => pc[c] = "send" \/ c \in sent
    BY <1>26, SetsAssumption DEF HandleEvent, handle, conn, asyncCall, callers, history,
       timers, CallerType, Calls
  <2> QED
    BY <1>26, <2>1, <2>2, SentFrame DEF HandleEvent, handle, conn, asyncCall, callers,
       history, timers
<1>27. ASSUME FailConnection PROVE SentInFlight'
  BY <1>27, SetsAssumption DEF FailConnection, callState, handle, asyncCall, callers,
     history, timers, SentInFlight, RefInv, Claimed, Registries, HandleType, ConnType,
     AsyncType, JobType, JobOK, CallerType, Steps, Idle, Calls, Workers
<1>28. ASSUME DisconnectEvents PROVE SentInFlight'
  BY <1>28, SetsAssumption DEF DisconnectEvents, callState, conn, asyncCall, callers,
     history, timers, SentInFlight, RefInv, Claimed, Registries, HandleType, ConnType,
     AsyncType, JobType, JobOK, CallerType, Steps, Idle, Calls, Workers
<1>29. ASSUME ReleaseDisconnect PROVE SentInFlight'
  BY <1>29, SetsAssumption DEF ReleaseDisconnect, callState, conn, asyncCall, callers,
     history, timers, SentInFlight, RefInv, Claimed, Registries, HandleType, ConnType,
     AsyncType, JobType, JobOK, CallerType, Steps, Idle, Calls, Workers
<1>30. ASSUME ReleaseStop PROVE SentInFlight'
  BY <1>30, SetsAssumption DEF ReleaseStop, conn, asyncCall, callers, history, timers,
     SentInFlight, RefInv, Claimed, Registries, HandleType, ConnType, AsyncType,
     JobType, JobOK, CallerType, Steps, Idle, Calls, Workers
<1>31. ASSUME NEW c \in Async, ReleaseCancel(c) PROVE SentInFlight'
  BY <1>31, SetsAssumption DEF ReleaseCancel, Free, Job, callState, conn, asyncCall,
     callers, history, timers, SentInFlight, RefInv, Claimed, Registries, HandleType,
     ConnType, AsyncType, JobType, JobOK, CallerType, Steps, Idle, Calls, Workers
<1>32. ASSUME ReleaseDrop PROVE SentInFlight'
  BY <1>32, SetsAssumption DEF ReleaseDrop, Free, DropReference, conn, asyncCall,
     callers, history, timers, SentInFlight, RefInv, Claimed, Registries, HandleType,
     ConnType, AsyncType, JobType, JobOK, CallerType, Steps, Idle, Calls, Workers
<1>33. ASSUME UNCHANGED vars PROVE SentInFlight'
  BY <1>33 DEF vars, callState, handle, conn, asyncCall, timers, callers, history,
     SentInFlight, Claimed
<1> QED
  BY <1>1, <1>2, <1>3, <1>4, <1>5, <1>6, <1>7, <1>8, <1>9, <1>10, <1>11, <1>12, <1>13,
     <1>14, <1>15, <1>16, <1>17, <1>18, <1>19, <1>20, <1>21, <1>22, <1>23, <1>24, <1>25,
     <1>26, <1>27, <1>28, <1>29, <1>30, <1>31, <1>32, <1>33 DEF Next, AsyncStep,
     SyncStep, DeliverStep, HandlerStep, ReleaseStep

\* The queue kept or dropped holds nothing new.
LEMMA FiledFrame ==
  ASSUME FiledNotParked, stopping' \/ stopping' = stopping, deferred' \subseteq deferred,
         parked' = parked \/ parked' = <<>>
  PROVE  FiledNotParked'
BY DEF FiledNotParked, Contains

\* Every step keeps FiledNotParked.
LEMMA FiledNotParkedStep == TypeOK /\ RefInv /\ FiledNotParked /\ [Next]_vars => FiledNotParked'
<1> SUFFICES ASSUME TypeOK, RefInv, FiledNotParked, [Next]_vars PROVE FiledNotParked'
  OBVIOUS
<1> USE DEF TypeOK
<1>1. ASSUME NEW c \in Async, EnterAsync(c) PROVE FiledNotParked'
  BY <1>1, SetsAssumption, RemoveAtProperties, ParkEffect DEF EnterAsync, MayEnter,
     callState, conn, timers, history, FiledNotParked, RefInv, Registries, JobType,
     JobOK, Steps, Idle, Workers
<1>2. ASSUME NEW c \in Async, ArmDeadline(c) PROVE FiledNotParked'
  BY <1>2, SetsAssumption, RemoveAtProperties, ParkEffect DEF ArmDeadline, Goto,
     EnsureCompletionSub, PostTimer, callState, conn, history, FiledNotParked, RefInv,
     Registries, JobType, JobOK, Steps, Idle, Workers
<1>3. ASSUME NEW c \in Async, Admit(c) PROVE FiledNotParked'
  BY <1>3, SetsAssumption, RemoveAtProperties, ParkEffect DEF Admit, Job, handle, conn,
     asyncCall, history, timers, FiledNotParked, RefInv, Registries, JobType, JobOK,
     Steps, Idle, Workers
<1>4. ASSUME NEW c \in Async, SendAsync(c) PROVE FiledNotParked'
  BY <1>4, SetsAssumption, RemoveAtProperties, ParkEffect DEF SendAsync, Goto, Job,
     callState, handle, asyncCall, history, timers, FiledNotParked, RefInv, Registries,
     JobType, JobOK, Steps, Idle, Workers
<1>5. ASSUME NEW c \in Async, IoReplyAsync(c) PROVE FiledNotParked'
  BY <1>5, SetsAssumption, RemoveAtProperties, ParkEffect DEF IoReplyAsync, Free, Reply,
     Job, callState, handle, asyncCall, callers, history, timers, FiledNotParked,
     RefInv, Registries, JobType, JobOK, Steps, Idle, Workers
<1>6. ASSUME NEW c \in Async, TimerTask(c) PROVE FiledNotParked'
  BY <1>6, SetsAssumption, RemoveAtProperties, ParkEffect DEF TimerTask, Free, Job,
     callState, handle, conn, callers, history, FiledNotParked, RefInv, Registries,
     JobType, JobOK, Steps, Idle, Workers
<1>7. ASSUME NEW c \in Async, Expire(c) PROVE FiledNotParked'
  BY <1>7, SetsAssumption, RemoveAtProperties, ParkEffect DEF Expire, PostTimer,
     callState, handle, conn, callers, history, FiledNotParked, RefInv, Registries,
     JobType, JobOK, Steps, Idle, Workers
<1>8. ASSUME NEW s \in Sync, EnterSync(s) PROVE FiledNotParked'
  BY <1>8, SetsAssumption, RemoveAtProperties, ParkEffect DEF EnterSync, MayEnter,
     callState, conn, asyncCall, history, timers, FiledNotParked, RefInv, Registries,
     JobType, JobOK, Steps, Idle, Workers
<1>9. ASSUME NEW s \in Sync, OpenScope(s) PROVE FiledNotParked'
  BY <1>9, SetsAssumption, RemoveAtProperties, ParkEffect DEF OpenScope, Goto,
     EnsureCompletionSub, conn, asyncCall, history, timers, FiledNotParked, RefInv,
     Registries, JobType, JobOK, Steps, Idle, Workers
<1>10. ASSUME NEW s \in Sync, SendSync(s) PROVE FiledNotParked'
  BY <1>10, SetsAssumption, RemoveAtProperties, ParkEffect DEF SendSync, Goto,
     callState, handle, asyncCall, history, timers, FiledNotParked, RefInv, Registries,
     JobType, JobOK, Steps, Idle, Workers
<1>11. ASSUME NEW s \in Sync, FutureReady(s) PROVE FiledNotParked'
  BY <1>11, SetsAssumption, RemoveAtProperties, ParkEffect DEF FutureReady, Goto,
     Conclude, callState, handle, conn, asyncCall, history, timers, FiledNotParked,
     RefInv, Registries, JobType, JobOK, Steps, Idle, Workers
<1>12. ASSUME NEW s \in Sync, FutureTimeout(s) PROVE FiledNotParked'
  BY <1>12, SetsAssumption, RemoveAtProperties, ParkEffect DEF FutureTimeout, Goto,
     Conclude, callState, handle, asyncCall, history, timers, FiledNotParked, RefInv,
     Registries, JobType, JobOK, Steps, Idle, Workers
<1>13. ASSUME NEW s \in Sync, AwaitCompletion(s) PROVE FiledNotParked'
  BY <1>13, SetsAssumption, RemoveAtProperties, ParkEffect DEF AwaitCompletion, Goto,
     Conclude, TakeCompletion, handle, conn, asyncCall, history, timers, FiledNotParked,
     RefInv, Registries, JobType, JobOK, Steps, Idle, Workers
<1>14. ASSUME NEW s \in Sync, CloseScope(s) PROVE FiledNotParked'
  <2>1. parked' = parked \/ parked' = <<>>
    BY <1>14 DEF CloseScope, DropUnclaimedIfIdle
  <2> QED
    BY <1>14, <2>1, FiledFrame DEF CloseScope
<1>15. ASSUME NEW s \in Sync, IoReplySync(s) PROVE FiledNotParked'
  BY <1>15, SetsAssumption, RemoveAtProperties, ParkEffect DEF IoReplySync, Free, Reply,
     callState, handle, asyncCall, history, timers, FiledNotParked, RefInv, Registries,
     JobType, JobOK, Steps, Idle, Workers
<1>16. ASSUME NEW c \in Calls, Leave(c) PROVE FiledNotParked'
  BY <1>16, SetsAssumption, RemoveAtProperties, ParkEffect DEF Leave, Free,
     DropReference, conn, asyncCall, history, timers, FiledNotParked, RefInv,
     Registries, JobType, JobOK, Steps, Idle, Workers
<1>17. ASSUME NEW c \in Calls, FailAnswer(c) PROVE FiledNotParked'
  BY <1>17, SetsAssumption, RemoveAtProperties, ParkEffect DEF FailAnswer, Free, Job,
     callState, handle, asyncCall, history, timers, FiledNotParked, RefInv, Registries,
     JobType, JobOK, Steps, Idle, Workers
<1>18. ASSUME NEW w \in Workers, DeliverLeave(w) PROVE FiledNotParked'
  <2>1. parked' = parked \/ parked' = <<>>
    BY <1>18 DEF DeliverLeave, DropUnclaimedIfIdle, callState
  <2>2. deferred' \subseteq deferred /\ stopping' = stopping
    BY <1>18 DEF DeliverLeave, callState
  <2> QED
    BY <2>1, <2>2, FiledFrame
<1>19. ASSUME NEW w \in Workers, DeliverClaim(w) PROVE FiledNotParked'
  BY <1>19, SetsAssumption, RemoveAtProperties, ParkEffect DEF DeliverClaim, callState,
     handle, conn, timers, callers, history, FiledNotParked, RefInv, Registries,
     JobType, JobOK, Steps, Idle, Workers
<1>20. ASSUME NEW w \in Workers, DeliverWithdraw(w) PROVE FiledNotParked'
  BY <1>20, SetsAssumption, RemoveAtProperties, ParkEffect DEF DeliverWithdraw,
     callState, handle, asyncCall, callers, history, timers, FiledNotParked, RefInv,
     Registries, JobType, JobOK, Steps, Idle, Workers
<1>21. ASSUME NEW w \in Workers, DeliverPost(w) PROVE FiledNotParked'
  BY <1>21, SetsAssumption, RemoveAtProperties, ParkEffect DEF DeliverPost, PostTimer,
     callState, handle, conn, history, FiledNotParked, RefInv, Registries, JobType,
     JobOK, Steps, Idle, Workers
<1>22. ASSUME NEW k \in Keys, IoEvent(k) PROVE FiledNotParked'
  BY <1>22, SetsAssumption, RemoveAtProperties, ParkEffect DEF IoEvent, Free, Emittable,
     Job, callState, handle, asyncCall, callers, history, timers, FiledNotParked,
     RefInv, Registries, JobType, JobOK, Steps, Idle, Workers
<1>23. ASSUME SentinelCheck PROVE FiledNotParked'
  BY <1>23, SetsAssumption, RemoveAtProperties, ParkEffect DEF SentinelCheck, Job,
     callState, handle, conn, asyncCall, callers, history, timers, FiledNotParked,
     RefInv, Registries, JobType, JobOK, Steps, Idle, Workers
<1>24. ASSUME FileDeferred PROVE FiledNotParked'
  BY <1>24, SetsAssumption, RemoveAtProperties, ParkEffect DEF FileDeferred, Job,
     TakeCompletion, handle, conn, timers, callers, history, FiledNotParked, RefInv,
     Registries, JobType, JobOK, Steps, Idle, Workers
<1>25. ASSUME Rearm PROVE FiledNotParked'
  BY <1>25, SetsAssumption, RemoveAtProperties, ParkEffect DEF Rearm, PostTimer,
     callState, handle, conn, callers, history, FiledNotParked, RefInv, Registries,
     JobType, JobOK, Steps, Idle, Workers
<1>26. ASSUME HandleEvent PROVE FiledNotParked'
  <2>1. job["io"].call \in Keys
    BY <1>26 DEF HandleEvent, Workers, JobType, JobOK, Idle, Steps
  <2>2. CASE ~destroyed /\ job["io"].call \notin deferred
    <3>1. ParkCompletion(job["io"].call) /\ deferred' = deferred /\ stopping' = stopping
      BY <1>26, <2>2 DEF HandleEvent
    <3> QED
      BY <3>1, <2>1, <2>2, ParkEffect DEF FiledNotParked, Registries
  <2>3. CASE destroyed \/ job["io"].call \in deferred
    BY <1>26, <2>3, FiledFrame DEF HandleEvent
  <2> QED
    BY <2>2, <2>3
<1>27. ASSUME FailConnection PROVE FiledNotParked'
  BY <1>27, SetsAssumption, RemoveAtProperties, ParkEffect DEF FailConnection,
     callState, handle, asyncCall, callers, history, timers, FiledNotParked, RefInv,
     Registries, JobType, JobOK, Steps, Idle, Workers
<1>28. ASSUME DisconnectEvents PROVE FiledNotParked'
  BY <1>28, SetsAssumption, RemoveAtProperties, ParkEffect DEF DisconnectEvents,
     callState, conn, asyncCall, callers, history, timers, FiledNotParked, RefInv,
     Registries, JobType, JobOK, Steps, Idle, Workers
<1>29. ASSUME ReleaseDisconnect PROVE FiledNotParked'
  BY <1>29, SetsAssumption, RemoveAtProperties, ParkEffect DEF ReleaseDisconnect,
     callState, conn, asyncCall, callers, history, timers, FiledNotParked, RefInv,
     Registries, JobType, JobOK, Steps, Idle, Workers
<1>30. ASSUME ReleaseStop PROVE FiledNotParked'
  BY <1>30, SetsAssumption, RemoveAtProperties, ParkEffect DEF ReleaseStop, conn,
     asyncCall, callers, history, timers, FiledNotParked, RefInv, Registries, JobType,
     JobOK, Steps, Idle, Workers
<1>31. ASSUME NEW c \in Async, ReleaseCancel(c) PROVE FiledNotParked'
  BY <1>31, SetsAssumption, RemoveAtProperties, ParkEffect DEF ReleaseCancel, Free, Job,
     callState, conn, asyncCall, callers, history, timers, FiledNotParked, RefInv,
     Registries, JobType, JobOK, Steps, Idle, Workers
<1>32. ASSUME ReleaseDrop PROVE FiledNotParked'
  BY <1>32, SetsAssumption, RemoveAtProperties, ParkEffect DEF ReleaseDrop, Free,
     DropReference, conn, asyncCall, callers, history, timers, FiledNotParked, RefInv,
     Registries, JobType, JobOK, Steps, Idle, Workers
<1>33. ASSUME UNCHANGED vars PROVE FiledNotParked'
  BY <1>33 DEF vars, callState, handle, conn, asyncCall, timers, callers, history,
     FiledNotParked
<1> QED
  BY <1>1, <1>2, <1>3, <1>4, <1>5, <1>6, <1>7, <1>8, <1>9, <1>10, <1>11, <1>12, <1>13,
     <1>14, <1>15, <1>16, <1>17, <1>18, <1>19, <1>20, <1>21, <1>22, <1>23, <1>24, <1>25,
     <1>26, <1>27, <1>28, <1>29, <1>30, <1>31, <1>32, <1>33 DEF Next, AsyncStep,
     SyncStep, DeliverStep, HandlerStep, ReleaseStep

\* Every step keeps SyncKept.
LEMMA SyncKeptStep == TypeOK /\ RefInv /\ EventsSent /\ ScopeCounts /\ SyncKept /\ [Next]_vars => SyncKept'
<1> SUFFICES ASSUME TypeOK, RefInv, EventsSent, ScopeCounts, SyncKept, [Next]_vars PROVE SyncKept'
  OBVIOUS
<1> USE DEF TypeOK
<1>1. ASSUME NEW c \in Async, EnterAsync(c) PROVE SyncKept'
  BY <1>1, SetsAssumption, RemoveAtProperties, ParkEffect DEF EnterAsync, MayEnter,
     callState, conn, timers, history, SyncKept, RefInv, EventsSent, ScopeCounts, Busy,
     Registries, ConnType, JobType, JobOK, CallerType, Steps, Idle, Calls, Keys, Workers
<1>2. ASSUME NEW c \in Async, ArmDeadline(c) PROVE SyncKept'
  BY <1>2, SetsAssumption, RemoveAtProperties, ParkEffect DEF ArmDeadline, Goto,
     EnsureCompletionSub, PostTimer, callState, conn, history, SyncKept, RefInv,
     EventsSent, ScopeCounts, Busy, Registries, ConnType, JobType, JobOK, CallerType,
     Steps, Idle, Calls, Keys, Workers
<1>3. ASSUME NEW c \in Async, Admit(c) PROVE SyncKept'
  BY <1>3, SetsAssumption, RemoveAtProperties, ParkEffect DEF Admit, Job, handle, conn,
     asyncCall, history, timers, SyncKept, RefInv, EventsSent, ScopeCounts, Busy,
     Registries, ConnType, JobType, JobOK, CallerType, Steps, Idle, Calls, Keys, Workers
<1>4. ASSUME NEW c \in Async, SendAsync(c) PROVE SyncKept'
  BY <1>4, SetsAssumption, RemoveAtProperties, ParkEffect DEF SendAsync, Goto, Job,
     callState, handle, asyncCall, history, timers, SyncKept, RefInv, EventsSent,
     ScopeCounts, Busy, Registries, ConnType, JobType, JobOK, CallerType, Steps, Idle,
     Calls, Keys, Workers
<1>5. ASSUME NEW c \in Async, IoReplyAsync(c) PROVE SyncKept'
  BY <1>5, SetsAssumption, RemoveAtProperties, ParkEffect DEF IoReplyAsync, Free, Reply,
     Job, callState, handle, asyncCall, callers, history, timers, SyncKept, RefInv,
     EventsSent, ScopeCounts, Busy, Registries, ConnType, JobType, JobOK, CallerType,
     Steps, Idle, Calls, Keys, Workers
<1>6. ASSUME NEW c \in Async, TimerTask(c) PROVE SyncKept'
  BY <1>6, SetsAssumption, RemoveAtProperties, ParkEffect DEF TimerTask, Free, Job,
     callState, handle, conn, callers, history, SyncKept, RefInv, EventsSent,
     ScopeCounts, Busy, Registries, ConnType, JobType, JobOK, CallerType, Steps, Idle,
     Calls, Keys, Workers
<1>7. ASSUME NEW c \in Async, Expire(c) PROVE SyncKept'
  BY <1>7, SetsAssumption, RemoveAtProperties, ParkEffect DEF Expire, PostTimer,
     callState, handle, conn, callers, history, SyncKept, RefInv, EventsSent,
     ScopeCounts, Busy, Registries, ConnType, JobType, JobOK, CallerType, Steps, Idle,
     Calls, Keys, Workers
<1>8. ASSUME NEW s \in Sync, EnterSync(s) PROVE SyncKept'
  BY <1>8, SetsAssumption, RemoveAtProperties, ParkEffect DEF EnterSync, MayEnter,
     callState, conn, asyncCall, history, timers, SyncKept, RefInv, EventsSent,
     ScopeCounts, Busy, Registries, ConnType, JobType, JobOK, CallerType, Steps, Idle,
     Calls, Keys, Workers
<1>9. ASSUME NEW s \in Sync, OpenScope(s) PROVE SyncKept'
  BY <1>9, SetsAssumption, RemoveAtProperties, ParkEffect DEF OpenScope, Goto,
     EnsureCompletionSub, conn, asyncCall, history, timers, SyncKept, RefInv,
     EventsSent, ScopeCounts, Busy, Registries, ConnType, JobType, JobOK, CallerType,
     Steps, Idle, Calls, Keys, Workers
<1>10. ASSUME NEW s \in Sync, SendSync(s) PROVE SyncKept'
  BY <1>10, SetsAssumption, RemoveAtProperties, ParkEffect DEF SendSync, Goto,
     callState, handle, asyncCall, history, timers, SyncKept, RefInv, EventsSent,
     ScopeCounts, Busy, Registries, ConnType, JobType, JobOK, CallerType, Steps, Idle,
     Calls, Keys, Workers
<1>11. ASSUME NEW s \in Sync, FutureReady(s) PROVE SyncKept'
  BY <1>11, SetsAssumption, RemoveAtProperties, ParkEffect DEF FutureReady, Goto,
     Conclude, callState, handle, conn, asyncCall, history, timers, SyncKept, RefInv,
     EventsSent, ScopeCounts, Busy, Registries, ConnType, JobType, JobOK, CallerType,
     Steps, Idle, Calls, Keys, Workers
<1>12. ASSUME NEW s \in Sync, FutureTimeout(s) PROVE SyncKept'
  BY <1>12, SetsAssumption, RemoveAtProperties, ParkEffect DEF FutureTimeout, Goto,
     Conclude, callState, handle, asyncCall, history, timers, SyncKept, RefInv,
     EventsSent, ScopeCounts, Busy, Registries, ConnType, JobType, JobOK, CallerType,
     Steps, Idle, Calls, Keys, Workers
<1>13. ASSUME NEW s \in Sync, AwaitCompletion(s) PROVE SyncKept'
  BY <1>13, SetsAssumption, RemoveAtProperties, ParkEffect DEF AwaitCompletion, Goto,
     Conclude, TakeCompletion, handle, conn, asyncCall, history, timers, SyncKept,
     RefInv, EventsSent, ScopeCounts, Busy, Registries, ConnType, JobType, JobOK,
     CallerType, Steps, Idle, Calls, Keys, Workers
<1>14. ASSUME NEW s \in Sync, CloseScope(s) PROVE SyncKept'
  BY <1>14, SetsAssumption, RemoveAtProperties, ParkEffect DEF CloseScope, Goto,
     DropUnclaimedIfIdle, handle, conn, asyncCall, history, timers, SyncKept, RefInv,
     EventsSent, ScopeCounts, Busy, Registries, ConnType, JobType, JobOK, CallerType,
     Steps, Idle, Calls, Keys, Workers
<1>15. ASSUME NEW s \in Sync, IoReplySync(s) PROVE SyncKept'
  BY <1>15, SetsAssumption, RemoveAtProperties, ParkEffect DEF IoReplySync, Free, Reply,
     callState, handle, asyncCall, history, timers, SyncKept, RefInv, EventsSent,
     ScopeCounts, Busy, Registries, ConnType, JobType, JobOK, CallerType, Steps, Idle,
     Calls, Keys, Workers
<1>16. ASSUME NEW c \in Calls, Leave(c) PROVE SyncKept'
  BY <1>16, SetsAssumption, RemoveAtProperties, ParkEffect DEF Leave, Free,
     DropReference, conn, asyncCall, history, timers, SyncKept, RefInv, EventsSent,
     ScopeCounts, Busy, Registries, ConnType, JobType, JobOK, CallerType, Steps, Idle,
     Calls, Keys, Workers
<1>17. ASSUME NEW c \in Calls, FailAnswer(c) PROVE SyncKept'
  BY <1>17, SetsAssumption, RemoveAtProperties, ParkEffect DEF FailAnswer, Free, Job,
     callState, handle, asyncCall, history, timers, SyncKept, RefInv, EventsSent,
     ScopeCounts, Busy, Registries, ConnType, JobType, JobOK, CallerType, Steps, Idle,
     Calls, Keys, Workers
<1>18. ASSUME NEW w \in Workers, DeliverLeave(w) PROVE SyncKept'
  BY <1>18, SetsAssumption, RemoveAtProperties, ParkEffect DEF DeliverLeave,
     DropUnclaimedIfIdle, callState, handle, conn, asyncCall, callers, history, timers,
     SyncKept, RefInv, EventsSent, ScopeCounts, Busy, Registries, ConnType, JobType,
     JobOK, CallerType, Steps, Idle, Calls, Keys, Workers
<1>19. ASSUME NEW w \in Workers, DeliverClaim(w) PROVE SyncKept'
  BY <1>19, SetsAssumption, RemoveAtProperties, ParkEffect DEF DeliverClaim, callState,
     handle, conn, timers, callers, history, SyncKept, RefInv, EventsSent, ScopeCounts,
     Busy, Registries, ConnType, JobType, JobOK, CallerType, Steps, Idle, Calls, Keys,
     Workers
<1>20. ASSUME NEW w \in Workers, DeliverWithdraw(w) PROVE SyncKept'
  BY <1>20, SetsAssumption, RemoveAtProperties, ParkEffect DEF DeliverWithdraw,
     callState, handle, asyncCall, callers, history, timers, SyncKept, RefInv,
     EventsSent, ScopeCounts, Busy, Registries, ConnType, JobType, JobOK, CallerType,
     Steps, Idle, Calls, Keys, Workers
<1>21. ASSUME NEW w \in Workers, DeliverPost(w) PROVE SyncKept'
  BY <1>21, SetsAssumption, RemoveAtProperties, ParkEffect DEF DeliverPost, PostTimer,
     callState, handle, conn, history, SyncKept, RefInv, EventsSent, ScopeCounts, Busy,
     Registries, ConnType, JobType, JobOK, CallerType, Steps, Idle, Calls, Keys, Workers
<1>22. ASSUME NEW k \in Keys, IoEvent(k) PROVE SyncKept'
  BY <1>22, SetsAssumption, RemoveAtProperties, ParkEffect DEF IoEvent, Free, Emittable,
     Job, callState, handle, asyncCall, callers, history, timers, SyncKept, RefInv,
     EventsSent, ScopeCounts, Busy, Registries, ConnType, JobType, JobOK, CallerType,
     Steps, Idle, Calls, Keys, Workers
<1>23. ASSUME SentinelCheck PROVE SyncKept'
  BY <1>23, SetsAssumption, RemoveAtProperties, ParkEffect DEF SentinelCheck, Job,
     callState, handle, conn, asyncCall, callers, history, timers, SyncKept, RefInv,
     EventsSent, ScopeCounts, Busy, Registries, ConnType, JobType, JobOK, CallerType,
     Steps, Idle, Calls, Keys, Workers
<1>24. ASSUME FileDeferred PROVE SyncKept'
  <2>1. job["io"].call \in Async
    BY <1>24, InStep DEF FileDeferred, Workers, Steps
  <2>2. \A s \in Sync : Contains(parked, s) => Contains(parked', s)
    BY <1>24, <2>1, SetsAssumption, RemoveAtProperties DEF FileDeferred, TakeCompletion, Registries
  <2> QED
    BY <1>24, <2>2 DEF FileDeferred, SyncKept, callers, history
<1>25. ASSUME Rearm PROVE SyncKept'
  BY <1>25, SetsAssumption, RemoveAtProperties, ParkEffect DEF Rearm, PostTimer,
     callState, handle, conn, callers, history, SyncKept, RefInv, EventsSent,
     ScopeCounts, Busy, Registries, ConnType, JobType, JobOK, CallerType, Steps, Idle,
     Calls, Keys, Workers
<1>26. ASSUME HandleEvent PROVE SyncKept'
  BY <1>26, SetsAssumption, RemoveAtProperties, ParkEffect DEF HandleEvent, Job, handle,
     conn, asyncCall, callers, history, timers, SyncKept, RefInv, EventsSent,
     ScopeCounts, Busy, Registries, ConnType, JobType, JobOK, CallerType, Steps, Idle,
     Calls, Keys, Workers
<1>27. ASSUME FailConnection PROVE SyncKept'
  BY <1>27, SetsAssumption, RemoveAtProperties, ParkEffect DEF FailConnection,
     callState, handle, asyncCall, callers, history, timers, SyncKept, RefInv,
     EventsSent, ScopeCounts, Busy, Registries, ConnType, JobType, JobOK, CallerType,
     Steps, Idle, Calls, Keys, Workers
<1>28. ASSUME DisconnectEvents PROVE SyncKept'
  BY <1>28, SetsAssumption, RemoveAtProperties, ParkEffect DEF DisconnectEvents,
     callState, conn, asyncCall, callers, history, timers, SyncKept, RefInv, EventsSent,
     ScopeCounts, Busy, Registries, ConnType, JobType, JobOK, CallerType, Steps, Idle,
     Calls, Keys, Workers
<1>29. ASSUME ReleaseDisconnect PROVE SyncKept'
  BY <1>29, SetsAssumption, RemoveAtProperties, ParkEffect DEF ReleaseDisconnect,
     callState, conn, asyncCall, callers, history, timers, SyncKept, RefInv, EventsSent,
     ScopeCounts, Busy, Registries, ConnType, JobType, JobOK, CallerType, Steps, Idle,
     Calls, Keys, Workers
<1>30. ASSUME ReleaseStop PROVE SyncKept'
  BY <1>30, SetsAssumption, RemoveAtProperties, ParkEffect DEF ReleaseStop, conn,
     asyncCall, callers, history, timers, SyncKept, RefInv, EventsSent, ScopeCounts,
     Busy, Registries, ConnType, JobType, JobOK, CallerType, Steps, Idle, Calls, Keys,
     Workers
<1>31. ASSUME NEW c \in Async, ReleaseCancel(c) PROVE SyncKept'
  BY <1>31, SetsAssumption, RemoveAtProperties, ParkEffect DEF ReleaseCancel, Free, Job,
     callState, conn, asyncCall, callers, history, timers, SyncKept, RefInv, EventsSent,
     ScopeCounts, Busy, Registries, ConnType, JobType, JobOK, CallerType, Steps, Idle,
     Calls, Keys, Workers
<1>32. ASSUME ReleaseDrop PROVE SyncKept'
  BY <1>32, SetsAssumption, RemoveAtProperties, ParkEffect DEF ReleaseDrop, Free,
     DropReference, conn, asyncCall, callers, history, timers, SyncKept, RefInv,
     EventsSent, ScopeCounts, Busy, Registries, ConnType, JobType, JobOK, CallerType,
     Steps, Idle, Calls, Keys, Workers
<1>33. ASSUME UNCHANGED vars PROVE SyncKept'
  BY <1>33 DEF vars, callState, handle, conn, asyncCall, timers, callers, history,
     SyncKept
<1> QED
  BY <1>1, <1>2, <1>3, <1>4, <1>5, <1>6, <1>7, <1>8, <1>9, <1>10, <1>11, <1>12, <1>13,
     <1>14, <1>15, <1>16, <1>17, <1>18, <1>19, <1>20, <1>21, <1>22, <1>23, <1>24, <1>25,
     <1>26, <1>27, <1>28, <1>29, <1>30, <1>31, <1>32, <1>33 DEF Next, AsyncStep,
     SyncStep, DeliverStep, HandlerStep, ReleaseStep

\* A step that leaves the queue alone, and every worker that carries the result of
\* an unresolved call, keeps AsyncKept.
LEMMA AsyncKeptFrame ==
  ASSUME AsyncKept, stopping' \/ stopping' = stopping, arrived' = arrived,
         delivered \subseteq delivered', evicted' = evicted, parked' = parked,
         \A w \in Workers, c \in Async \ delivered' : Carries(w, c) => Carries(w, c)'
  PROVE  AsyncKept'
BY DEF AsyncKept, Held

\* A call whose completion has come is in flight, or about to be claimed.
LEMMA ArrivedInFlight ==
  ASSUME EventsSent, SentInFlight, ~stopping, NEW c \in (arrived \cap Async) \ delivered
  PROVE  c \in inflight \/ \E w \in Workers : Carries(w, c)
BY SetsAssumption DEF EventsSent, SentInFlight, Claimed, Carries, Calls, Keys

\* Every step keeps AsyncKept.
LEMMA AsyncKeptStep == TypeOK /\ RefInv /\ OnceInv /\ KeptInv /\ [Next]_vars => AsyncKept'
<1> SUFFICES ASSUME TypeOK, RefInv, OnceInv, KeptInv, [Next]_vars PROVE AsyncKept'
  OBVIOUS
<1> USE DEF TypeOK, KeptInv
<1>1. ASSUME NEW c \in Async, EnterAsync(c) PROVE AsyncKept'
  <2>1. \A v \in Workers, d \in Async \ delivered' : Carries(v, d) => Carries(v, d)'
    BY <1>1, SetsAssumption DEF EnterAsync, Carries, OnceInv, OnceFor, Winner,
       NothingYet, OwnThread, JobType, JobOK, Idle, Steps, Calls, Keys, Workers
  <2> QED
    BY <1>1, <2>1, AsyncKeptFrame DEF EnterAsync, callState, conn, timers, history
<1>2. ASSUME NEW c \in Async, ArmDeadline(c) PROVE AsyncKept'
  <2>1. \A v \in Workers, d \in Async \ delivered' : Carries(v, d) => Carries(v, d)'
    BY <1>2, SetsAssumption DEF ArmDeadline, Carries, OnceInv, OnceFor, Winner,
       NothingYet, OwnThread, JobType, JobOK, Idle, Steps, Calls, Keys, Workers
  <2> QED
    BY <1>2, <2>1, AsyncKeptFrame DEF ArmDeadline, callState, conn, history
<1>3. ASSUME NEW c \in Async, Admit(c) PROVE AsyncKept'
  <2>1. \A v \in Workers, d \in Async \ delivered' : Carries(v, d) => Carries(v, d)'
    BY <1>3, SetsAssumption DEF Admit, Job, Carries, OnceInv, OnceFor, Winner,
       NothingYet, OwnThread, JobType, JobOK, Idle, Steps, Calls, Keys, Workers
  <2> QED
    BY <1>3, <2>1, AsyncKeptFrame DEF Admit, handle, conn, asyncCall, history, timers
<1>4. ASSUME NEW c \in Async, SendAsync(c) PROVE AsyncKept'
  <2>1. c \in Workers /\ job[c] = Idle
    BY <1>4 DEF SendAsync, Goto, OwnThread, Workers
  <2>2. \A v \in Workers, d \in Async \ delivered' : Carries(v, d) => Carries(v, d)'
    BY <1>4, <2>1, SetsAssumption DEF SendAsync, Carries, Idle, JobType
  <2> QED
    BY <1>4, <2>2, AsyncKeptFrame DEF SendAsync, callState, asyncCall, history
<1>5. ASSUME NEW c \in Async, IoReplyAsync(c) PROVE AsyncKept'
  <2>1. \A v \in Workers, d \in Async \ delivered' : Carries(v, d) => Carries(v, d)'
    BY <1>5, SetsAssumption DEF IoReplyAsync, Free, Job, Carries, OnceInv, OnceFor,
       Winner, NothingYet, OwnThread, JobType, JobOK, Idle, Steps, Calls, Keys, Workers
  <2> QED
    BY <1>5, <2>1, AsyncKeptFrame DEF IoReplyAsync, callState, handle, asyncCall,
       callers, history, timers
<1>6. ASSUME NEW c \in Async, TimerTask(c) PROVE AsyncKept'
  <2>1. \A v \in Workers, d \in Async \ delivered' : Carries(v, d) => Carries(v, d)'
    BY <1>6, SetsAssumption DEF TimerTask, Free, Job, Carries, OnceInv, OnceFor, Winner,
       NothingYet, OwnThread, JobType, JobOK, Idle, Steps, Calls, Keys, Workers
  <2> QED
    BY <1>6, <2>1, AsyncKeptFrame DEF TimerTask, callState, handle, conn, callers,
       history
<1>7. ASSUME NEW c \in Async, Expire(c) PROVE AsyncKept'
  <2>1. \A v \in Workers, d \in Async \ delivered' : Carries(v, d) => Carries(v, d)'
    BY <1>7, SetsAssumption DEF Expire, Carries, OnceInv, OnceFor, Winner, NothingYet,
       OwnThread, JobType, JobOK, Idle, Steps, Calls, Keys, Workers
  <2> QED
    BY <1>7, <2>1, AsyncKeptFrame DEF Expire, callState, handle, conn, callers, history
<1>8. ASSUME NEW s \in Sync, EnterSync(s) PROVE AsyncKept'
  <2>1. \A v \in Workers, d \in Async \ delivered' : Carries(v, d) => Carries(v, d)'
    BY <1>8, SetsAssumption DEF EnterSync, Carries, OnceInv, OnceFor, Winner,
       NothingYet, OwnThread, JobType, JobOK, Idle, Steps, Calls, Keys, Workers
  <2> QED
    BY <1>8, <2>1, AsyncKeptFrame DEF EnterSync, callState, conn, asyncCall, history,
       timers
<1>9. ASSUME NEW s \in Sync, OpenScope(s) PROVE AsyncKept'
  <2>1. \A v \in Workers, d \in Async \ delivered' : Carries(v, d) => Carries(v, d)'
    BY <1>9, SetsAssumption DEF OpenScope, Carries, OnceInv, OnceFor, Winner,
       NothingYet, OwnThread, JobType, JobOK, Idle, Steps, Calls, Keys, Workers
  <2> QED
    BY <1>9, <2>1, AsyncKeptFrame DEF OpenScope, conn, asyncCall, history, timers
<1>10. ASSUME NEW s \in Sync, SendSync(s) PROVE AsyncKept'
  <2>1. \A v \in Workers, d \in Async \ delivered' : Carries(v, d) => Carries(v, d)'
    BY <1>10, SetsAssumption DEF SendSync, Carries, OnceInv, OnceFor, Winner,
       NothingYet, OwnThread, JobType, JobOK, Idle, Steps, Calls, Keys, Workers
  <2> QED
    BY <1>10, <2>1, AsyncKeptFrame DEF SendSync, callState, handle, asyncCall, history,
       timers
<1>11. ASSUME NEW s \in Sync, FutureReady(s) PROVE AsyncKept'
  <2>1. \A v \in Workers, d \in Async \ delivered' : Carries(v, d) => Carries(v, d)'
    BY <1>11, SetsAssumption DEF FutureReady, Carries, OnceInv, OnceFor, Winner,
       NothingYet, OwnThread, JobType, JobOK, Idle, Steps, Calls, Keys, Workers
  <2> QED
    BY <1>11, <2>1, AsyncKeptFrame DEF FutureReady, callState, handle, conn, asyncCall,
       history, timers
<1>12. ASSUME NEW s \in Sync, FutureTimeout(s) PROVE AsyncKept'
  <2>1. \A v \in Workers, d \in Async \ delivered' : Carries(v, d) => Carries(v, d)'
    BY <1>12, SetsAssumption DEF FutureTimeout, Carries, OnceInv, OnceFor, Winner,
       NothingYet, OwnThread, JobType, JobOK, Idle, Steps, Calls, Keys, Workers
  <2> QED
    BY <1>12, <2>1, AsyncKeptFrame DEF FutureTimeout, callState, handle, asyncCall,
       history, timers
<1>13. ASSUME NEW s \in Sync, AwaitCompletion(s) PROVE AsyncKept'
  <2>1. \A d \in Async : Contains(parked, d) => Contains(parked', d)
    BY <1>13, SetsAssumption, RemoveAtProperties DEF AwaitCompletion, TakeCompletion, Registries
  <2> QED
    BY <1>13, <2>1 DEF AwaitCompletion, AsyncKept, Held, Carries, asyncCall, history
<1>14. ASSUME NEW s \in Sync, CloseScope(s) PROVE AsyncKept'
  <2> SUFFICES ASSUME ~stopping, NEW d \in (arrived \cap Async) \ (delivered \cup evicted)
               PROVE  Held(d)'
    BY <1>14 DEF CloseScope, AsyncKept, asyncCall, history
  <2>1. job' = job /\ Held(d)
    BY <1>14 DEF CloseScope, AsyncKept
  <2>2. CASE d \in inflight
    <3>1. parked' = parked
      BY <1>14, <2>2 DEF CloseScope, DropUnclaimedIfIdle, Busy
    <3> QED
      BY <2>1, <3>1 DEF Held, Carries
  <2>3. CASE \E w \in Workers : Carries(w, d)
    BY <2>1, <2>3 DEF Held, Carries
  <2> QED
    BY <2>2, <2>3, ArrivedInFlight
<1>15. ASSUME NEW s \in Sync, IoReplySync(s) PROVE AsyncKept'
  <2>1. \A v \in Workers, d \in Async \ delivered' : Carries(v, d) => Carries(v, d)'
    BY <1>15, SetsAssumption DEF IoReplySync, Free, Carries, OnceInv, OnceFor, Winner,
       NothingYet, OwnThread, JobType, JobOK, Idle, Steps, Calls, Keys, Workers
  <2> QED
    BY <1>15, <2>1, AsyncKeptFrame DEF IoReplySync, callState, handle, asyncCall,
       history, timers
<1>16. ASSUME NEW c \in Calls, Leave(c) PROVE AsyncKept'
  <2>1. stopping' \/ (stopping' = stopping /\ parked' = parked)
    BY <1>16 DEF Leave, DropReference
  <2> QED
    BY <1>16, <2>1 DEF Leave, AsyncKept, Held, Carries, asyncCall, history
<1>17. ASSUME NEW c \in Calls, FailAnswer(c) PROVE AsyncKept'
  <2>1. \A v \in Workers, d \in Async \ delivered' : Carries(v, d) => Carries(v, d)'
    BY <1>17, SetsAssumption DEF FailAnswer, Free, Job, Carries, OnceInv, OnceFor,
       Winner, NothingYet, OwnThread, JobType, JobOK, Idle, Steps, Calls, Keys, Workers
  <2> QED
    BY <1>17, <2>1, AsyncKeptFrame DEF FailAnswer, callState, handle, asyncCall,
       history, timers
<1>18. ASSUME NEW w \in Workers, DeliverLeave(w) PROVE AsyncKept'
  <2> SUFFICES ASSUME ~stopping, NEW d \in (arrived \cap Async) \ (delivered \cup evicted)
               PROVE  Held(d)'
    BY <1>18 DEF DeliverLeave, AsyncKept, callState, asyncCall, history
  <2>1. Held(d) /\ ~destroyed
    BY DEF AsyncKept, RefInv
  <2>2. /\ \A v \in Workers : v # w => job'[v] = job[v]
        /\ job'[w].call = job[w].call /\ job'[w].step = "claim"
    BY <1>18 DEF DeliverLeave, JobType
  <2>3. \A v \in Workers : Carries(v, d) => Carries(v, d)'
    BY <2>2 DEF Carries
  <2>4. CASE d = job[w].call
    BY <2>2, <2>4 DEF Held, Carries
  <2>5. CASE d # job[w].call /\ d \in inflight
    <3>1. Busy(inflight \ {job[w].call}, IF job[w].call \in hasCallId
                                          THEN deferred \ {job[w].call} ELSE deferred, syncOut)
      BY <2>5 DEF Busy
    <3>2. parked' = parked
      BY <1>18, <2>1, <3>1 DEF DeliverLeave, DropUnclaimedIfIdle
    <3> QED
      BY <2>1, <2>3, <3>2 DEF Held
  <2>6. CASE \E v \in Workers : Carries(v, d)
    BY <2>3, <2>6 DEF Held
  <2> QED
    BY <2>4, <2>5, <2>6, ArrivedInFlight
<1>19. ASSUME NEW w \in Workers, DeliverClaim(w) PROVE AsyncKept'
  <2>1. \A v \in Workers, d \in Async \ delivered' : Carries(v, d) => Carries(v, d)'
    BY <1>19, SetsAssumption DEF DeliverClaim, Carries, OnceInv, OnceFor, Winner,
       NothingYet, OwnThread, JobType, JobOK, Idle, Steps, Calls, Keys, Workers
  <2> QED
    BY <1>19, <2>1, AsyncKeptFrame DEF DeliverClaim, callState, handle, conn, timers,
       callers, history
<1>20. ASSUME NEW w \in Workers, DeliverWithdraw(w) PROVE AsyncKept'
  <2>1. \A v \in Workers, d \in Async \ delivered' : Carries(v, d) => Carries(v, d)'
    BY <1>20, SetsAssumption DEF DeliverWithdraw, Carries, OnceInv, OnceFor, Winner,
       NothingYet, OwnThread, JobType, JobOK, Idle, Steps, Calls, Keys, Workers
  <2> QED
    BY <1>20, <2>1, AsyncKeptFrame DEF DeliverWithdraw, callState, handle, asyncCall,
       callers, history, timers
<1>21. ASSUME NEW w \in Workers, DeliverPost(w) PROVE AsyncKept'
  <2>1. \A v \in Workers, d \in Async \ delivered' : Carries(v, d) => Carries(v, d)'
    BY <1>21, SetsAssumption DEF DeliverPost, Carries, OnceInv, OnceFor, Winner,
       NothingYet, OwnThread, JobType, JobOK, Idle, Steps, Calls, Keys, Workers
  <2> QED
    BY <1>21, <2>1, AsyncKeptFrame DEF DeliverPost, callState, handle, conn, history
<1>22. ASSUME NEW k \in Keys, IoEvent(k) PROVE AsyncKept'
  <2>1. \A v \in Workers, d \in Async \ delivered' : Carries(v, d) => Carries(v, d)'
    BY <1>22, SetsAssumption DEF IoEvent, Free, Job, Carries, OnceInv, OnceFor, Winner,
       NothingYet, OwnThread, JobType, JobOK, Idle, Steps, Calls, Keys, Workers
  <2> QED
    BY <1>22, <2>1, AsyncKeptFrame DEF IoEvent, callState, handle, asyncCall, callers,
       history, timers
<1>23. ASSUME SentinelCheck PROVE AsyncKept'
  <2>1. \A v \in Workers, d \in Async \ delivered' : Carries(v, d) => Carries(v, d)'
    BY <1>23, SetsAssumption DEF SentinelCheck, Job, Carries, OnceInv, OnceFor, Winner,
       NothingYet, OwnThread, JobType, JobOK, Idle, Steps, Calls, Keys, Workers
  <2> QED
    BY <1>23, <2>1, AsyncKeptFrame DEF SentinelCheck, callState, handle, conn,
       asyncCall, callers, history, timers
<1>24. ASSUME FileDeferred PROVE AsyncKept'
  <2>0. PICK c : c = job["io"].call
    OBVIOUS
  <2>1. "io" \in Workers /\ c \in Async /\ job["io"].how = "none"
    BY <1>24, <2>0, InStep DEF FileDeferred, NothingYet, Workers, Steps
  <2>2. \A v \in Workers, d \in Async : Carries(v, d) => Carries(v, d)'
    BY <1>24, <2>0, <2>1 DEF FileDeferred, Carries, Job, JobType
  <2>3. CASE Contains(parked, c)
    <3>1. \A d \in Async : d # c /\ Contains(parked, d) => Contains(parked', d)
      BY <1>24, <2>0, <2>3, RemoveAtProperties DEF FileDeferred, TakeCompletion, Registries
    <3>2. Carries("io", c)'
      BY <1>24, <2>0, <2>1, <2>3 DEF FileDeferred, Carries, Job, JobType
    <3> QED
      BY <1>24, <2>1, <2>2, <3>1, <3>2 DEF FileDeferred, AsyncKept, Held, history
  <2>4. CASE ~Contains(parked, c)
    <3>1. parked' = parked /\ stopping' = stopping /\ delivered' = delivered
      BY <1>24, <2>0, <2>4 DEF FileDeferred
    <3> QED
      BY <1>24, <2>2, <3>1, AsyncKeptFrame DEF FileDeferred, history
  <2> QED
    BY <2>3, <2>4
<1>25. ASSUME Rearm PROVE AsyncKept'
  <2>1. \A v \in Workers, d \in Async \ delivered' : Carries(v, d) => Carries(v, d)'
    BY <1>25, SetsAssumption DEF Rearm, Carries, OnceInv, OnceFor, Winner, NothingYet,
       OwnThread, JobType, JobOK, Idle, Steps, Calls, Keys, Workers
  <2> QED
    BY <1>25, <2>1, AsyncKeptFrame DEF Rearm, callState, handle, conn, callers, history
<1>26. ASSUME HandleEvent PROVE AsyncKept'
  <2>0. PICK k : k = job["io"].call
    OBVIOUS
  <2>1. "io" \in Workers /\ k \in Keys /\ job["io"].step = "event" /\ job["io"].how = "none"
    BY <1>26, <2>0 DEF HandleEvent, NothingYet, Workers, JobType, JobOK, Idle, Steps
  <2>2. \A v \in Workers, d \in Async : Carries(v, d) => Carries(v, d)'
    BY <1>26, <2>1 DEF HandleEvent, Carries, Job, Idle, JobType
  <2>3. CASE destroyed
    BY <1>26, <2>3 DEF HandleEvent, AsyncKept, RefInv
  <2>4. CASE ~destroyed /\ k \in deferred
    <3>1. Carries("io", k)'
      BY <1>26, <2>0, <2>1, <2>4 DEF HandleEvent, Carries, Job, JobType
    <3> QED
      BY <1>26, <2>0, <2>1, <2>2, <2>4, <3>1 DEF HandleEvent, AsyncKept, Held, asyncCall
  <2>5. CASE ~destroyed /\ k \notin deferred
    <3>1. /\ ParkCompletion(k) /\ arrived' = arrived \cup {k} /\ delivered' = delivered
          /\ stopping' = stopping
      BY <1>26, <2>0, <2>5 DEF HandleEvent, asyncCall
    <3> SUFFICES ASSUME ~stopping, NEW d \in (arrived' \cap Async) \ (delivered \cup evicted')
                 PROVE  Held(d)'
      BY <3>1 DEF AsyncKept
    <3>2. CASE d \in arrived
      BY <3>1, <3>2, <2>1, <2>2, ParkEffect DEF AsyncKept, Held, Registries
    <3>3. CASE d = k
      <4>1. d \in sent
        BY <2>0, <2>1, <3>3, SetsAssumption DEF EventsSent, Calls, Keys
      <4>2. d \in inflight \/ Claimed(d)
        BY <4>1 DEF SentInFlight
      <4>3. CASE Claimed(d)
        BY <4>3, <2>2 DEF Claimed, Carries, Held
      <4>4. CASE d \in inflight
        BY <4>4, <3>1, <3>3, <2>1, ParkEffect DEF Busy, Held, Registries
      <4> QED
        BY <4>2, <4>3, <4>4
    <3> QED
      BY <3>1, <3>2, <3>3
  <2> QED
    BY <2>3, <2>4, <2>5
<1>27. ASSUME FailConnection PROVE AsyncKept'
  <2>1. \A v \in Workers, d \in Async \ delivered' : Carries(v, d) => Carries(v, d)'
    BY <1>27, SetsAssumption DEF FailConnection, Carries, OnceInv, OnceFor, Winner,
       NothingYet, OwnThread, JobType, JobOK, Idle, Steps, Calls, Keys, Workers
  <2> QED
    BY <1>27, <2>1, AsyncKeptFrame DEF FailConnection, callState, handle, asyncCall,
       callers, history, timers
<1>28. ASSUME DisconnectEvents PROVE AsyncKept'
  <2>1. \A v \in Workers, d \in Async \ delivered' : Carries(v, d) => Carries(v, d)'
    BY <1>28, SetsAssumption DEF DisconnectEvents, Carries, OnceInv, OnceFor, Winner,
       NothingYet, OwnThread, JobType, JobOK, Idle, Steps, Calls, Keys, Workers
  <2> QED
    BY <1>28, <2>1, AsyncKeptFrame DEF DisconnectEvents, callState, conn, asyncCall,
       callers, history, timers
<1>29. ASSUME ReleaseDisconnect PROVE AsyncKept'
  <2>1. \A v \in Workers, d \in Async \ delivered' : Carries(v, d) => Carries(v, d)'
    BY <1>29, SetsAssumption DEF ReleaseDisconnect, Carries, OnceInv, OnceFor, Winner,
       NothingYet, OwnThread, JobType, JobOK, Idle, Steps, Calls, Keys, Workers
  <2> QED
    BY <1>29, <2>1, AsyncKeptFrame DEF ReleaseDisconnect, callState, conn, asyncCall,
       callers, history, timers
<1>30. ASSUME ReleaseStop PROVE AsyncKept'
  BY <1>30 DEF ReleaseStop, AsyncKept
<1>31. ASSUME NEW c \in Async, ReleaseCancel(c) PROVE AsyncKept'
  <2>1. \A v \in Workers, d \in Async \ delivered' : Carries(v, d) => Carries(v, d)'
    BY <1>31, SetsAssumption DEF ReleaseCancel, Free, Job, Carries, OnceInv, OnceFor,
       Winner, NothingYet, OwnThread, JobType, JobOK, Idle, Steps, Calls, Keys, Workers
  <2> QED
    BY <1>31, <2>1, AsyncKeptFrame DEF ReleaseCancel, callState, conn, asyncCall,
       callers, history, timers
<1>32. ASSUME ReleaseDrop PROVE AsyncKept'
  <2>1. stopping' \/ (stopping' = stopping /\ parked' = parked)
    BY <1>32 DEF ReleaseDrop, DropReference
  <2> QED
    BY <1>32, <2>1 DEF ReleaseDrop, AsyncKept, Held, Carries, asyncCall, history
<1>33. ASSUME UNCHANGED vars PROVE AsyncKept'
  BY <1>33 DEF vars, callState, handle, conn, asyncCall, timers, callers, history,
     AsyncKept, Held, Carries
<1> QED
  BY <1>1, <1>2, <1>3, <1>4, <1>5, <1>6, <1>7, <1>8, <1>9, <1>10, <1>11, <1>12, <1>13,
     <1>14, <1>15, <1>16, <1>17, <1>18, <1>19, <1>20, <1>21, <1>22, <1>23, <1>24, <1>25,
     <1>26, <1>27, <1>28, <1>29, <1>30, <1>31, <1>32, <1>33 DEF Next, AsyncStep,
     SyncStep, DeliverStep, HandlerStep, ReleaseStep


-----------------------------------------------------------------------------
(* The theorems.                                                           *)

\* What a handle starts with.
LEMMA StartOK == Init => TypeOK /\ RefInv /\ OnceInv /\ KeptInv
<1> SUFFICES ASSUME Init PROVE TypeOK /\ RefInv /\ OnceInv /\ KeptInv
  OBVIOUS
<1>1. JobType /\ \A w \in Workers : job[w] = Idle
  BY DEF Init, JobType, JobOK, Idle, Outcomes
<1>2. "io" \in Workers /\ Async \subseteq Workers
  BY DEF Workers
<1>3. TypeOK
  BY <1>1, EmptySeq DEF Init, TypeOK, Registries, HandleType, ConnType, AsyncType, CallerType, Places
<1>4. RefInv
  BY DEF Init, RefInv
<1>5. EventsSent /\ NothingYet /\ OwnThread
  BY <1>1, <1>2 DEF Init, EventsSent, NothingYet, OwnThread, Idle
<1>6. OnceInv
  BY <1>1, <1>5, SetsAssumption
     DEF Init, OnceInv, OnceFor, Untouched, Winner, Idle, Calls, Keys
<1>7. SentInFlight /\ ScopeCounts /\ AsyncKept /\ SyncKept /\ FiledNotParked
  BY DEF Init, SentInFlight, ScopeCounts, AsyncKept, SyncKept, FiledNotParked, Calls
<1> QED
  BY <1>3, <1>4, <1>5, <1>6, <1>7 DEF KeptInv

\* Every step keeps KeptInv.
LEMMA KeptStep == TypeOK /\ RefInv /\ OnceInv /\ KeptInv /\ [Next]_vars => KeptInv'
BY EventsSentStep, SentInFlightStep, ScopeCountsStep, NothingYetStep, OwnThreadStep,
   AsyncKeptStep, SyncKeptStep, FiledNotParkedStep DEF KeptInv

\* The four together are an inductive invariant.
LEMMA Invariance == Spec => [](TypeOK /\ RefInv /\ OnceInv /\ KeptInv)
<1>1. TypeOK /\ RefInv /\ OnceInv /\ KeptInv /\ [Next]_vars
        => (TypeOK /\ RefInv /\ OnceInv /\ KeptInv)'
  BY TypeStep, RefStep, OnceStep, KeptStep
<1> QED
  BY <1>1, StartOK, PTL DEF Spec

\* Whichever of reply, completion, deadline, connection failure and release
\* resolve an asynchronous call, on whatever threads, its callback is posted at
\* most once (AsyncCall::deliver).
THEOREM CallbackAtMostOnceAlways == Spec => []CallbackAtMostOnce
<1>1. TypeOK /\ OnceInv => CallbackAtMostOnce
  BY DEF OnceInv, OnceFor, CallbackAtMostOnce
<1> QED
  BY <1>1, Invariance, PTL

\* The object is deleted only when release() is over and no call is inside one of
\* its entry points (m_liveRefs, EntryGuard).
THEOREM NoUseAfterDeleteAlways == Spec => []NoUseAfterDelete
<1>1. TypeOK /\ RefInv => NoUseAfterDelete
  BY DEF RefInv, NoUseAfterDelete
<1> QED
  BY <1>1, Invariance, PTL

\* inside is what it says: a thread that is between the entry and the return of a
\* call finds the object alive.
THEOREM CallsFindTheHandleAlive ==
  Spec => [](\A c \in Calls : pc[c] \notin {"idle", "returned"} => ~destroyed)
<1>1. TypeOK /\ RefInv => \A c \in Calls : pc[c] \notin {"idle", "returned"} => ~destroyed
  BY DEF RefInv
<1> QED
  BY <1>1, Invariance, PTL

\* Until teardown a completion that reached the handle is not lost to the call it
\* answers, but for those the cap pushed out (parkCompletion, dropUnclaimedIfIdle).
THEOREM CompletionNotLostAlways == Spec => []CompletionNotLost
<1>1. KeptInv => CompletionNotLost
  BY DEF KeptInv, AsyncKept, SyncKept, FiledNotParked, Held, CompletionNotLost
<1> QED
  BY <1>1, Invariance, PTL
=============================================================================
