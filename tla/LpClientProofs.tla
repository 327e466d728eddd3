--------------------------- MODULE LpClientProofs ---------------------------
(***************************************************************************)
(* Proofs about LpClient, for any number of threads and subscriptions and  *)
(* any depth of calls made from callbacks: what lp_client_destroy and      *)
(* lp_unsubscribe promise their caller.                                    *)
(***************************************************************************)
EXTENDS LpClient, SequenceTheorems, TLAPS

-----------------------------------------------------------------------------
(* Types.                                                                  *)

Ops == {"event", "result", "status", "unsubscribe", "destroy", "rearm", "marshal"}
Places == {"sub", "client", "callback", "owner", "delete", "wait"}

Frames ==
  {f \in [op : Ops, s : Subs \cup Threads \cup {NoSub}, at : Places, used : BOOLEAN] :
     f.op \in {"event", "unsubscribe"} => f.s \in Subs}

Entries ==
  {e \in [what : {"cancel", "run", "delete", "rearm", "replay"},
          arg : Subs \cup Threads \cup {Nobody}] :
     e.what \in {"run", "replay"} => e.arg \in Threads}

StackType == stack \in [Threads -> Seq(Frames)]
FlagType ==
  /\ alive \in BOOLEAN /\ deleted \in BOOLEAN /\ closing \in BOOLEAN /\ misused \in BOOLEAN
  /\ leftBy \in [Subs -> Threads \cup {Nobody}]

TypeOK == StackType /\ queue \in Seq(Entries) /\ FlagType

-----------------------------------------------------------------------------
(* The inductive invariant.                                                *)

\* Frame i of thread t is a call of lp_client_destroy, or of lp_unsubscribe for s,
\* a callback, or past the guard of subscription s on the way to its callback.
Destroying(t, i) == i \in DOMAIN stack[t] /\ stack[t][i].op = "destroy"
Ending(t, i, s) == i \in DOMAIN stack[t] /\ stack[t][i].op = "unsubscribe" /\ stack[t][i].s = s
Calls(t, i) == i \in DOMAIN stack[t] /\ stack[t][i].at = "callback"
Past(t, i, s) == /\ i \in DOMAIN stack[t] /\ stack[t][i].op = "event" /\ stack[t][i].s = s
                 /\ stack[t][i].at \in {"client", "callback"}

CallsOnlyOn(t) == \A u \in Threads : (\E i \in DOMAIN stack[u] : Calls(u, i)) => u = t
PastOnlyOn(t, s) == \A u \in Threads : (\E i \in DOMAIN stack[u] : Past(u, i, s)) => u = t

\* lp_client_destroy: called once; behind the guard, which it takes while no other
\* thread is in a callback, the flag is down and no callback begins.
DestroyInv ==
  /\ \A t \in Threads : \A i \in DOMAIN stack[t] : Destroying(t, i) =>
       /\ closing /\ closedBy = Nobody
       /\ \A u \in Threads : \A j \in DOMAIN stack[u] : Destroying(u, j) => u = t /\ j = i
       /\ stack[t][i].at = "delete" => ~alive /\ CallsOnlyOn(t)
  /\ closedBy # Nobody => closing /\ ~alive /\ CallsOnlyOn(closedBy)

\* lp_unsubscribe, the same with the subscription's guard.
EndInv(s) ==
  /\ \A t \in Threads : \A i \in DOMAIN stack[t] : Ending(t, i, s) =>
       /\ s \in leaving /\ leftBy[s] = Nobody
       /\ \A u \in Threads : \A j \in DOMAIN stack[u] : Ending(u, j, s) => u = t /\ j = i
       /\ stack[t][i].at = "owner" => s \notin subAlive /\ PastOnlyOn(t, s)
  /\ leftBy[s] # Nobody => s \in leaving /\ s \notin subAlive /\ PastOnlyOn(leftBy[s], s)

\* The LogosAPIClient goes, or is posted to go, behind the flag.
DeletedInv ==
  /\ deleted => ~alive
  /\ \A i \in DOMAIN queue : queue[i].what = "delete" => ~alive

Guarded == DestroyInv /\ (\A s \in Subs : EndInv(s)) /\ DeletedInv /\ OwnerAlive

-----------------------------------------------------------------------------
(* What the operations on a thread's stack do to its frames.               *)

\* Frame i of thread u was there before the step, in the same place and state.
Old(u, i) ==
  /\ i \in DOMAIN stack[u]
  /\ stack'[u][i].op = stack[u][i].op /\ stack'[u][i].s = stack[u][i].s
  /\ stack'[u][i].at = stack[u][i].at

\* Every frame was, except, where there is one, frame n of thread t.
OldBut(t, n) == \A u \in Threads : \A i \in DOMAIN stack'[u] : Old(u, i) \/ (u = t /\ i = n)
AllOld == \A u \in Threads : \A i \in DOMAIN stack'[u] : Old(u, i)

LEMMA TopProperties ==
  ASSUME StackType, NEW t \in Threads, ~Idle(t)
  PROVE  /\ stack[t] \in Seq(Frames) /\ Len(stack[t]) \in Nat \ {0}
         /\ DOMAIN stack[t] = 1 .. Len(stack[t]) /\ Len(stack[t]) \in DOMAIN stack[t]
         /\ Top(t) = stack[t][Len(stack[t])] /\ Top(t) \in Frames
  BY DEF StackType, Idle, Top

\* A call or a callback begins.
LEMMA PushEffect ==
  ASSUME StackType, NEW t \in Threads, NEW f \in Frames, stack' = Pushed(t, f)
  PROVE  /\ StackType' /\ OldBut(t, Len(stack[t]) + 1)
         /\ Len(stack[t]) + 1 \in DOMAIN stack'[t] /\ stack'[t][Len(stack[t]) + 1] = f
<1>1. stack[t] \in Seq(Frames)
  BY DEF StackType
<1>2. Append(stack[t], f) \in Seq(Frames)
  BY <1>1, AppendProperties
<1>3. stack'[t] = Append(stack[t], f) /\ \A u \in Threads : u # t => stack'[u] = stack[u]
  BY DEF Pushed, StackType
<1>4. /\ DOMAIN stack[t] = 1 .. Len(stack[t]) /\ Len(stack[t]) \in Nat
      /\ DOMAIN stack'[t] = 1 .. (Len(stack[t]) + 1)
      /\ \A i \in 1 .. Len(stack[t]) : stack'[t][i] = stack[t][i]
      /\ stack'[t][Len(stack[t]) + 1] = f
  BY <1>1, <1>3, AppendProperties
<1>5. StackType'
  BY <1>2 DEF Pushed, StackType
<1>6. \A i \in DOMAIN stack'[t] : i \in DOMAIN stack[t] \/ i = Len(stack[t]) + 1
  BY <1>4
<1>7. OldBut(t, Len(stack[t]) + 1)
  BY <1>3, <1>4, <1>6 DEF OldBut, Old
<1> QED
  BY <1>4, <1>5, <1>7

\* A call or a callback returns, and a thread that waits for it goes on.
LEMMA PopEffect ==
  ASSUME StackType, NEW t, stack' = Popped(t)
  PROVE  /\ StackType' /\ AllOld
         /\ t \in Threads /\ ~Idle(t) => Len(stack[t]) \notin DOMAIN stack'[t]
<1>1. ASSUME NEW u \in Threads
      PROVE  /\ stack'[u] \in Seq(Frames) /\ \A i \in DOMAIN stack'[u] : Old(u, i)
             /\ u = t /\ ~Idle(t) => Len(stack[u]) \notin DOMAIN stack'[u]
  <2>1. stack[u] \in Seq(Frames) /\ Len(stack[u]) \in Nat /\ DOMAIN stack[u] = 1 .. Len(stack[u])
    BY DEF StackType
  <2> DEFINE b == SubSeq(stack[u], 1, Len(stack[u]) - 1)
  <2>2. /\ b \in Seq(Frames) /\ \A i \in DOMAIN b : i \in 1 .. (Len(stack[u]) - 1)
        /\ \A i \in DOMAIN b : i \in DOMAIN stack[u] /\ b[i] = stack[u][i]
    <3>1. CASE Len(stack[u]) = 0
      <4>1. stack[u] = <<>> /\ b = <<>>
        BY <2>1, <3>1
      <4> QED
        BY <4>1, EmptySeq
    <3>2. CASE Len(stack[u]) # 0
      <4>1. /\ b \in Seq(Frames) /\ Len(b) = Len(stack[u]) - 1
            /\ \A i \in 1 .. (Len(stack[u]) - 1) : b[i] = stack[u][i]
        BY <2>1, <3>2, SubSeqProperties
      <4> QED
        BY <2>1, <4>1
    <3> QED
      BY <3>1, <3>2
  <2> HIDE DEF b
  <2>3. stack'[u] = b \/ (stack'[u] = stack[u] /\ u # t)
    BY DEF Popped, b
  <2>4. Len(stack[u]) \notin DOMAIN b
    BY <2>1, <2>2
  <2> QED
    BY <2>1, <2>2, <2>3, <2>4 DEF Old
<1>2. StackType'
  BY <1>1 DEF Popped, StackType
<1> QED
  BY <1>1, <1>2 DEF AllOld

\* A call goes on to its next step.
LEMMA MoveEffect ==
  ASSUME StackType, NEW t \in Threads, ~Idle(t), NEW at \in Places, stack' = Moved(t, at)
  PROVE  /\ StackType' /\ OldBut(t, Len(stack[t]))
         /\ Len(stack[t]) \in DOMAIN stack'[t]
         /\ LET f == stack'[t][Len(stack[t])]
            IN f.op = Top(t).op /\ f.s = Top(t).s /\ f.at = at
<1>1. /\ stack[t] \in Seq(Frames) /\ Len(stack[t]) \in DOMAIN stack[t]
      /\ Top(t) = stack[t][Len(stack[t])] /\ Top(t) \in Frames
  BY TopProperties
<1>2. PICK n : n = Len(stack[t])
  OBVIOUS
<1>3. PICK g : g = [Top(t) EXCEPT !.at = at]
  OBVIOUS
<1>4. g \in Frames /\ g.op = Top(t).op /\ g.s = Top(t).s /\ g.at = at
  BY <1>1, <1>3 DEF Frames
<1>5. stack' = [stack EXCEPT ![t] = [stack[t] EXCEPT ![n] = g]]
  BY <1>1, <1>2, <1>3 DEF Moved
<1>6. [stack[t] EXCEPT ![n] = g] \in Seq(Frames)
  BY <1>1, <1>2, <1>4, ExceptSeq
<1>7. /\ stack'[t] = [stack[t] EXCEPT ![n] = g]
      /\ \A u \in Threads : u # t => stack'[u] = stack[u]
  BY <1>5 DEF StackType
<1>8. /\ DOMAIN stack'[t] = DOMAIN stack[t] /\ stack'[t][n] = g
      /\ \A i \in DOMAIN stack[t] : i # n => stack'[t][i] = stack[t][i]
  BY <1>1, <1>2, <1>7
<1>9. StackType'
  BY <1>5, <1>6 DEF StackType
<1>10. OldBut(t, n)
  BY <1>7, <1>8 DEF OldBut, Old
<1> QED
  BY <1>1, <1>2, <1>4, <1>8, <1>9, <1>10

\* User code makes a call from a callback, or from the bottom of a worker's stack.
LEMMA UseEffect ==
  ASSUME StackType, NEW t \in Threads
  PROVE  /\ Used(t) \in [Threads -> Seq(Frames)] /\ Len(Used(t)[t]) = Len(stack[t])
         /\ \A u \in Threads : /\ DOMAIN Used(t)[u] = DOMAIN stack[u]
                               /\ \A i \in DOMAIN stack[u] :
                                    /\ Used(t)[u][i].op = stack[u][i].op
                                    /\ Used(t)[u][i].s = stack[u][i].s
                                    /\ Used(t)[u][i].at = stack[u][i].at
<1>1. CASE Idle(t)
  BY <1>1 DEF Used, StackType
<1>2. CASE ~Idle(t)
  <2>1. /\ stack[t] \in Seq(Frames) /\ Len(stack[t]) \in DOMAIN stack[t]
        /\ Top(t) = stack[t][Len(stack[t])] /\ Top(t) \in Frames
    BY <1>2, TopProperties
  <2>2. PICK n : n = Len(stack[t])
    OBVIOUS
  <2>3. PICK g : g = [Top(t) EXCEPT !.used = TRUE]
    OBVIOUS
  <2>4. g \in Frames /\ g.op = Top(t).op /\ g.s = Top(t).s /\ g.at = Top(t).at
    BY <2>1, <2>3 DEF Frames
  <2>5. PICK new : new = Used(t)
    OBVIOUS
  <2>6. new = [stack EXCEPT ![t] = [stack[t] EXCEPT ![n] = g]]
    BY <1>2, <2>1, <2>2, <2>3, <2>5 DEF Used
  <2>7. /\ [stack[t] EXCEPT ![n] = g] \in Seq(Frames)
        /\ Len([stack[t] EXCEPT ![n] = g]) = Len(stack[t])
    BY <2>1, <2>2, <2>4, ExceptSeq
  <2>8. /\ new[t] = [stack[t] EXCEPT ![n] = g]
        /\ \A u \in Threads : u # t => new[u] = stack[u]
    BY <2>6 DEF StackType
  <2>9. /\ DOMAIN new[t] = DOMAIN stack[t] /\ new[t][n] = g
        /\ \A i \in DOMAIN stack[t] : i # n => new[t][i] = stack[t][i]
    BY <2>1, <2>2, <2>8
  <2>10. new \in [Threads -> Seq(Frames)] /\ Len(new[t]) = Len(stack[t])
    BY <2>6, <2>7, <2>8 DEF StackType
  <2>11. \A u \in Threads : /\ DOMAIN new[u] = DOMAIN stack[u]
                            /\ \A i \in DOMAIN stack[u] :
                                 /\ new[u][i].op = stack[u][i].op
                                 /\ new[u][i].s = stack[u][i].s
                                 /\ new[u][i].at = stack[u][i].at
    BY <2>1, <2>2, <2>4, <2>8, <2>9
  <2> QED
    BY <2>5, <2>10, <2>11
<1> QED
  BY <1>1, <1>2

LEMMA UsedEffect ==
  ASSUME StackType, NEW t \in Threads, stack' = Used(t)
  PROVE  StackType' /\ AllOld
<1>1. PICK new : new = Used(t)
  OBVIOUS
<1>2. /\ new \in [Threads -> Seq(Frames)]
      /\ \A u \in Threads : /\ DOMAIN new[u] = DOMAIN stack[u]
                            /\ \A i \in DOMAIN stack[u] : /\ new[u][i].op = stack[u][i].op
                                                          /\ new[u][i].s = stack[u][i].s
                                                          /\ new[u][i].at = stack[u][i].at
  BY <1>1, UseEffect
<1>3. stack' = new
  BY <1>1
<1> QED
  BY <1>2, <1>3 DEF StackType, AllOld, Old

LEMMA CallEffect ==
  ASSUME StackType, NEW t \in Threads, NEW f \in Frames, Calling(t, f)
  PROVE  /\ StackType' /\ OldBut(t, Len(stack[t]) + 1)
         /\ Len(stack[t]) + 1 \in DOMAIN stack'[t] /\ stack'[t][Len(stack[t]) + 1] = f
<1>1. PICK new : new = Used(t)
  OBVIOUS
<1>2. /\ new \in [Threads -> Seq(Frames)] /\ Len(new[t]) = Len(stack[t])
      /\ \A u \in Threads : /\ DOMAIN new[u] = DOMAIN stack[u]
                            /\ \A i \in DOMAIN stack[u] : /\ new[u][i].op = stack[u][i].op
                                                          /\ new[u][i].s = stack[u][i].s
                                                          /\ new[u][i].at = stack[u][i].at
  BY <1>1, UseEffect
<1>3. stack' = [new EXCEPT ![t] = Append(@, f)]
  BY <1>1 DEF Calling
<1>4. new[t] \in Seq(Frames) /\ Append(new[t], f) \in Seq(Frames)
  BY <1>2, AppendProperties
<1>5. stack'[t] = Append(new[t], f) /\ \A u \in Threads : u # t => stack'[u] = new[u]
  BY <1>2, <1>3
<1>6. /\ DOMAIN new[t] = 1 .. Len(stack[t]) /\ Len(stack[t]) \in Nat
      /\ DOMAIN stack'[t] = 1 .. (Len(stack[t]) + 1)
      /\ \A i \in 1 .. Len(stack[t]) : stack'[t][i] = new[t][i]
      /\ stack'[t][Len(stack[t]) + 1] = f
  BY <1>2, <1>4, <1>5, AppendProperties
<1>7. StackType'
  BY <1>2, <1>3, <1>4 DEF StackType
<1>8. \A i \in DOMAIN stack'[t] : i \in DOMAIN new[t] \/ i = Len(stack[t]) + 1
  BY <1>6
<1>9. OldBut(t, Len(stack[t]) + 1)
  BY <1>2, <1>5, <1>6, <1>8 DEF OldBut, Old
<1> QED
  BY <1>6, <1>7, <1>9

-----------------------------------------------------------------------------
(* Steps that begin no callback and touch no guard.                        *)

\* Frames that the two calls do not care about.
NoDestroy(f) == f.op # "destroy" /\ f.at # "callback"
NoEnd(f) == f.op # "unsubscribe" /\ (f.op = "event" => f.at = "sub")

DestroyQuiet == \A u \in Threads : \A i \in DOMAIN stack'[u] : Old(u, i) \/ NoDestroy(stack'[u][i])
EndQuiet == \A u \in Threads : \A i \in DOMAIN stack'[u] : Old(u, i) \/ NoEnd(stack'[u][i])

LEMMA QuietOld ==
  ASSUME AllOld
  PROVE  DestroyQuiet /\ EndQuiet
  BY DEF AllOld, DestroyQuiet, EndQuiet

LEMMA QuietNew ==
  ASSUME NEW t \in Threads, NEW n, NEW f, OldBut(t, n), stack'[t][n] = f
  PROVE  /\ NoDestroy(f) => DestroyQuiet
         /\ NoEnd(f) => EndQuiet
  BY DEF OldBut, DestroyQuiet, EndQuiet

\* The frames that matter to lp_client_destroy, and to lp_unsubscribe of s, are old.
EndsOld(s) == \A u \in Threads : \A i \in DOMAIN stack'[u] :
                Ending(u, i, s)' => Ending(u, i, s) /\ Old(u, i)
EndKept(s) == EndsOld(s) /\ \A u \in Threads : \A i \in DOMAIN stack'[u] :
                              Past(u, i, s)' => Past(u, i, s)
DestroysOld == \A u \in Threads : \A i \in DOMAIN stack'[u] :
                 Destroying(u, i)' => Destroying(u, i) /\ Old(u, i)

LEMMA EndQuietKept ==
  ASSUME EndQuiet, NEW s
  PROVE  EndKept(s)
  BY DEF EndQuiet, NoEnd, EndKept, EndsOld, Old, Ending, Past

LEMMA DestroyFrame ==
  ASSUME DestroyInv, DestroyQuiet, UNCHANGED <<alive, closing, closedBy>>
  PROVE  DestroyInv'
<1>1. \A u \in Threads : \A i \in DOMAIN stack'[u] :
        /\ Destroying(u, i)' => Destroying(u, i) /\ Old(u, i)
        /\ Calls(u, i)' => Calls(u, i) /\ Old(u, i)
  BY DEF DestroyQuiet, NoDestroy, Old, Destroying, Calls
<1>2. \A t \in Threads \cup {closedBy} : CallsOnlyOn(t) => CallsOnlyOn(t)'
  BY <1>1 DEF CallsOnlyOn, Old
<1>3. ASSUME NEW t \in Threads, NEW i \in DOMAIN stack'[t], Destroying(t, i)'
      PROVE  /\ closing' /\ closedBy' = Nobody
             /\ \A u \in Threads : \A j \in DOMAIN stack'[u] : Destroying(u, j)' => u = t /\ j = i
             /\ stack'[t][i].at = "delete" => ~alive' /\ CallsOnlyOn(t)'
  <2>1. Destroying(t, i) /\ Old(t, i) /\ i \in DOMAIN stack[t]
    BY <1>1, <1>3 DEF Old
  <2>2. /\ closing /\ closedBy = Nobody
        /\ \A u \in Threads : \A j \in DOMAIN stack[u] : Destroying(u, j) => u = t /\ j = i
        /\ stack[t][i].at = "delete" => ~alive /\ CallsOnlyOn(t)
    BY <2>1 DEF DestroyInv
  <2>3. \A u \in Threads : \A j \in DOMAIN stack'[u] : Destroying(u, j)' => u = t /\ j = i
    BY <1>1, <2>2 DEF Old
  <2> QED
    BY <1>2, <2>1, <2>2, <2>3 DEF Old
<1>4. (closedBy # Nobody => closing /\ ~alive /\ CallsOnlyOn(closedBy))'
  <2>1. PICK t : t = closedBy
    OBVIOUS
  <2>2. t # Nobody => closing' /\ ~alive' /\ CallsOnlyOn(t)'
    BY <1>2, <2>1 DEF DestroyInv
  <2> QED
    BY <2>1, <2>2 DEF CallsOnlyOn
<1> QED
  BY <1>3, <1>4 DEF DestroyInv

LEMMA EndFrame ==
  ASSUME NEW s \in Subs, EndInv(s), EndKept(s), leftBy'[s] = leftBy[s],
         s \in leaving => s \in leaving', s \in subAlive' => s \in subAlive
  PROVE  EndInv(s)'
<1>1. \A u \in Threads : \A i \in DOMAIN stack'[u] :
        /\ Ending(u, i, s)' => Ending(u, i, s) /\ Old(u, i)
        /\ Past(u, i, s)' => Past(u, i, s) /\ i \in DOMAIN stack[u]
  BY DEF EndKept, EndsOld, Past
<1>2. \A t \in Threads \cup {leftBy[s]} : PastOnlyOn(t, s) => PastOnlyOn(t, s)'
  BY <1>1 DEF PastOnlyOn
<1>3. ASSUME NEW t \in Threads, NEW i \in DOMAIN stack'[t], Ending(t, i, s)'
      PROVE  /\ s \in leaving' /\ leftBy'[s] = Nobody
             /\ \A u \in Threads : \A j \in DOMAIN stack'[u] : Ending(u, j, s)' => u = t /\ j = i
             /\ stack'[t][i].at = "owner" => s \notin subAlive' /\ PastOnlyOn(t, s)'
  <2>1. Ending(t, i, s) /\ Old(t, i) /\ i \in DOMAIN stack[t]
    BY <1>1, <1>3 DEF Old
  <2>2. /\ s \in leaving /\ leftBy[s] = Nobody
        /\ \A u \in Threads : \A j \in DOMAIN stack[u] : Ending(u, j, s) => u = t /\ j = i
        /\ stack[t][i].at = "owner" => s \notin subAlive /\ PastOnlyOn(t, s)
    BY <2>1 DEF EndInv
  <2>3. \A u \in Threads : \A j \in DOMAIN stack'[u] : Ending(u, j, s)' => u = t /\ j = i
    BY <1>1, <2>2 DEF Old
  <2> QED
    BY <1>2, <2>1, <2>2, <2>3 DEF Old
<1>4. (leftBy[s] # Nobody => s \in leaving /\ s \notin subAlive /\ PastOnlyOn(leftBy[s], s))'
  <2>1. PICK t : t = leftBy[s]
    OBVIOUS
  <2>2. t # Nobody => s \in leaving' /\ s \notin subAlive' /\ PastOnlyOn(t, s)'
    BY <1>2, <2>1 DEF EndInv
  <2> QED
    BY <2>1, <2>2 DEF PastOnlyOn
<1> QED
  BY <1>3, <1>4 DEF EndInv

\* The steps of this kind: what the transport brings, a callback's return, and the
\* calls that are posted to the owner or wait for it.
QuietStep ==
  \/ ResultArrives \/ StatusChanges \/ RunQueued
  \/ \E s \in Subs : EventArrives(s)
  \/ \E t \in Threads : \/ CallbackReturns(t) \/ RearmPost(t) \/ Rearm(t) \/ Invoke(t)
                        \/ \E s \in Subs : Subscribe(t, s)
                        \/ \E set \in BOOLEAN : SetStatusCallback(t, set)

LEMMA OwnerIsThread == Owner \in Threads /\ Io \in Threads
  BY DEF Threads

LEMMA NewFrames ==
  /\ Call("result", NoSub, "client") \in Frames /\ Call("rearm", NoSub, "client") \in Frames
  /\ Call("destroy", NoSub, "client") \in Frames
  /\ \A s \in Subs : /\ Call("event", s, "sub") \in Frames
                     /\ Call("unsubscribe", s, "sub") \in Frames
  /\ \A s \in Subs \cup {NoSub} : Call("marshal", s, "wait") \in Frames
  /\ \A s \in Threads \cup {NoSub} : Call("status", s, "client") \in Frames
  BY DEF Call, Frames, Ops, Places

LEMMA QuietPush ==
  ASSUME StackType, NEW t \in Threads, NEW f \in Frames, NoDestroy(f), NoEnd(f),
         stack' = Pushed(t, f) \/ Calling(t, f)
  PROVE  StackType' /\ DestroyQuiet /\ EndQuiet
<1>1. /\ StackType' /\ OldBut(t, Len(stack[t]) + 1)
      /\ stack'[t][Len(stack[t]) + 1] = f
  BY PushEffect, CallEffect
<1> QED
  BY <1>1, QuietNew

LEMMA MarshalEffect ==
  ASSUME StackType, NEW t \in Threads, NEW s \in Subs \cup {NoSub}, RunOnOwnerThread(t, s)
  PROVE  StackType' /\ DestroyQuiet /\ EndQuiet
<1>1. CASE t = Owner
  BY <1>1, UsedEffect, QuietOld DEF RunOnOwnerThread
<1>2. CASE t # Owner
  <2>1. Calling(t, Call("marshal", s, "wait"))
    BY <1>2 DEF RunOnOwnerThread
  <2>2. NoDestroy(Call("marshal", s, "wait")) /\ NoEnd(Call("marshal", s, "wait"))
    BY DEF NoDestroy, NoEnd, Call
  <2> QED
    BY <2>1, <2>2, NewFrames, QuietPush
<1> QED
  BY <1>1, <1>2

LEMMA QueuedEffect ==
  ASSUME TypeOK, RunQueued
  PROVE  StackType' /\ DestroyQuiet /\ EndQuiet
<1>1. PICK e : e = Head(queue)
  OBVIOUS
<1>2. e \in Entries
  BY <1>1, HeadTailProperties DEF TypeOK, RunQueued
<1>3. CASE e.what = "run"
  <2>1. stack' = Popped(e.arg)
    BY <1>1, <1>3 DEF RunQueued
  <2> QED
    BY <2>1, PopEffect, QuietOld DEF TypeOK
<1>4. CASE e.what = "replay"
  <2>1. stack' = Pushed(Owner, Call("status", e.arg, "client")) \/ stack' = Popped(e.arg)
    BY <1>1, <1>4 DEF RunQueued
  <2>2. CASE stack' = Popped(e.arg)
    BY <2>2, PopEffect, QuietOld DEF TypeOK
  <2>3. CASE stack' = Pushed(Owner, Call("status", e.arg, "client"))
    <3>1. e.arg \in Threads
      BY <1>2, <1>4 DEF Entries
    <3>2. NoDestroy(Call("status", e.arg, "client")) /\ NoEnd(Call("status", e.arg, "client"))
      BY DEF NoDestroy, NoEnd, Call
    <3> QED
      BY <2>3, <3>1, <3>2, OwnerIsThread, NewFrames, QuietPush DEF TypeOK
  <2> QED
    BY <2>1, <2>2, <2>3
<1>5. CASE e.what \in {"delete", "cancel", "rearm"}
  <2>1. stack' = stack
    BY <1>1, <1>5 DEF RunQueued
  <2>2. AllOld
    BY <2>1 DEF AllOld, Old
  <2> QED
    BY <2>1, <2>2, QuietOld DEF TypeOK, StackType
<1> QED
  BY <1>2, <1>3, <1>4, <1>5 DEF Entries

LEMMA StatusEffect ==
  ASSUME StackType, NEW t \in Threads, NEW set \in BOOLEAN, SetStatusCallback(t, set)
  PROVE  StackType' /\ DestroyQuiet /\ EndQuiet
<1>1. \/ stack' = Used(t)
      \/ Calling(t, Call("status", NoSub, "client"))
      \/ Calling(t, Call("marshal", NoSub, "wait"))
  BY DEF SetStatusCallback
<1>2. /\ NoDestroy(Call("status", NoSub, "client")) /\ NoEnd(Call("status", NoSub, "client"))
      /\ NoDestroy(Call("marshal", NoSub, "wait")) /\ NoEnd(Call("marshal", NoSub, "wait"))
  BY DEF NoDestroy, NoEnd, Call
<1> QED
  BY <1>1, <1>2, NewFrames, QuietPush, UsedEffect, QuietOld

LEMMA QuietStepEffect ==
  ASSUME TypeOK, QuietStep
  PROVE  /\ StackType' /\ DestroyQuiet /\ EndQuiet
         /\ UNCHANGED <<guards, closing, closedBy, leaving, leftBy>>
<1>0. StackType /\ UNCHANGED <<guards, closing, closedBy, leaving, leftBy>>
  BY DEF TypeOK, QuietStep, ResultArrives, StatusChanges, RunQueued, EventArrives,
     CallbackReturns, RearmPost, Rearm, Invoke, Subscribe, RunOnOwnerThread,
     SetStatusCallback, history, guards
<1> DEFINE G == StackType' /\ DestroyQuiet /\ EndQuiet
<1>1. ASSUME ResultArrives PROVE G
  <2>1. /\ stack' = Pushed(Owner, Call("result", NoSub, "client"))
        /\ NoDestroy(Call("result", NoSub, "client")) /\ NoEnd(Call("result", NoSub, "client"))
    BY <1>1 DEF ResultArrives, NoDestroy, NoEnd, Call
  <2> QED
    BY <1>0, <2>1, NewFrames, OwnerIsThread, QuietPush
<1>2. ASSUME StatusChanges PROVE G
  <2>1. /\ stack' = Pushed(Owner, Call("status", NoSub, "client"))
        /\ NoDestroy(Call("status", NoSub, "client")) /\ NoEnd(Call("status", NoSub, "client"))
    BY <1>2 DEF StatusChanges, NoDestroy, NoEnd, Call
  <2> QED
    BY <1>0, <2>1, NewFrames, OwnerIsThread, QuietPush
<1>3. ASSUME NEW s \in Subs, EventArrives(s) PROVE G
  <2>1. PICK t \in Threads : stack' = Pushed(t, Call("event", s, "sub"))
    BY <1>3, OwnerIsThread DEF EventArrives
  <2>2. NoDestroy(Call("event", s, "sub")) /\ NoEnd(Call("event", s, "sub"))
    BY DEF NoDestroy, NoEnd, Call
  <2> QED
    BY <1>0, <2>1, <2>2, NewFrames, QuietPush
<1>4. ASSUME NEW t \in Threads, CallbackReturns(t) \/ RearmPost(t) PROVE G
  <2>1. stack' = Popped(t)
    BY <1>4 DEF CallbackReturns, RearmPost
  <2> QED
    BY <1>0, <2>1, PopEffect, QuietOld
<1>5. ASSUME NEW t \in Threads, Rearm(t) PROVE G
  <2>1. /\ Calling(t, Call("rearm", NoSub, "client"))
        /\ NoDestroy(Call("rearm", NoSub, "client")) /\ NoEnd(Call("rearm", NoSub, "client"))
    BY <1>5 DEF Rearm, NoDestroy, NoEnd, Call
  <2> QED
    BY <1>0, <2>1, NewFrames, QuietPush
<1>6. ASSUME NEW t \in Threads, Invoke(t) PROVE G
  BY <1>0, <1>6, MarshalEffect DEF Invoke
<1>7. ASSUME NEW t \in Threads, NEW s \in Subs, Subscribe(t, s) PROVE G
  BY <1>0, <1>7, MarshalEffect DEF Subscribe
<1>8. ASSUME NEW t \in Threads, NEW set \in BOOLEAN, SetStatusCallback(t, set) PROVE G
  BY <1>0, <1>8, StatusEffect
<1>9. ASSUME RunQueued PROVE G
  BY <1>9, QueuedEffect
<1>10. G
  BY <1>1, <1>2, <1>3, <1>4, <1>5, <1>6, <1>7, <1>8, <1>9 DEF QuietStep
<1> QED
  BY <1>0, <1>10

-----------------------------------------------------------------------------
(* Steps behind the guards.                                                *)

\* While the flag is up, what runs is of no concern to lp_client_destroy ...
LEMMA DestroyAlive ==
  ASSUME DestroyInv, alive, DestroysOld, UNCHANGED <<alive, closing, closedBy>>
  PROVE  DestroyInv'
<1>1. closedBy = Nobody
  BY DEF DestroyInv
<1>2. ASSUME NEW t \in Threads, NEW i \in DOMAIN stack'[t], Destroying(t, i)'
      PROVE  /\ closing' /\ closedBy' = Nobody /\ stack'[t][i].at # "delete"
             /\ \A u \in Threads : \A j \in DOMAIN stack'[u] : Destroying(u, j)' => u = t /\ j = i
  <2>1. Destroying(t, i) /\ Old(t, i) /\ i \in DOMAIN stack[t]
    BY <1>2 DEF DestroysOld, Old
  <2>2. /\ closing /\ closedBy = Nobody /\ stack[t][i].at # "delete"
        /\ \A u \in Threads : \A j \in DOMAIN stack[u] : Destroying(u, j) => u = t /\ j = i
    BY <2>1 DEF DestroyInv
  <2>3. \A u \in Threads : \A j \in DOMAIN stack'[u] : Destroying(u, j)' => u = t /\ j = i
    BY <2>2 DEF DestroysOld, Old
  <2> QED
    BY <2>1, <2>2, <2>3 DEF Old
<1> QED
  BY <1>1, <1>2 DEF DestroyInv

\* ... and the same for a subscription.
LEMMA EndAlive ==
  ASSUME NEW s \in Subs, EndInv(s), s \in subAlive, EndsOld(s),
         UNCHANGED <<subAlive, leaving, leftBy>>
  PROVE  EndInv(s)'
<1>1. leftBy[s] = Nobody
  BY DEF EndInv
<1>2. ASSUME NEW t \in Threads, NEW i \in DOMAIN stack'[t], Ending(t, i, s)'
      PROVE  /\ s \in leaving' /\ leftBy'[s] = Nobody /\ stack'[t][i].at # "owner"
             /\ \A u \in Threads : \A j \in DOMAIN stack'[u] : Ending(u, j, s)' => u = t /\ j = i
  <2>1. Ending(t, i, s) /\ Old(t, i) /\ i \in DOMAIN stack[t]
    BY <1>2 DEF EndsOld, Old
  <2>2. /\ s \in leaving /\ leftBy[s] = Nobody /\ stack[t][i].at # "owner"
        /\ \A u \in Threads : \A j \in DOMAIN stack[u] : Ending(u, j, s) => u = t /\ j = i
    BY <2>1 DEF EndInv
  <2>3. \A u \in Threads : \A j \in DOMAIN stack'[u] : Ending(u, j, s)' => u = t /\ j = i
    BY <2>2 DEF EndsOld, Old
  <2> QED
    BY <2>1, <2>2, <2>3 DEF Old
<1> QED
  BY <1>1, <1>2 DEF EndInv

Kept == StackType' /\ DestroyInv' /\ \A s \in Subs : EndInv(s)'
Before == StackType /\ FlagType /\ DestroyInv /\ \A s \in Subs : EndInv(s)

LEMMA QuietKept ==
  ASSUME Before, StackType', DestroyQuiet, EndQuiet,
         UNCHANGED <<alive, subAlive, closing, closedBy, leaving, leftBy>>
  PROVE  Kept
<1>1. \A s \in Subs : EndKept(s)
  BY EndQuietKept
<1> QED
  BY <1>1, DestroyFrame, EndFrame DEF Before, Kept

\* An event passes its subscription's guard while the subscription is alive.
LEMMA TakeSubKept ==
  ASSUME Before, NEW t \in Threads, TakeSub(t)
  PROVE  Kept
<1>1. /\ ~Idle(t) /\ Top(t).op = "event"
      /\ UNCHANGED <<alive, subAlive, closing, closedBy, leaving, leftBy>>
  BY DEF TakeSub, At, guards, history
<1>2. CASE Top(t).s \notin subAlive
  <2>1. stack' = Popped(t)
    BY <1>2 DEF TakeSub
  <2> QED
    BY <1>1, <2>1, PopEffect, QuietOld, QuietKept DEF Before
<1>3. CASE Top(t).s \in subAlive
  <2>1. PICK n : n = Len(stack[t])
    OBVIOUS
  <2>2. stack' = Moved(t, "client") /\ "client" \in Places
    BY <1>3 DEF TakeSub, Places
  <2>3. /\ StackType' /\ OldBut(t, n) /\ stack'[t][n].op = "event"
        /\ stack'[t][n].s = Top(t).s /\ stack'[t][n].at = "client"
    BY <1>1, <2>1, <2>2, MoveEffect DEF Before
  <2>4. DestroyQuiet
    BY <2>3, QuietNew DEF NoDestroy
  <2>5. \A s \in Subs : EndsOld(s)
    BY <2>3 DEF EndsOld, OldBut, Ending, Old
  <2>6. ASSUME NEW s \in Subs, s # Top(t).s PROVE EndKept(s)
    BY <2>3, <2>5, <2>6 DEF EndKept, OldBut, Past, Old
  <2>7. ASSUME NEW s \in Subs PROVE EndInv(s)'
    <3>1. CASE s = Top(t).s
      BY <1>1, <1>3, <2>5, <3>1, EndAlive DEF Before
    <3>2. CASE s # Top(t).s
      BY <1>1, <2>6, <3>2, EndFrame DEF Before
    <3> QED
      BY <3>1, <3>2
  <2> QED
    BY <1>1, <2>3, <2>4, <2>7, DestroyFrame DEF Before, Kept
<1> QED
  BY <1>2, <1>3

\* A callback begins while the client is alive.
LEMMA TakeClientKept ==
  ASSUME Before, NEW t \in Threads, TakeClient(t)
  PROVE  Kept
<1>1. /\ ~Idle(t) /\ Top(t).op \in {"event", "result", "status"} /\ Top(t).at = "client"
      /\ UNCHANGED <<alive, subAlive, closing, closedBy, leaving, leftBy>>
  BY DEF TakeClient, guards, history
<1>2. CASE ~alive
  <2>1. stack' = Popped(t)
    BY <1>2 DEF TakeClient
  <2> QED
    BY <1>1, <2>1, PopEffect, QuietOld, QuietKept DEF Before
<1>3. CASE alive
  <2>1. PICK n : n = Len(stack[t])
    OBVIOUS
  <2>2. stack' = Moved(t, "callback") /\ "callback" \in Places
    BY <1>3 DEF TakeClient, Places
  <2>3. /\ StackType' /\ OldBut(t, n) /\ stack'[t][n].op = Top(t).op
        /\ stack'[t][n].s = Top(t).s /\ stack'[t][n].at = "callback"
    BY <1>1, <2>1, <2>2, MoveEffect DEF Before
  <2>4. n \in DOMAIN stack[t] /\ Top(t) = stack[t][n]
    BY <1>1, <2>1, TopProperties DEF Before
  <2>5. DestroysOld
    BY <1>1, <2>3 DEF DestroysOld, OldBut, Destroying, Old
  <2>6. \A s \in Subs : EndKept(s)
    BY <1>1, <2>3, <2>4 DEF EndKept, EndsOld, OldBut, Ending, Past, Old
  <2> QED
    BY <1>1, <1>3, <2>3, <2>5, <2>6, DestroyAlive, EndFrame DEF Before, Kept
<1> QED
  BY <1>2, <1>3 DEF Before, FlagType

\* lp_unsubscribe begins, once per subscription.
LEMMA UnsubscribeKept ==
  ASSUME Before, NEW t \in Threads, NEW e \in Subs, Unsubscribe(t, e)
  PROVE  Kept
<1>1. /\ e \notin leaving /\ leaving' = leaving \cup {e}
      /\ Calling(t, Call("unsubscribe", e, "sub"))
      /\ UNCHANGED <<alive, subAlive, closing, closedBy, leftBy>>
  BY DEF Unsubscribe, guards
<1>2. PICK n : n = Len(stack[t]) + 1
  OBVIOUS
<1>3. PICK f : f = Call("unsubscribe", e, "sub")
  OBVIOUS
<1>4. f \in Frames /\ f.op = "unsubscribe" /\ f.s = e /\ f.at = "sub"
  BY <1>3, NewFrames DEF Call
<1>5. StackType' /\ OldBut(t, n) /\ stack'[t][n] = f
  BY <1>1, <1>2, <1>3, <1>4, CallEffect DEF Before
<1>6. DestroyQuiet
  BY <1>4, <1>5, QuietNew DEF NoDestroy
<1>7. ASSUME NEW s \in Subs, s # e PROVE EndInv(s)'
  <2>1. EndKept(s)
    BY <1>4, <1>5, <1>7 DEF EndKept, EndsOld, OldBut, Ending, Past, Old
  <2> QED
    BY <1>1, <2>1, EndFrame DEF Before
<1>8. EndInv(e)'
  <2>1. EndInv(e)
    BY DEF Before
  <2>2. leftBy[e] = Nobody /\ \A u \in Threads : \A i \in DOMAIN stack[u] : ~Ending(u, i, e)
    BY <1>1, <2>1 DEF EndInv
  <2>3. \A u \in Threads : \A i \in DOMAIN stack'[u] : Ending(u, i, e)' => u = t /\ i = n
    BY <1>5, <2>2 DEF OldBut, Ending, Old
  <2> QED
    BY <1>1, <1>4, <1>5, <2>2, <2>3 DEF EndInv
<1> QED
  BY <1>1, <1>5, <1>6, <1>7, <1>8, DestroyFrame DEF Before, Kept

\* The subscription's guard is taken while no other thread is past it.
LEMMA UnsubscribeSubKept ==
  ASSUME Before, NEW t \in Threads, UnsubscribeSub(t)
  PROVE  Kept
<1>1. PICK e : e = Top(t).s
  OBVIOUS
<1>2. /\ ~Idle(t) /\ Top(t).op = "unsubscribe" /\ SubFree(t, e)
      /\ subAlive' = subAlive \ {e} /\ stack' = Moved(t, "owner")
      /\ UNCHANGED <<alive, closing, closedBy, leaving, leftBy>>
  BY <1>1 DEF UnsubscribeSub, At, history
<1>3. PICK n : n = Len(stack[t])
  OBVIOUS
<1>4. /\ StackType' /\ OldBut(t, n) /\ stack'[t][n].op = "unsubscribe"
      /\ stack'[t][n].s = e /\ stack'[t][n].at = "owner"
  <2>1. "owner" \in Places
    BY DEF Places
  <2> QED
    BY <1>1, <1>2, <1>3, <2>1, MoveEffect DEF Before
<1>5. n \in DOMAIN stack[t] /\ Top(t) = stack[t][n] /\ e \in Subs
  BY <1>1, <1>2, <1>3, TopProperties DEF Before, Frames
<1>6. DestroyQuiet
  BY <1>4, QuietNew DEF NoDestroy
<1>7. ASSUME NEW s \in Subs, s # e PROVE EndInv(s)'
  <2>1. EndKept(s)
    BY <1>4, <1>7 DEF EndKept, EndsOld, OldBut, Ending, Past, Old
  <2> QED
    BY <1>2, <2>1, EndFrame DEF Before
<1>8. EndInv(e)'
  <2>1. EndInv(e) /\ Ending(t, n, e)
    BY <1>1, <1>2, <1>5 DEF Before, Ending
  <2>2. /\ e \in leaving /\ leftBy[e] = Nobody
        /\ \A u \in Threads : \A j \in DOMAIN stack[u] : Ending(u, j, e) => u = t /\ j = n
    BY <1>5, <2>1 DEF EndInv
  <2>3. \A u \in Threads : \A i \in DOMAIN stack'[u] : Ending(u, i, e)' => u = t /\ i = n
    BY <1>4, <2>2 DEF OldBut, Ending, Old
  <2>4. \A u \in Threads : \A i \in DOMAIN stack'[u] : Past(u, i, e)' => Past(u, i, e)
    BY <1>4 DEF OldBut, Past, Old
  <2>5. \A u \in Threads : \A i \in DOMAIN stack[u] : Past(u, i, e) => u = t
    BY <1>2 DEF SubFree, HoldsSub, Past
  <2>6. PastOnlyOn(t, e)'
    BY <2>4, <2>5 DEF PastOnlyOn, Past
  <2> QED
    BY <1>2, <2>2, <2>3, <2>6 DEF EndInv
<1> QED
  BY <1>2, <1>4, <1>6, <1>7, <1>8, DestroyFrame DEF Before, Kept

\* lp_unsubscribe returns.
LEMMA UnsubscribeOwnerKept ==
  ASSUME Before, NEW t \in Threads, UnsubscribeOwner(t)
  PROVE  Kept
<1>1. PICK e : e = Top(t).s
  OBVIOUS
<1>2. /\ ~Idle(t) /\ Top(t).op = "unsubscribe" /\ Top(t).at = "owner"
      /\ leftBy' = [leftBy EXCEPT ![e] = t] /\ stack' = Popped(t)
      /\ UNCHANGED <<alive, subAlive, closing, closedBy, leaving>>
  BY <1>1 DEF UnsubscribeOwner, At, guards
<1>3. PICK n : n = Len(stack[t])
  OBVIOUS
<1>4. n \in DOMAIN stack[t] /\ Top(t) = stack[t][n] /\ e \in Subs
  BY <1>1, <1>2, <1>3, TopProperties DEF Before, Frames
<1>5. StackType' /\ AllOld /\ n \notin DOMAIN stack'[t]
  BY <1>2, <1>3, PopEffect DEF Before
<1>6. DestroyQuiet /\ \A s \in Subs : EndKept(s)
  BY <1>5, QuietOld, EndQuietKept
<1>7. leftBy'[e] = t /\ \A s \in Subs : s # e => leftBy'[s] = leftBy[s]
  BY <1>2, <1>4 DEF Before, FlagType
<1>8. ASSUME NEW s \in Subs, s # e PROVE EndInv(s)'
  BY <1>2, <1>6, <1>7, <1>8, EndFrame DEF Before
<1>9. EndInv(e)'
  <2>1. EndInv(e) /\ Ending(t, n, e)
    BY <1>1, <1>2, <1>4 DEF Before, Ending
  <2>2. /\ e \in leaving /\ e \notin subAlive /\ PastOnlyOn(t, e)
        /\ \A u \in Threads : \A j \in DOMAIN stack[u] : Ending(u, j, e) => u = t /\ j = n
    BY <1>2, <1>4, <2>1 DEF EndInv
  <2>3. \A u \in Threads : \A i \in DOMAIN stack'[u] : ~Ending(u, i, e)'
    BY <1>4, <1>5, <1>6, <2>2 DEF EndKept, EndsOld, Old
  <2>4. PastOnlyOn(t, e)'
    BY <1>4, <1>6, <2>2 DEF PastOnlyOn, EndKept, Past
  <2>5. (leftBy[e] # Nobody => e \in leaving /\ e \notin subAlive /\ PastOnlyOn(leftBy[e], e))'
    BY <1>2, <1>7, <2>2, <2>4 DEF PastOnlyOn
  <2> QED
    BY <2>3, <2>5 DEF EndInv
<1> QED
  BY <1>2, <1>5, <1>6, <1>8, <1>9, DestroyFrame DEF Before, Kept

\* lp_client_destroy begins, once.
LEMMA DestroyKept ==
  ASSUME Before, NEW t \in Threads, Destroy(t)
  PROVE  Kept
<1>1. /\ ~closing /\ closing' = TRUE /\ Calling(t, Call("destroy", NoSub, "client"))
      /\ UNCHANGED <<alive, subAlive, closedBy, leaving, leftBy>>
  BY DEF Destroy, guards
<1>2. PICK n : n = Len(stack[t]) + 1
  OBVIOUS
<1>3. PICK f : f = Call("destroy", NoSub, "client")
  OBVIOUS
<1>4. f \in Frames /\ f.op = "destroy" /\ f.at = "client"
  BY <1>3, NewFrames DEF Call
<1>5. StackType' /\ OldBut(t, n) /\ stack'[t][n] = f
  BY <1>1, <1>2, <1>3, <1>4, CallEffect DEF Before
<1>6. EndQuiet
  BY <1>4, <1>5, QuietNew DEF NoEnd
<1>7. ASSUME NEW s \in Subs PROVE EndInv(s)'
  BY <1>1, <1>6, EndFrame, EndQuietKept DEF Before
<1>8. DestroyInv'
  <2>1. closedBy = Nobody /\ \A u \in Threads : \A i \in DOMAIN stack[u] : ~Destroying(u, i)
    BY <1>1 DEF Before, DestroyInv
  <2>2. \A u \in Threads : \A i \in DOMAIN stack'[u] : Destroying(u, i)' => u = t /\ i = n
    BY <1>5, <2>1 DEF OldBut, Destroying, Old
  <2> QED
    BY <1>1, <1>4, <1>5, <2>1, <2>2 DEF DestroyInv
<1> QED
  BY <1>5, <1>7, <1>8 DEF Kept

\* The client's guard is taken while no other thread is in a callback.
LEMMA DestroyGuardKept ==
  ASSUME Before, NEW t \in Threads, DestroyGuard(t)
  PROVE  Kept
<1>1. /\ ~Idle(t) /\ Top(t).op = "destroy" /\ ClientFree(t) /\ alive' = FALSE
      /\ stack' = Moved(t, "delete")
      /\ UNCHANGED <<subAlive, closing, closedBy, leaving, leftBy>>
  BY DEF DestroyGuard, At, history
<1>2. PICK n : n = Len(stack[t])
  OBVIOUS
<1>3. /\ StackType' /\ OldBut(t, n) /\ stack'[t][n].op = "destroy" /\ stack'[t][n].at = "delete"
  <2>1. "delete" \in Places
    BY DEF Places
  <2> QED
    BY <1>1, <1>2, <2>1, MoveEffect DEF Before
<1>4. n \in DOMAIN stack[t] /\ Top(t) = stack[t][n]
  BY <1>1, <1>2, TopProperties DEF Before
<1>5. EndQuiet
  BY <1>3, QuietNew DEF NoEnd
<1>6. ASSUME NEW s \in Subs PROVE EndInv(s)'
  BY <1>1, <1>5, EndFrame, EndQuietKept DEF Before
<1>7. DestroyInv'
  <2>1. DestroyInv /\ Destroying(t, n)
    BY <1>1, <1>4 DEF Before, Destroying
  <2>2. /\ closing /\ closedBy = Nobody
        /\ \A u \in Threads : \A j \in DOMAIN stack[u] : Destroying(u, j) => u = t /\ j = n
    BY <1>4, <2>1 DEF DestroyInv
  <2>3. \A u \in Threads : \A i \in DOMAIN stack'[u] : Destroying(u, i)' => u = t /\ i = n
    BY <1>3, <2>2 DEF OldBut, Destroying, Old
  <2>4. \A u \in Threads : \A i \in DOMAIN stack'[u] : Calls(u, i)' => Calls(u, i)
    BY <1>3 DEF OldBut, Calls, Old
  <2>5. \A u \in Threads : \A i \in DOMAIN stack[u] : Calls(u, i) => u = t
    BY <1>1 DEF ClientFree, HoldsClient, Calls
  <2>6. CallsOnlyOn(t)'
    BY <2>4, <2>5 DEF CallsOnlyOn, Calls
  <2> QED
    BY <1>1, <2>2, <2>3, <2>6 DEF DestroyInv
<1> QED
  BY <1>3, <1>6, <1>7 DEF Kept

\* lp_client_destroy returns.
LEMMA DestroyClientKept ==
  ASSUME Before, NEW t \in Threads, DestroyClient(t)
  PROVE  Kept /\ ~alive
<1>1. /\ ~Idle(t) /\ Top(t).op = "destroy" /\ Top(t).at = "delete"
      /\ closedBy' = t /\ stack' = Popped(t)
      /\ UNCHANGED <<alive, subAlive, closing, leaving, leftBy>>
  BY DEF DestroyClient, At, guards
<1>2. PICK n : n = Len(stack[t])
  OBVIOUS
<1>3. n \in DOMAIN stack[t] /\ Top(t) = stack[t][n]
  BY <1>1, <1>2, TopProperties DEF Before
<1>4. StackType' /\ AllOld /\ n \notin DOMAIN stack'[t]
  BY <1>1, <1>2, PopEffect DEF Before
<1>5. ASSUME NEW s \in Subs PROVE EndInv(s)'
  BY <1>1, <1>4, QuietOld, EndFrame, EndQuietKept DEF Before
<1>6. DestroyInv /\ Destroying(t, n)
  BY <1>1, <1>3 DEF Before, Destroying
<1>7. /\ closing /\ ~alive /\ CallsOnlyOn(t)
      /\ \A u \in Threads : \A j \in DOMAIN stack[u] : Destroying(u, j) => u = t /\ j = n
  BY <1>1, <1>3, <1>6 DEF DestroyInv
<1>8. \A u \in Threads : \A i \in DOMAIN stack'[u] : ~Destroying(u, i)'
  BY <1>4, <1>7 DEF AllOld, Old, Destroying
<1>9. CallsOnlyOn(t)'
  BY <1>4, <1>7 DEF CallsOnlyOn, AllOld, Old, Calls
<1>10. (closedBy # Nobody => closing /\ ~alive /\ CallsOnlyOn(closedBy))'
  BY <1>1, <1>7, <1>9 DEF CallsOnlyOn
<1> QED
  BY <1>4, <1>5, <1>7, <1>8, <1>10 DEF DestroyInv, Kept

-----------------------------------------------------------------------------
(* The owner's queue.                                                      *)

LEMMA AppendedEntries ==
  ASSUME queue \in Seq(Entries), NEW e \in Entries, queue' = Append(queue, e)
  PROVE  /\ queue' \in Seq(Entries)
         /\ \A i \in DOMAIN queue' : queue'[i] = e \/ \E j \in DOMAIN queue : queue'[i] = queue[j]
<1>1. /\ queue' \in Seq(Entries) /\ DOMAIN queue = 1 .. Len(queue) /\ Len(queue) \in Nat
      /\ DOMAIN queue' = 1 .. (Len(queue) + 1)
      /\ \A i \in 1 .. Len(queue) : queue'[i] = queue[i]
      /\ queue'[Len(queue) + 1] = e
  BY AppendProperties
<1>2. \A i \in DOMAIN queue' : i \in DOMAIN queue \/ i = Len(queue) + 1
  BY <1>1
<1> QED
  BY <1>1, <1>2

LEMMA TailEntries ==
  ASSUME queue \in Seq(Entries), queue # <<>>, queue' = Tail(queue)
  PROVE  /\ queue' \in Seq(Entries)
         /\ \A i \in DOMAIN queue' : \E j \in DOMAIN queue : queue'[i] = queue[j]
<1>1. /\ queue' \in Seq(Entries) /\ DOMAIN queue = 1 .. Len(queue) /\ Len(queue) \in Nat \ {0}
      /\ DOMAIN queue' = 1 .. (Len(queue) - 1)
      /\ \A i \in 1 .. (Len(queue) - 1) : queue'[i] = queue[i + 1]
  BY HeadTailProperties
<1>2. \A i \in DOMAIN queue' : i + 1 \in DOMAIN queue
  BY <1>1
<1> QED
  BY <1>1, <1>2

\* Nothing deletes a client that is alive, nor posts that it be deleted.
LEMMA NothingPosted ==
  ASSUME TypeOK, DeletedInv, alive' => alive, deleted' => deleted \/ ~alive,
         \/ queue' = queue \/ queue' = <<>>
         \/ queue # <<>> /\ queue' = Tail(queue)
         \/ \E e \in Entries : queue' = Append(queue, e) /\ (e.what = "delete" => ~alive)
  PROVE  queue' \in Seq(Entries) /\ DeletedInv'
<1>1. CASE queue' = queue
  BY <1>1 DEF TypeOK, DeletedInv
<1>2. CASE queue' = <<>>
  BY <1>2, EmptySeq DEF DeletedInv
<1>3. CASE queue # <<>> /\ queue' = Tail(queue)
  BY <1>3, TailEntries DEF TypeOK, DeletedInv
<1>4. CASE \E e \in Entries : queue' = Append(queue, e) /\ (e.what = "delete" => ~alive)
  <2>1. PICK e \in Entries : queue' = Append(queue, e) /\ (e.what = "delete" => ~alive)
    BY <1>4
  <2>2. /\ queue' \in Seq(Entries)
        /\ \A i \in DOMAIN queue' : queue'[i] = e \/ \E j \in DOMAIN queue : queue'[i] = queue[j]
    BY <2>1, AppendedEntries DEF TypeOK
  <2> QED
    BY <2>1, <2>2 DEF DeletedInv
<1> QED
  BY <1>1, <1>2, <1>3, <1>4

Safe == queue' \in Seq(Entries) /\ DeletedInv' /\ OwnerAlive' /\ FlagType'
Sound == TypeOK /\ Guarded

LEMMA SoundFacts ==
  ASSUME Sound
  PROVE  /\ Before /\ TypeOK /\ DeletedInv /\ OwnerAlive /\ FlagType /\ (deleted => ~alive)
  BY DEF Sound, TypeOK, Guarded, Before, DeletedInv

\* A step that posts nothing.
LEMMA StillSafe ==
  ASSUME Sound, UNCHANGED <<queue, deleted, misused, leftBy>>, alive' \in BOOLEAN,
         alive' => alive, closing' \in BOOLEAN
  PROVE  Safe
<1>1. queue' \in Seq(Entries) /\ DeletedInv'
  BY SoundFacts, NothingPosted
<1> QED
  BY <1>1, SoundFacts DEF Safe, OwnerAlive, FlagType

\* A step that posts something, or takes it.
LEMMA PostSafe ==
  ASSUME Sound, UNCHANGED <<alive, closing>>, deleted' => deleted \/ ~alive,
         misused' = misused \/ misused' = (misused \/ (alive /\ deleted)),
         deleted' \in BOOLEAN, leftBy' \in [Subs -> Threads \cup {Nobody}],
         \/ queue' = queue \/ queue' = <<>>
         \/ queue # <<>> /\ queue' = Tail(queue)
         \/ \E e \in Entries : queue' = Append(queue, e) /\ (e.what = "delete" => ~alive)
  PROVE  Safe
<1>1. queue' \in Seq(Entries) /\ DeletedInv'
  BY SoundFacts, NothingPosted
<1>2. misused' = FALSE
  BY SoundFacts DEF OwnerAlive, FlagType
<1> QED
  BY <1>1, <1>2, SoundFacts DEF Safe, OwnerAlive, FlagType

LEMMA NewEntries ==
  /\ [what |-> "delete", arg |-> Nobody] \in Entries
  /\ [what |-> "rearm", arg |-> Nobody] \in Entries
  /\ \A s \in Subs : [what |-> "cancel", arg |-> s] \in Entries
  /\ \A t \in Threads : /\ [what |-> "run", arg |-> t] \in Entries
                        /\ [what |-> "replay", arg |-> t] \in Entries
  BY DEF Entries

\* Every step uses the LogosAPIClient only while it is there.
LEMMA SafeStep ==
  ASSUME Sound, [Next]_vars
  PROVE  Safe
<1>0. FlagType /\ Before
  BY SoundFacts
<1>1. ASSUME \/ ResultArrives \/ StatusChanges \/ UNCHANGED vars
             \/ \E s \in Subs : EventArrives(s)
             \/ \E t \in Threads : \/ TakeSub(t) \/ TakeClient(t) \/ CallbackReturns(t)
                                   \/ UnsubscribeSub(t) \/ DestroyGuard(t) \/ Destroy(t) \/ Rearm(t)
                                   \/ \E s \in Subs : Unsubscribe(t, s)
      PROVE  Safe
  <2>1. /\ UNCHANGED <<queue, deleted, misused, leftBy>>
        /\ alive' = alive \/ alive' = FALSE
        /\ closing' = closing \/ closing' = TRUE
    BY <1>1 DEF ResultArrives, StatusChanges, vars, EventArrives, TakeSub, TakeClient,
       CallbackReturns, UnsubscribeSub, DestroyGuard, Destroy, Rearm, Unsubscribe, guards,
       registry, history
  <2>2. alive' \in BOOLEAN /\ (alive' => alive)
    <3>1. CASE alive' = alive
      BY <1>0, <3>1 DEF FlagType
    <3>2. CASE alive' = FALSE
      BY <3>2
    <3> QED
      BY <2>1, <3>1, <3>2
  <2>3. closing' \in BOOLEAN
    BY <1>0, <2>1 DEF FlagType
  <2> QED
    BY <2>1, <2>2, <2>3, StillSafe
<1>2. ASSUME NEW t \in Threads, UnsubscribeOwner(t) PROVE Safe
  <2>1. /\ ~Idle(t) /\ Top(t).op = "unsubscribe"
        /\ misused' = (misused \/ (alive /\ deleted))
        /\ queue' = queue \/ queue' = Append(queue, [what |-> "cancel", arg |-> Top(t).s])
        /\ leftBy' = [leftBy EXCEPT ![Top(t).s] = t]
        /\ UNCHANGED <<alive, deleted, closing>>
    BY <1>2 DEF UnsubscribeOwner, At, guards, registry
  <2>2. Top(t).s \in Subs
    BY <1>0, <2>1, TopProperties DEF Before, Frames
  <2>3. [what |-> "cancel", arg |-> Top(t).s] \in Entries
    BY <2>2, NewEntries
  <2>4. leftBy' \in [Subs -> Threads \cup {Nobody}] /\ deleted' \in BOOLEAN
    BY <1>0, <2>1 DEF FlagType
  <2> QED
    BY <2>1, <2>3, <2>4, PostSafe
<1>3. ASSUME NEW t \in Threads, DestroyClient(t) PROVE Safe
  <2>1. ~alive
    BY <1>0, <1>3, DestroyClientKept
  <2>2. /\ UNCHANGED <<alive, closing, leftBy, misused>>
        /\ \/ deleted' = TRUE /\ queue' = <<>>
           \/ deleted' = deleted /\ queue' = Append(queue, [what |-> "delete", arg |-> Nobody])
    BY <1>3 DEF DestroyClient, Deleted, guards
  <2>3. leftBy' \in [Subs -> Threads \cup {Nobody}] /\ deleted' \in BOOLEAN
    BY <1>0, <2>2 DEF FlagType
  <2> QED
    BY <2>1, <2>2, <2>3, NewEntries, PostSafe
<1>4. ASSUME NEW t \in Threads, RearmPost(t) PROVE Safe
  <2>1. /\ UNCHANGED <<alive, deleted, closing, leftBy, misused>>
        /\ queue' = queue \/ queue' = Append(queue, [what |-> "rearm", arg |-> Nobody])
    BY <1>4 DEF RearmPost, guards, registry, history
  <2>2. leftBy' \in [Subs -> Threads \cup {Nobody}] /\ deleted' \in BOOLEAN
    BY <1>0, <2>1 DEF FlagType
  <2> QED
    BY <2>1, <2>2, NewEntries, PostSafe
<1>5. ASSUME NEW t \in Threads, Invoke(t) \/ \E s \in Subs : Subscribe(t, s) PROVE Safe
  <2>1. /\ UNCHANGED <<alive, deleted, closing, leftBy, misused>>
        /\ queue' = queue \/ queue' = Append(queue, [what |-> "run", arg |-> t])
    BY <1>5 DEF Invoke, Subscribe, RunOnOwnerThread, guards, history
  <2>2. leftBy' \in [Subs -> Threads \cup {Nobody}] /\ deleted' \in BOOLEAN
    BY <1>0, <2>1 DEF FlagType
  <2> QED
    BY <2>1, <2>2, NewEntries, PostSafe
<1>6. ASSUME NEW t \in Threads, NEW set \in BOOLEAN, SetStatusCallback(t, set) PROVE Safe
  <2>1. /\ UNCHANGED <<alive, deleted, closing, leftBy, misused>>
        /\ queue' = queue \/ queue' = Append(queue, [what |-> "replay", arg |-> t])
    BY <1>6 DEF SetStatusCallback, guards, history
  <2>2. leftBy' \in [Subs -> Threads \cup {Nobody}] /\ deleted' \in BOOLEAN
    BY <1>0, <2>1 DEF FlagType
  <2> QED
    BY <2>1, <2>2, NewEntries, PostSafe
<1>7. ASSUME RunQueued PROVE Safe
  <2>1. PICK e : e = Head(queue)
    OBVIOUS
  <2>2. queue \in Seq(Entries) /\ queue # <<>>
    BY <1>7, SoundFacts DEF TypeOK, RunQueued
  <2>3. e \in Entries /\ Len(queue) \in Nat \ {0} /\ 1 \in DOMAIN queue /\ e = queue[1]
    BY <2>1, <2>2, HeadTailProperties
  <2>4. e.what = "delete" => ~alive
    BY <2>3, SoundFacts DEF DeletedInv
  <2>5. UNCHANGED <<alive, closing, leftBy>>
    BY <1>7 DEF RunQueued, guards
  <2>6. \/ deleted' = deleted /\ misused' = misused /\ queue' = Tail(queue)
        \/ /\ e.what = "delete" /\ deleted' = TRUE /\ queue' = <<>> /\ misused' = misused
        \/ /\ misused' = (misused \/ (alive /\ deleted)) /\ deleted' = deleted
           /\ queue' = Tail(queue)
    <3>1. CASE e.what \in {"run", "replay"}
      BY <1>7, <2>1, <3>1 DEF RunQueued
    <3>2. CASE e.what = "delete"
      BY <1>7, <2>1, <3>2 DEF RunQueued, Deleted
    <3>3. CASE e.what \in {"cancel", "rearm"}
      BY <1>7, <2>1, <3>3 DEF RunQueued
    <3> QED
      BY <2>3, <3>1, <3>2, <3>3 DEF Entries
  <2>7. leftBy' \in [Subs -> Threads \cup {Nobody}] /\ deleted' \in BOOLEAN
    BY <1>0, <2>5, <2>6 DEF FlagType
  <2> QED
    BY <2>2, <2>4, <2>5, <2>6, <2>7, PostSafe
<1> QED
  BY <1>1, <1>2, <1>3, <1>4, <1>5, <1>6, <1>7 DEF Next, Step

-----------------------------------------------------------------------------
(* What holds in every behaviour.                                          *)

LEMMA KeptStep ==
  ASSUME Sound, [Next]_vars
  PROVE  Kept
<1>0. Before /\ TypeOK
  BY SoundFacts
<1>1. ASSUME QuietStep PROVE Kept
  BY <1>0, <1>1, QuietStepEffect, QuietKept DEF guards
<1>2. ASSUME NEW t \in Threads,
             \/ TakeSub(t) \/ TakeClient(t) \/ UnsubscribeSub(t) \/ UnsubscribeOwner(t)
             \/ DestroyGuard(t) \/ DestroyClient(t) \/ Destroy(t)
      PROVE  Kept
  BY <1>0, <1>2, TakeSubKept, TakeClientKept, UnsubscribeSubKept, UnsubscribeOwnerKept,
     DestroyGuardKept, DestroyClientKept, DestroyKept
<1>3. ASSUME NEW t \in Threads, NEW s \in Subs, Unsubscribe(t, s) PROVE Kept
  BY <1>0, <1>3, UnsubscribeKept
<1>4. ASSUME UNCHANGED vars PROVE Kept
  <2>1. /\ stack' = stack
        /\ UNCHANGED <<alive, subAlive, closing, closedBy, leaving, leftBy>>
    BY <1>4 DEF vars, guards, history
  <2>2. AllOld /\ StackType'
    BY <1>0, <2>1 DEF AllOld, Old, Before, StackType
  <2> QED
    BY <1>0, <2>1, <2>2, QuietOld, QuietKept
<1> QED
  BY <1>1, <1>2, <1>3, <1>4 DEF Next, Step, QuietStep

LEMMA Invariance == Spec => []Sound
<1>1. Init => Sound
  <2> SUFFICES ASSUME Init PROVE Sound
    OBVIOUS
  <2>1. TypeOK
    BY EmptySeq DEF Init, TypeOK, StackType, FlagType
  <2>2. \A t \in Threads : DOMAIN stack[t] = {}
    BY DEF Init
  <2>3. DestroyInv
    BY <2>2 DEF Init, DestroyInv
  <2>4. \A s \in Subs : EndInv(s)
    BY <2>2 DEF Init, EndInv
  <2>5. DeletedInv /\ OwnerAlive
    BY DEF Init, DeletedInv, OwnerAlive
  <2> QED
    BY <2>1, <2>3, <2>4, <2>5 DEF Sound, Guarded
<1>2. Sound /\ [Next]_vars => Sound'
  BY KeptStep, SafeStep DEF Sound, Guarded, TypeOK, Kept, Safe
<1> QED
  BY <1>1, <1>2, PTL DEF Spec

\* A deleted LogosAPIClient is never posted to or called, also by a subscription that
\* outlives its client.
THEOREM OwnerAliveAlways == Spec => []OwnerAlive
<1>1. Sound => OwnerAlive
  BY DEF Sound, Guarded
<1> QED
  BY <1>1, Invariance, PTL

-----------------------------------------------------------------------------
(* The shape of the stacks.                                                *)

CallbackOps == {"event", "result", "status"}

\* Only a callback has something above it on its thread's stack.
Below ==
  \A t \in Threads : \A i, j \in DOMAIN stack[t] : i < j => stack[t][i].at = "callback"

\* Events come to an idle thread; all callbacks come to the owner's thread, and
\* events to the I/O thread where the transport delivers them inline.
FrameShape(t, i, f) ==
  /\ f.op = "event" => i = 1 /\ f.at \in {"sub", "client", "callback"}
  /\ f.at = "callback" => f.op \in CallbackOps
  /\ f.at = "sub" => f.op \in {"event", "unsubscribe"}
  /\ f.op \in CallbackOps => t = Owner \/ inline

\* The client's guard: two threads are not in callbacks at once.
OneInside ==
  \A t, u \in Threads : HoldsClient(t) /\ HoldsClient(u) => t = u

Shape ==
  /\ Below /\ OneInside
  /\ \A t \in Threads : \A i \in DOMAIN stack[t] : FrameShape(t, i, stack[t][i])

LEMMA ShapeOld ==
  ASSUME Shape, AllOld, inline' = inline
  PROVE  Shape'
<1>1. Below'
  BY DEF Shape, Below, AllOld, Old
<1>2. \A t \in Threads : HoldsClient(t)' => HoldsClient(t)
  BY DEF HoldsClient, AllOld, Old
<1>3. OneInside'
  BY <1>2 DEF Shape, OneInside
<1>4. \A t \in Threads : \A i \in DOMAIN stack'[t] : FrameShape(t, i, stack[t][i])' 
  BY DEF Shape, AllOld, Old, FrameShape
<1> QED
  BY <1>1, <1>3, <1>4 DEF Shape

LEMMA ShapePush ==
  ASSUME StackType, Shape, inline' = inline, NEW t \in Threads, NEW f \in Frames,
         stack' = Pushed(t, f) \/ Calling(t, f),
         Idle(t) \/ Top(t).at = "callback",
         f.at # "callback", f.op = "event" => Idle(t) /\ f.at = "sub",
         f.at = "sub" => f.op \in {"event", "unsubscribe"},
         f.op \in CallbackOps => t = Owner \/ inline
  PROVE  Shape'
<1>1. PICK n : n = Len(stack[t]) + 1
  OBVIOUS
<1>2. OldBut(t, n) /\ stack'[t][n] = f
  BY <1>1, PushEffect, CallEffect
<1>3. /\ stack[t] \in Seq(Frames) /\ Len(stack[t]) \in Nat /\ DOMAIN stack[t] = 1 .. Len(stack[t])
  BY DEF StackType
<1>4. n \notin DOMAIN stack[t] /\ \A i \in DOMAIN stack[t] : i < n /\ ~(n < i)
  BY <1>1, <1>3
<1>5. \A i \in DOMAIN stack[t] : stack[t][i].at = "callback"
  <2> SUFFICES ASSUME NEW i \in DOMAIN stack[t] PROVE stack[t][i].at = "callback"
    OBVIOUS
  <2>1. ~Idle(t) /\ Top(t).at = "callback"
    BY <1>3 DEF Idle
  <2>2. Len(stack[t]) \in DOMAIN stack[t] /\ (i < Len(stack[t]) \/ i = Len(stack[t]))
    BY <1>3
  <2> QED
    BY <2>1, <2>2 DEF Shape, Below, Top
<1>6. Below'
  <2> SUFFICES ASSUME NEW u \in Threads, NEW i \in DOMAIN stack'[u], NEW j \in DOMAIN stack'[u],
                      i < j
               PROVE  stack'[u][i].at = "callback"
    BY DEF Below
  <2>1. CASE Old(u, i) /\ Old(u, j)
    BY <2>1 DEF Shape, Below, Old
  <2>2. CASE u = t /\ i = n
    <3>1. j = n \/ j \in DOMAIN stack[t]
      BY <1>2, <2>2 DEF OldBut, Old
    <3>2. j \in DOMAIN stack[t]
      BY <1>1, <1>3, <2>2, <3>1
    <3> QED
      BY <1>4, <2>2, <3>2
  <2>3. CASE Old(u, i) /\ u = t
    BY <1>5, <2>3 DEF Old
  <2> QED
    BY <1>2, <2>1, <2>2, <2>3 DEF OldBut
<1>7. \A u \in Threads : HoldsClient(u)' => HoldsClient(u)
  BY <1>2 DEF HoldsClient, OldBut, Old
<1>8. OneInside'
  BY <1>7 DEF Shape, OneInside
<1>9. ASSUME NEW u \in Threads, NEW i \in DOMAIN stack'[u] PROVE FrameShape(u, i, stack[u][i])'
  <2>1. CASE Old(u, i)
    BY <2>1 DEF Shape, Old, FrameShape
  <2>2. CASE u = t /\ i = n
    <3>1. Idle(t) => n = 1
      BY <1>1 DEF Idle
    <3> QED
      BY <1>2, <2>2, <3>1 DEF FrameShape
  <2> QED
    BY <1>2, <2>1, <2>2 DEF OldBut
<1> QED
  BY <1>6, <1>8, <1>9 DEF Shape

LEMMA ShapeMove ==
  ASSUME StackType, Shape, inline' = inline, NEW t \in Threads, ~Idle(t), NEW at \in Places,
         stack' = Moved(t, at), at # "sub", Top(t).op = "event" => at \in {"client", "callback"},
         at = "callback" => Top(t).op \in CallbackOps /\ ClientFree(t)
  PROVE  Shape'
<1>1. PICK n : n = Len(stack[t])
  OBVIOUS
<1>2. /\ OldBut(t, n) /\ stack'[t][n].op = Top(t).op /\ stack'[t][n].at = at
  BY <1>1, MoveEffect
<1>3. /\ Len(stack[t]) \in Nat \ {0} /\ DOMAIN stack[t] = 1 .. Len(stack[t])
      /\ n \in DOMAIN stack[t] /\ Top(t) = stack[t][n]
  BY <1>1, TopProperties
<1>4. \A j \in DOMAIN stack'[t] : j \in DOMAIN stack[t]
  BY <1>2, <1>3 DEF OldBut, Old
<1>5. Below'
  <2> SUFFICES ASSUME NEW u \in Threads, NEW i \in DOMAIN stack'[u], NEW j \in DOMAIN stack'[u],
                      i < j
               PROVE  stack'[u][i].at = "callback"
    BY DEF Below
  <2>1. CASE u = t /\ i = n
    <3>1. j \in 1 .. n /\ n \in Nat
      BY <1>1, <1>3, <1>4, <2>1
    <3>2. ~(n < j)
      BY <3>1
    <3> QED
      BY <2>1, <3>2
  <2>2. CASE Old(u, i)
    <3>1. j \in DOMAIN stack[u]
      BY <1>2, <1>4 DEF OldBut, Old
    <3> QED
      BY <2>2, <3>1 DEF Shape, Below, Old
  <2> QED
    BY <1>2, <2>1, <2>2 DEF OldBut
<1>6. \A u \in Threads : HoldsClient(u)' => HoldsClient(u) \/ (u = t /\ at = "callback")
  BY <1>2 DEF HoldsClient, OldBut, Old
<1>7. at = "callback" => \A u \in Threads : HoldsClient(u) => u = t
  BY DEF ClientFree
<1>8. OneInside'
  BY <1>6, <1>7 DEF Shape, OneInside
<1>9. ASSUME NEW u \in Threads, NEW i \in DOMAIN stack'[u] PROVE FrameShape(u, i, stack[u][i])'
  <2>1. CASE Old(u, i)
    BY <2>1 DEF Shape, Old, FrameShape
  <2>2. CASE u = t /\ i = n
    <3>1. FrameShape(t, n, Top(t))
      BY <1>3 DEF Shape
    <3> QED
      BY <1>2, <2>2, <3>1 DEF FrameShape
  <2> QED
    BY <1>2, <2>1, <2>2 DEF OldBut
<1> QED
  BY <1>5, <1>8, <1>9 DEF Shape

\* User code runs at the bottom of a stack or in a callback.
LEMMA UserCode ==
  ASSUME NEW t \in Threads, InUserCode(t)
  PROVE  Idle(t) \/ Top(t).at = "callback"
  BY DEF InUserCode

LEMMA ShapeMarshal ==
  ASSUME StackType, Shape, inline' = inline, NEW t \in Threads, NEW s \in Subs \cup {NoSub},
         RunOnOwnerThread(t, s)
  PROVE  Shape'
<1>1. CASE t = Owner
  BY <1>1, UsedEffect, ShapeOld DEF RunOnOwnerThread
<1>2. CASE t # Owner
  <2>1. PICK f : f = Call("marshal", s, "wait")
    OBVIOUS
  <2>2. f \in Frames /\ f.op = "marshal" /\ f.at = "wait"
    BY <2>1, NewFrames DEF Call
  <2>3. Calling(t, f) /\ (Idle(t) \/ Top(t).at = "callback")
    BY <1>2, <2>1, UserCode DEF RunOnOwnerThread
  <2> QED
    BY <2>2, <2>3, ShapePush DEF CallbackOps
<1> QED
  BY <1>1, <1>2

\* Every step keeps the shape of the stacks.
LEMMA ShapeStep ==
  ASSUME TypeOK, Shape, [Next]_vars
  PROVE  Shape'
<1>0. StackType /\ inline' = inline
  BY DEF TypeOK, Next, Step, vars, ResultArrives, StatusChanges, RunQueued, EventArrives,
     TakeSub, TakeClient, CallbackReturns, UnsubscribeSub, UnsubscribeOwner, DestroyGuard,
     DestroyClient, RearmPost, Destroy, Rearm, Invoke, Subscribe, Unsubscribe,
     RunOnOwnerThread, SetStatusCallback
<1>1. ASSUME ResultArrives \/ StatusChanges PROVE Shape'
  <2>1. PICK f \in Frames : /\ stack' = Pushed(Owner, f) /\ Idle(Owner)
                            /\ f.op \in {"result", "status"} /\ f.at = "client"
    BY <1>1, NewFrames DEF ResultArrives, StatusChanges, Call
  <2> QED
    BY <1>0, <2>1, OwnerIsThread, ShapePush
<1>2. ASSUME NEW s \in Subs, EventArrives(s) PROVE Shape'
  <2>1. PICK t \in Threads : /\ stack' = Pushed(t, Call("event", s, "sub")) /\ Idle(t)
                             /\ t = Owner \/ inline
    BY <1>2, OwnerIsThread DEF EventArrives
  <2>2. PICK f : f = Call("event", s, "sub")
    OBVIOUS
  <2>3. f \in Frames /\ f.op = "event" /\ f.at = "sub"
    BY <2>2, NewFrames DEF Call
  <2> QED
    BY <1>0, <2>1, <2>2, <2>3, ShapePush
<1>3. ASSUME RunQueued PROVE Shape'
  <2>1. PICK e : e = Head(queue)
    OBVIOUS
  <2>2. e \in Entries
    BY <1>3, <2>1, HeadTailProperties DEF TypeOK, RunQueued
  <2>3. CASE stack' = Popped(e.arg)
    BY <1>0, <2>3, PopEffect, ShapeOld
  <2>4. CASE stack' = stack
    <3>1. AllOld
      BY <2>4 DEF AllOld, Old
    <3> QED
      BY <1>0, <3>1, ShapeOld
  <2>5. CASE e.what = "replay" /\ stack' = Pushed(Owner, Call("status", e.arg, "client"))
    <3>1. e.arg \in Threads
      BY <2>2, <2>5 DEF Entries
    <3>2. PICK f : f = Call("status", e.arg, "client")
      OBVIOUS
    <3>3. f \in Frames /\ f.op = "status" /\ f.at = "client"
      BY <3>1, <3>2, NewFrames DEF Call
    <3>4. Idle(Owner) /\ stack' = Pushed(Owner, f)
      BY <1>3, <2>5, <3>2 DEF RunQueued
    <3> QED
      BY <1>0, <3>3, <3>4, OwnerIsThread, ShapePush
  <2>6. \/ stack' = Popped(e.arg) \/ stack' = stack
        \/ e.what = "replay" /\ stack' = Pushed(Owner, Call("status", e.arg, "client"))
    <3>1. CASE e.what = "run"
      BY <1>3, <2>1, <3>1 DEF RunQueued
    <3>2. CASE e.what = "replay"
      BY <1>3, <2>1, <3>2 DEF RunQueued
    <3>3. CASE e.what \in {"delete", "cancel", "rearm"}
      BY <1>3, <2>1, <3>3 DEF RunQueued
    <3> QED
      BY <2>2, <3>1, <3>2, <3>3 DEF Entries
  <2> QED
    BY <2>3, <2>4, <2>5, <2>6
<1>4. ASSUME NEW t \in Threads, CallbackReturns(t) \/ UnsubscribeOwner(t) \/ DestroyClient(t) \/ RearmPost(t)
      PROVE  Shape'
  <2>1. stack' = Popped(t)
    BY <1>4 DEF CallbackReturns, UnsubscribeOwner, DestroyClient, RearmPost
  <2> QED
    BY <1>0, <2>1, PopEffect, ShapeOld
<1>5. ASSUME NEW t \in Threads, TakeSub(t) PROVE Shape'
  <2>1. CASE stack' = Popped(t)
    BY <1>0, <2>1, PopEffect, ShapeOld
  <2>2. CASE stack' = Moved(t, "client")
    <3>1. ~Idle(t) /\ "client" \in Places
      BY <1>5 DEF TakeSub, At, Places
    <3> QED
      BY <1>0, <2>2, <3>1, ShapeMove
  <2> QED
    BY <1>5, <2>1, <2>2 DEF TakeSub
<1>6. ASSUME NEW t \in Threads, TakeClient(t) PROVE Shape'
  <2>1. CASE stack' = Popped(t)
    BY <1>0, <2>1, PopEffect, ShapeOld
  <2>2. CASE stack' = Moved(t, "callback")
    <3>1. /\ ~Idle(t) /\ "callback" \in Places /\ Top(t).op \in CallbackOps /\ ClientFree(t)
      BY <1>6 DEF TakeClient, Places, CallbackOps
    <3> QED
      BY <1>0, <2>2, <3>1, ShapeMove
  <2> QED
    BY <1>6, <2>1, <2>2 DEF TakeClient
<1>7. ASSUME NEW t \in Threads, UnsubscribeSub(t) \/ DestroyGuard(t) PROVE Shape'
  <2>1. PICK at \in {"owner", "delete"} : stack' = Moved(t, at)
    BY <1>7 DEF UnsubscribeSub, DestroyGuard
  <2>2. ~Idle(t) /\ Top(t).op \in {"unsubscribe", "destroy"} /\ at \in Places
    BY <1>7 DEF UnsubscribeSub, DestroyGuard, At, Places
  <2> QED
    BY <1>0, <2>1, <2>2, ShapeMove
<1>8. ASSUME NEW t \in Threads, Destroy(t) \/ Rearm(t) \/ \E s \in Subs : Unsubscribe(t, s)
      PROVE  Shape'
  <2>1. PICK f \in Frames : /\ Calling(t, f) /\ InUserCode(t) /\ f.at \in {"client", "sub"}
                            /\ f.op \in {"destroy", "rearm", "unsubscribe"}
                            /\ f.at = "sub" => f.op = "unsubscribe"
    BY <1>8, NewFrames DEF Destroy, Rearm, Unsubscribe, Call
  <2>2. Idle(t) \/ Top(t).at = "callback"
    BY <2>1, UserCode
  <2> QED
    BY <1>0, <2>1, <2>2, ShapePush DEF CallbackOps
<1>9. ASSUME NEW t \in Threads, Invoke(t) \/ \E s \in Subs : Subscribe(t, s) PROVE Shape'
  BY <1>0, <1>9, ShapeMarshal DEF Invoke, Subscribe
<1>10. ASSUME NEW t \in Threads, NEW set \in BOOLEAN, SetStatusCallback(t, set) PROVE Shape'
  <2>1. Idle(t) \/ Top(t).at = "callback"
    BY <1>10, UserCode DEF SetStatusCallback
  <2>2. CASE stack' = Used(t)
    BY <1>0, <2>2, UsedEffect, ShapeOld
  <2>3. CASE t = Owner /\ Calling(t, Call("status", NoSub, "client"))
    <3>1. PICK f : f = Call("status", NoSub, "client")
      OBVIOUS
    <3>2. f \in Frames /\ f.op = "status" /\ f.at = "client"
      BY <3>1, NewFrames DEF Call
    <3> QED
      BY <1>0, <2>1, <2>3, <3>1, <3>2, ShapePush
  <2>4. CASE Calling(t, Call("marshal", NoSub, "wait"))
    <3>1. PICK f : f = Call("marshal", NoSub, "wait")
      OBVIOUS
    <3>2. f \in Frames /\ f.op = "marshal" /\ f.at = "wait"
      BY <3>1, NewFrames DEF Call
    <3> QED
      BY <1>0, <2>1, <2>4, <3>1, <3>2, ShapePush DEF CallbackOps
  <2> QED
    BY <1>10, <2>2, <2>3, <2>4 DEF SetStatusCallback
<1>11. ASSUME UNCHANGED vars PROVE Shape'
  <2>1. AllOld
    BY <1>11 DEF AllOld, Old, vars
  <2> QED
    BY <1>0, <2>1, ShapeOld
<1> QED
  BY <1>1, <1>2, <1>3, <1>4, <1>5, <1>6, <1>7, <1>8, <1>9, <1>10, <1>11 DEF Next, Step

LEMMA ShapeInvariance == Spec => []Shape
<1>1. Init => Shape
  <2> SUFFICES ASSUME Init PROVE Shape
    OBVIOUS
  <2>1. \A t \in Threads : DOMAIN stack[t] = {}
    BY DEF Init
  <2> QED
    BY <2>1 DEF Shape, Below, OneInside, HoldsClient
<1>2. Sound /\ Shape /\ [Next]_vars => Shape'
  BY ShapeStep DEF Sound
<1> QED
  BY <1>1, <1>2, Invariance, PTL DEF Spec

-----------------------------------------------------------------------------
(* No callback begins after the return.                                    *)

\* An event past its subscription's guard on the way to the client's.
Between(t, i) ==
  i \in DOMAIN stack[t] /\ stack[t][i].op = "event" /\ stack[t][i].at = "client"

\* The subscription of such an event has not been ended.
NoneBetween == \A t \in Threads : \A i \in DOMAIN stack[t] :
                 Between(t, i) => stack[t][i].s \in subAlive

LEMMA BetweenKept ==
  ASSUME NoneBetween, subAlive' = subAlive,
         \A u \in Threads : \A i \in DOMAIN stack'[u] : Old(u, i) \/ ~Between(u, i)'
  PROVE  NoneBetween'
  BY DEF NoneBetween, Between, Old

LEMMA BetweenOld ==
  ASSUME NoneBetween, subAlive' = subAlive, AllOld
  PROVE  NoneBetween'
  BY BetweenKept DEF AllOld

LEMMA BetweenNew ==
  ASSUME NoneBetween, subAlive' = subAlive, NEW t \in Threads, NEW n, OldBut(t, n),
         stack'[t][n].op = "event" => stack'[t][n].at # "client"
  PROVE  NoneBetween'
  BY BetweenKept DEF OldBut, Between

LEMMA TakeSubBetween ==
  ASSUME StackType, NoneBetween, NEW t \in Threads, TakeSub(t)
  PROVE  NoneBetween'
<1>1. ~Idle(t) /\ subAlive' = subAlive
  BY DEF TakeSub, At, guards
<1>2. CASE Top(t).s \notin subAlive
  <2>1. stack' = Popped(t)
    BY <1>2 DEF TakeSub
  <2> QED
    BY <1>1, <2>1, PopEffect, BetweenOld
<1>3. CASE Top(t).s \in subAlive
  <2>1. stack' = Moved(t, "client") /\ "client" \in Places
    BY <1>3 DEF TakeSub, Places
  <2>2. OldBut(t, Len(stack[t])) /\ stack'[t][Len(stack[t])].s = Top(t).s
    BY <1>1, <2>1, MoveEffect
  <2> QED
    BY <1>1, <1>3, <2>2 DEF NoneBetween, Between, OldBut, Old
<1> QED
  BY <1>2, <1>3

\* lp_unsubscribe takes the guard when no other thread is past it; below itself on its
\* own thread are callbacks.
LEMMA UnsubscribeBetween ==
  ASSUME StackType, Shape, NoneBetween, NEW t \in Threads, UnsubscribeSub(t)
  PROVE  NoneBetween'
<1>1. /\ ~Idle(t) /\ Top(t).op = "unsubscribe" /\ SubFree(t, Top(t).s)
      /\ subAlive' = subAlive \ {Top(t).s} /\ stack' = Moved(t, "owner") /\ "owner" \in Places
  BY DEF UnsubscribeSub, At, Places
<1>2. PICK n : n = Len(stack[t])
  OBVIOUS
<1>3. OldBut(t, n) /\ stack'[t][n].op = "unsubscribe"
  BY <1>1, <1>2, MoveEffect
<1>4. n \in Nat /\ DOMAIN stack[t] = 1 .. n /\ n \in DOMAIN stack[t] /\ Top(t) = stack[t][n]
  BY <1>1, <1>2, TopProperties
<1> SUFFICES ASSUME NEW u \in Threads, NEW i \in DOMAIN stack'[u], Between(u, i)'
             PROVE  stack'[u][i].s \in subAlive'
  BY DEF NoneBetween
<1>5. Old(u, i) /\ Between(u, i)
  BY <1>3 DEF OldBut, Between, Old
<1>6. stack'[u][i].s = stack[u][i].s /\ stack[u][i].s \in subAlive /\ i \in DOMAIN stack[u]
  BY <1>5 DEF NoneBetween, Old
<1>7. ASSUME u = t PROVE FALSE
  <2>1. i # n
    BY <1>1, <1>4, <1>5, <1>7 DEF Between
  <2>2. i < n
    BY <1>4, <1>6, <1>7, <2>1
  <2> QED
    BY <1>4, <1>5, <1>6, <1>7, <2>2 DEF Shape, Below, Between
<1>8. stack[u][i].s # Top(t).s
  BY <1>1, <1>5, <1>7 DEF SubFree, HoldsSub, Between
<1> QED
  BY <1>1, <1>6, <1>8

LEMMA BetweenStep ==
  ASSUME Sound, Shape, NoneBetween, [Next]_vars
  PROVE  NoneBetween'
<1>0. TypeOK /\ StackType
  BY SoundFacts DEF TypeOK
<1>1. ASSUME QuietStep PROVE NoneBetween'
  <2>1. EndQuiet /\ subAlive' = subAlive
    BY <1>0, <1>1, QuietStepEffect DEF guards
  <2> QED
    BY <2>1, BetweenKept DEF EndQuiet, NoEnd, Between
<1>2. ASSUME NEW t \in Threads, UnsubscribeOwner(t) \/ DestroyClient(t) PROVE NoneBetween'
  <2>1. stack' = Popped(t) /\ subAlive' = subAlive
    BY <1>2 DEF UnsubscribeOwner, DestroyClient, guards
  <2> QED
    BY <1>0, <2>1, PopEffect, BetweenOld
<1>3. ASSUME NEW t \in Threads, TakeClient(t) PROVE NoneBetween'
  <2>1. ~Idle(t) /\ subAlive' = subAlive /\ "callback" \in Places
    BY <1>3 DEF TakeClient, guards, Places
  <2>2. CASE stack' = Popped(t)
    BY <1>0, <2>1, <2>2, PopEffect, BetweenOld
  <2>3. CASE stack' = Moved(t, "callback")
    <3>1. OldBut(t, Len(stack[t])) /\ stack'[t][Len(stack[t])].at = "callback"
      BY <1>0, <2>1, <2>3, MoveEffect
    <3> QED
      BY <2>1, <3>1, BetweenNew
  <2> QED
    BY <1>3, <2>2, <2>3 DEF TakeClient
<1>4. ASSUME NEW t \in Threads, DestroyGuard(t) PROVE NoneBetween'
  <2>1. /\ ~Idle(t) /\ subAlive' = subAlive /\ stack' = Moved(t, "delete") /\ "delete" \in Places
    BY <1>4 DEF DestroyGuard, At, Places
  <2>2. OldBut(t, Len(stack[t])) /\ stack'[t][Len(stack[t])].at = "delete"
    BY <1>0, <2>1, MoveEffect
  <2> QED
    BY <2>1, <2>2, BetweenNew
<1>5. ASSUME NEW t \in Threads, Destroy(t) \/ \E s \in Subs : Unsubscribe(t, s)
      PROVE  NoneBetween'
  <2>1. PICK f \in Frames : Calling(t, f) /\ f.op \in {"destroy", "unsubscribe"}
    BY <1>5, NewFrames DEF Destroy, Unsubscribe, Call
  <2>2. OldBut(t, Len(stack[t]) + 1) /\ stack'[t][Len(stack[t]) + 1] = f
    BY <1>0, <2>1, CallEffect
  <2>3. subAlive' = subAlive
    BY <1>5 DEF Destroy, Unsubscribe, guards
  <2> QED
    BY <2>1, <2>2, <2>3, BetweenNew
<1>6. ASSUME UNCHANGED vars PROVE NoneBetween'
  <2>1. AllOld /\ subAlive' = subAlive
    BY <1>6 DEF AllOld, Old, vars, guards
  <2> QED
    BY <2>1, BetweenOld
<1>7. ASSUME NEW t \in Threads, TakeSub(t) \/ UnsubscribeSub(t) PROVE NoneBetween'
  BY <1>0, <1>7, TakeSubBetween, UnsubscribeBetween
<1> QED
  BY <1>1, <1>2, <1>3, <1>4, <1>5, <1>6, <1>7 DEF Next, Step, QuietStep

\* A callback that begins finds both flags up, so neither call has returned.
LEMMA NotLateStep ==
  ASSUME Sound, NoneBetween, ~late, [Next]_vars
  PROVE  ~late'
<1>1. ASSUME NEW t \in Threads, TakeClient(t) PROVE ~late'
  <2>1. ~Idle(t) /\ Top(t).at = "client" /\ late' = (late \/ (alive /\ Ended(t)))
    BY <1>1 DEF TakeClient
  <2>2. /\ Len(stack[t]) \in DOMAIN stack[t] /\ Top(t) = stack[t][Len(stack[t])]
        /\ Top(t) \in Frames
    BY <2>1, SoundFacts, TopProperties DEF TypeOK
  <2>3. alive => closedBy = Nobody
    BY SoundFacts DEF Before, DestroyInv
  <2>4. ASSUME Top(t).op = "event" PROVE leftBy[Top(t).s] = Nobody
    <3>1. PICK s : s = Top(t).s
      OBVIOUS
    <3>2. s \in Subs
      BY <2>2, <2>4, <3>1 DEF Frames
    <3>3. s \in subAlive
      BY <2>1, <2>2, <2>4, <3>1 DEF NoneBetween, Between
    <3>4. EndInv(s)
      BY <3>2, SoundFacts DEF Before
    <3> QED
      BY <3>1, <3>3, <3>4 DEF EndInv
  <2>5. ~(alive /\ Ended(t))
    BY <2>3, <2>4 DEF Ended
  <2> QED
    BY <2>1, <2>5
<1>2. ASSUME ~\E t \in Threads : TakeClient(t) PROVE late' = late
  BY <1>2 DEF Next, Step, vars, history, ResultArrives, StatusChanges, RunQueued, EventArrives,
     TakeSub, CallbackReturns, UnsubscribeSub, UnsubscribeOwner, DestroyGuard, DestroyClient,
     RearmPost, Destroy, Rearm, Invoke, Subscribe, Unsubscribe, RunOnOwnerThread,
     SetStatusCallback
<1> QED
  BY <1>1, <1>2

\* Once lp_client_destroy has returned no callback of the client begins, on any thread,
\* the caller's included, and one that still runs is on the caller's thread, below the
\* call; once lp_unsubscribe has returned, the same for the events of its subscription.
\* Both hold for calls made from callbacks, nested to any depth.
THEOREM QuietAfterReturnAlways == Spec => []QuietAfterReturn
<1>1. Init => NoneBetween /\ ~late
  <2> SUFFICES ASSUME Init PROVE NoneBetween /\ ~late
    OBVIOUS
  <2>1. \A t \in Threads : DOMAIN stack[t] = {}
    BY DEF Init
  <2> QED
    BY <2>1 DEF Init, NoneBetween
<1>2. Sound /\ Shape /\ NoneBetween /\ ~late /\ [Next]_vars => NoneBetween' /\ ~late'
  BY BetweenStep, NotLateStep
<1>3. Sound /\ ~late => QuietAfterReturn
  <2> SUFFICES ASSUME Sound, NEW t \in Threads, NEW i \in DOMAIN stack[t],
                      stack[t][i].at = "callback"
               PROVE  /\ closedBy \in {Nobody, t}
                      /\ stack[t][i].op = "event" => leftBy[stack[t][i].s] \in {Nobody, t}
    BY DEF QuietAfterReturn
  <2>1. closedBy \in {Nobody, t}
    BY SoundFacts DEF Before, DestroyInv, CallsOnlyOn, Calls
  <2>2. ASSUME stack[t][i].op = "event" PROVE leftBy[stack[t][i].s] \in {Nobody, t}
    <3>1. stack[t] \in Seq(Frames)
      BY SoundFacts DEF Before, StackType
    <3>2. PICK s : s = stack[t][i].s
      OBVIOUS
    <3>3. s \in Subs
      BY <2>2, <3>1, <3>2 DEF Frames
    <3>4. Past(t, i, s) /\ EndInv(s)
      BY <2>2, <3>2, <3>3, SoundFacts DEF Past, Before
    <3> QED
      BY <3>2, <3>4 DEF EndInv, PastOnlyOn
  <2> QED
    BY <2>1, <2>2
<1> QED
  BY <1>1, <1>2, <1>3, Invariance, ShapeInvariance, PTL DEF Spec

-----------------------------------------------------------------------------
(* Circles of waiting threads.                                             *)

\* A thread in a callback waits only in a call that the callback makes, and not for
\* the guard it holds itself.
LEMMA HolderWaits ==
  ASSUME StackType, Shape, NEW t \in Threads, NEW u \in Threads, HoldsClient(t), WaitsFor(t, u)
  PROVE  Len(stack[t]) > 1 /\ Top(t).op \in {"unsubscribe", "marshal"}
<1>1. /\ Len(stack[t]) \in Nat \ {0} /\ DOMAIN stack[t] = 1 .. Len(stack[t])
      /\ Len(stack[t]) \in DOMAIN stack[t] /\ Top(t) = stack[t][Len(stack[t])]
  BY TopProperties DEF WaitsFor
<1>2. FrameShape(t, Len(stack[t]), Top(t)) /\ t # u
  BY <1>1 DEF Shape, WaitsFor
<1>3. ~HoldsClient(u)
  BY <1>2 DEF Shape, OneInside
<1>4. Top(t).at # "callback"
  BY <1>3 DEF WaitsFor, At
<1>5. PICK i \in DOMAIN stack[t] : stack[t][i].at = "callback"
  BY DEF HoldsClient
<1>6. i # Len(stack[t]) /\ Len(stack[t]) > 1
  BY <1>1, <1>4, <1>5
<1>7. \/ Top(t).at = "sub"
      \/ Top(t).op = "marshal"
  BY <1>3 DEF WaitsFor, At
<1>8. Top(t).at = "sub" => Top(t).op = "unsubscribe"
  BY <1>1, <1>2, <1>6 DEF FrameShape
<1> QED
  BY <1>6, <1>7, <1>8

\* A thread past a subscription's guard and not yet in the callback waits for the
\* client's.
LEMMA PastWaits ==
  ASSUME StackType, Shape, NEW t \in Threads, NEW s, HoldsSub(t, s), ~HoldsClient(t),
         NEW u \in Threads, WaitsFor(t, u)
  PROVE  HoldsClient(u)
<1>1. /\ Len(stack[t]) \in Nat \ {0} /\ DOMAIN stack[t] = 1 .. Len(stack[t])
      /\ Len(stack[t]) \in DOMAIN stack[t] /\ Top(t) = stack[t][Len(stack[t])]
  BY TopProperties DEF WaitsFor
<1>2. PICK i \in DOMAIN stack[t] : stack[t][i].op = "event" /\ stack[t][i].at = "client"
  BY DEF HoldsSub, HoldsClient
<1>3. ~(i < Len(stack[t]))
  BY <1>1, <1>2 DEF Shape, Below
<1>4. Top(t).op = "event" /\ Top(t).at = "client"
  BY <1>1, <1>2, <1>3
<1> QED
  BY <1>4 DEF WaitsFor, At

LEMMA DeadlockNeedsNesting ==
  ASSUME StackType, Shape, NEW S \in SUBSET Threads, Deadlocked(S)
  PROVE  \E t \in S : Len(stack[t]) > 1 /\ Top(t).op \in {"unsubscribe", "marshal"}
<1> SUFFICES ASSUME ~\E t \in S : Len(stack[t]) > 1 /\ Top(t).op \in {"unsubscribe", "marshal"}
             PROVE  FALSE
  OBVIOUS
<1>1. \A t \in S : ~HoldsClient(t)
  <2> SUFFICES ASSUME NEW t \in S, HoldsClient(t) PROVE FALSE
    OBVIOUS
  <2>1. PICK u \in S : WaitsFor(t, u) \/ (t = Owner /\ OwnerWaitsFor(u))
    BY DEF Deadlocked
  <2>2. CASE WaitsFor(t, u)
    BY <2>2, HolderWaits
  <2>3. CASE t = Owner /\ OwnerWaitsFor(u)
    <3>1. stack[t] = <<>> /\ DOMAIN stack[t] = {}
      BY <2>3 DEF OwnerWaitsFor, Idle
    <3> QED
      BY <3>1 DEF HoldsClient
  <2> QED
    BY <2>1, <2>2, <2>3
<1>2. \A t \in S : ~\E s : HoldsSub(t, s)
  <2> SUFFICES ASSUME NEW t \in S, NEW s, HoldsSub(t, s) PROVE FALSE
    OBVIOUS
  <2>1. PICK u \in S : WaitsFor(t, u) \/ (t = Owner /\ OwnerWaitsFor(u))
    BY DEF Deadlocked
  <2>2. CASE WaitsFor(t, u)
    BY <1>1, <2>2, PastWaits
  <2>3. CASE t = Owner /\ OwnerWaitsFor(u)
    BY <1>1, <2>3 DEF OwnerWaitsFor
  <2> QED
    BY <2>1, <2>2, <2>3
<1>3. \A t, u \in S : WaitsFor(t, u) => At(t, "marshal", "wait") /\ u = Owner /\ t # Owner
  BY <1>1, <1>2 DEF WaitsFor
<1>4. PICK t \in S : TRUE
  BY DEF Deadlocked
<1>5. PICK u \in S : WaitsFor(t, u) \/ (t = Owner /\ OwnerWaitsFor(u))
  BY DEF Deadlocked
<1>6. Owner \in S
  BY <1>3, <1>4, <1>5
<1>7. PICK v \in S : WaitsFor(Owner, v) \/ OwnerWaitsFor(v)
  BY <1>6 DEF Deadlocked
<1> QED
  BY <1>1, <1>3, <1>6, <1>7 DEF OwnerWaitsFor

\* Where all callbacks come to the owner's thread nobody waits for anyone else.
LEMMA QtDoesNotDeadlock ==
  ASSUME StackType, Shape, ~inline, NEW S \in SUBSET Threads, Deadlocked(S)
  PROVE  FALSE
<1>1. \A t \in Threads : HoldsClient(t) \/ (\E s : HoldsSub(t, s)) => t = Owner
  BY DEF HoldsClient, HoldsSub, Shape, FrameShape, CallbackOps
<1>2. \A t, u \in S : WaitsFor(t, u) => u = Owner /\ t # u
  BY <1>1 DEF WaitsFor
<1>3. \A u \in S : ~OwnerWaitsFor(u)
  BY <1>1 DEF OwnerWaitsFor
<1>4. PICK t \in S : TRUE
  BY DEF Deadlocked
<1>5. PICK u \in S : WaitsFor(t, u)
  BY <1>3 DEF Deadlocked
<1>6. Owner \in S
  BY <1>2, <1>5
<1>7. PICK v \in S : WaitsFor(Owner, v)
  BY <1>3, <1>6 DEF Deadlocked
<1> QED
  BY <1>2, <1>6, <1>7

\* No set of threads waits in a circle on the Qt transports; on the plain transport
\* one of them is in a callback that ends a subscription or makes a blocking call.
\* This holds for any number of threads.
THEOREM OnlyNestedCallsDeadlockAlways == Spec => []OnlyNestedCallsDeadlock
<1>3. Sound /\ Shape => OnlyNestedCallsDeadlock
  <2> SUFFICES ASSUME Sound, Shape, NEW S \in SUBSET Threads, Deadlocked(S)
               PROVE  /\ inline
                      /\ \E t \in S : Len(stack[t]) > 1 /\ Top(t).op \in {"unsubscribe", "marshal"}
    BY DEF OnlyNestedCallsDeadlock
  <2> QED
    BY SoundFacts, DeadlockNeedsNesting, QtDoesNotDeadlock DEF Before
<1> QED
  BY <1>3, Invariance, ShapeInvariance, PTL

=============================================================================
