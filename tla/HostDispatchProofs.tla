-------------------------- MODULE HostDispatchProofs --------------------------
(***************************************************************************)
(* Proofs about HostDispatch, for any number of clients, modules and       *)
(* requests: what a plain host leaves behind when its destructor returns.  *)
(***************************************************************************)
EXTENDS HostDispatch, TLAPS

-----------------------------------------------------------------------------
(* The inductive invariant.                                                *)

OwnerPlaces == {"idle", "stop", "stopping", "notify", "drain", "freed"}
IoPlaces == {"idle", "make", "equip", "start", "dispatch", "notify", "unlist"}
ConnStates == {"away", "backlog", "shaking", "shaken", "made", "open", "over"}

\* A thread between two handlers works on no connection.
Thread(Places) == [at : Places, c : Conns \cup {Nobody}, took : BOOLEAN]

OwnerOK(t) ==
  /\ t \in Thread(OwnerPlaces)
  /\ t.at = "idle" => t = Idle
  /\ t.at = "notify" => t.c \in Conns

IoOK(t) ==
  /\ t \in Thread(IoPlaces)
  /\ t.at = "idle" => t = Idle
  /\ t.at # "idle" => t.c \in Conns

ThreadType == OwnerOK(owner) /\ IoOK(io)

ServerType ==
  /\ listening \in {"no", "armed", "idle", "closed"}
  /\ stopped \in BOOLEAN /\ conns \subseteq Conns /\ doomed \subseteq Conns
  /\ barrier \in {"none", "queued", "run"}
  /\ misused \in BOOLEAN /\ late \in BOOLEAN

PeerType ==
  conn \in [Conns -> ConnStates] /\ dead \subseteq Conns

TypeOK == ThreadType /\ ServerType /\ PeerType

\* How far the destructor is.
Stages ==
  /\ owner.at \in {"idle", "stop"} => ~stopped
  /\ owner.at \in {"stopping", "notify", "drain"} => stopped
  /\ owner.at = "freed" => stopped \/ listening = "no"
  /\ owner.at \notin {"idle", "freed"} => listening # "no"
  /\ stopped => conns = {} /\ listening # "no"
  /\ doomed # {} => owner.at \in {"stopping", "notify"}
  /\ barrier # "none" => stopped /\ owner.at \in {"drain", "freed"}
  /\ late => Freed

\* A host that was never started has no connection and nothing to wait for.
NeverStarted ==
  listening = "no" => io = Idle /\ \A c \in Conns : conn[c] = "away"

\* A connection that may call the host is listed, about to be stopped, or has
\* stopped; the handler on its way through the setup has not opened it yet.
Listed ==
  /\ \A c \in Conns : conn[c] \in {"made", "open"} => c \in conns \cup doomed \cup dead
  /\ io.at \in {"equip", "start"} => conn[io.c] = "made"
  /\ io.at \in {"notify", "unlist"} => io.c \in dead
  /\ owner.at = "notify" => owner.c \in dead

\* Once the task the destructor queued has run, all that runs on the I/O thread
\* is the end of a handshake, which drops its socket.
Fence ==
  /\ barrier = "run" => io.at \in {"idle", "make"}
  /\ Freed /\ ~late /\ stopped => barrier = "run"

HostInv == TypeOK /\ Stages /\ NeverStarted /\ Listed /\ Fence /\ HandlerAlive

-----------------------------------------------------------------------------
(* Every step preserves it.                                                *)

\* What the steps leave in a thread's record is one.
LEMMA ThreadValues ==
  ASSUME NEW c \in Conns
  PROVE  /\ OwnerOK(Idle) /\ IoOK(Idle) /\ OwnerOK(Taken(c)) /\ IoOK(Taken(c))
         /\ \A p \in IoPlaces \ {"idle"} : IoOK(At(p, c))
  BY DEF OwnerOK, IoOK, Thread, OwnerPlaces, IoPlaces, Idle, At, Nobody, Taken

\* Every step keeps the types.
LEMMA TypeStep ==
  ASSUME TypeOK, [Next]_vars
  PROVE  TypeOK'
<1>1. ASSUME Start PROVE TypeOK'
  BY <1>1 DEF Start, Idle, host, peers, threads, history, At, Nobody, TypeOK,
     ThreadType, ServerType, PeerType, OwnerOK, IoOK, Thread, OwnerPlaces, IoPlaces,
     ConnStates
<1>2. ASSUME Destroy PROVE TypeOK'
  BY <1>2 DEF Destroy, At, Idle, Nobody, server, peers, threads, history, TypeOK,
     ThreadType, ServerType, PeerType, OwnerOK, IoOK, Thread, OwnerPlaces, IoPlaces,
     ConnStates
<1>3. ASSUME CloseAcceptor PROVE TypeOK'
  BY <1>3 DEF CloseAcceptor, Idle, host, peers, threads, history, At, Nobody,
     TypeOK, ThreadType, ServerType, PeerType, OwnerOK, IoOK, Thread, OwnerPlaces,
     IoPlaces, ConnStates
<1>4. ASSUME RunBarrier PROVE TypeOK'
  BY <1>4 DEF RunBarrier, Idle, host, server, peers, history, At, Nobody, TypeOK,
     ThreadType, ServerType, PeerType, OwnerOK, IoOK, Thread, OwnerPlaces, IoPlaces,
     ConnStates
<1>5. ASSUME Make PROVE TypeOK'
  <2>0. ThreadType /\ ServerType /\ PeerType
    BY DEF TypeOK
  <2>1. ThreadType'
    <3>1. owner' = owner /\ io' \in {Idle, At("equip", io.c)} /\ io.c \in Conns
      BY <1>5, <2>0 DEF Make, host, history, ThreadType, IoOK, Idle, At
    <3> QED
      BY <3>1, <2>0, ThreadValues DEF ThreadType, IoPlaces
  <2>2. ServerType'
    BY <1>5, <2>0 DEF Make, At, Idle, host, history, Nobody, ServerType, ThreadType,
       IoOK
  <2>3. PeerType'
    BY <1>5, <2>0 DEF Make, At, Idle, host, history, Nobody, PeerType, ConnStates,
       ThreadType, IoOK
  <2> QED
    BY <2>1, <2>2, <2>3 DEF TypeOK
<1>6. ASSUME Equip PROVE TypeOK'
  BY <1>6 DEF Equip, At, host, server, history, TypeOK, ThreadType, ServerType,
     PeerType, OwnerOK, IoOK, Thread, OwnerPlaces, IoPlaces, ConnStates, Idle,
     Nobody
<1>7. ASSUME Begin PROVE TypeOK'
  BY <1>7 DEF Begin, Idle, host, history, At, Nobody, TypeOK, ThreadType,
     ServerType, PeerType, OwnerOK, IoOK, Thread, OwnerPlaces, IoPlaces, ConnStates
<1>8. ASSUME Dispatch PROVE TypeOK'
  BY <1>8 DEF Dispatch, Receive, host, server, peers, Freed, TypeOK, ThreadType,
     ServerType, PeerType, OwnerOK, IoOK, Thread, OwnerPlaces, IoPlaces, ConnStates,
     Idle, At, Nobody
<1>9. ASSUME DispatchEnds PROVE TypeOK'
  BY <1>9 DEF DispatchEnds, Idle, host, server, peers, history, At, Nobody, TypeOK,
     ThreadType, ServerType, PeerType, OwnerOK, IoOK, Thread, OwnerPlaces, IoPlaces,
     ConnStates
<1>10. ASSUME IoNotify PROVE TypeOK'
  BY <1>10 DEF IoNotify, Freed, host, server, peers, TypeOK, ThreadType, ServerType,
     PeerType, OwnerOK, IoOK, Thread, OwnerPlaces, IoPlaces, ConnStates, Idle, At,
     Nobody
<1>11. ASSUME IoUnlist PROVE TypeOK'
  BY <1>11 DEF IoUnlist, Idle, Unlist, host, peers, history, At, Nobody, TypeOK,
     ThreadType, ServerType, PeerType, OwnerOK, IoOK, Thread, OwnerPlaces, IoPlaces,
     ConnStates
<1>12. ASSUME ServerStop PROVE TypeOK'
  BY <1>12 DEF ServerStop, At, Nobody, peers, threads, history, TypeOK, ThreadType,
     ServerType, PeerType, OwnerOK, IoOK, Thread, OwnerPlaces, IoPlaces, ConnStates,
     Idle
<1>13. ASSUME OwnerNotify PROVE TypeOK'
  BY <1>13 DEF OwnerNotify, At, Nobody, Unlist, peers, threads, history, TypeOK,
     ThreadType, ServerType, PeerType, OwnerOK, IoOK, Thread, OwnerPlaces, IoPlaces,
     ConnStates, Idle
<1>14. ASSUME PostBarrier PROVE TypeOK'
  BY <1>14 DEF PostBarrier, At, Nobody, server, peers, history, TypeOK, ThreadType,
     ServerType, PeerType, OwnerOK, IoOK, Thread, OwnerPlaces, IoPlaces, ConnStates,
     Idle
<1>15. ASSUME Drained PROVE TypeOK'
  BY <1>15 DEF Drained, At, Nobody, server, peers, threads, TypeOK, ThreadType,
     ServerType, PeerType, OwnerOK, IoOK, Thread, OwnerPlaces, IoPlaces, ConnStates,
     Idle
<1>16. ASSUME NEW c \in Conns, StopOne(c) PROVE TypeOK'
  <2>0. ThreadType /\ ServerType /\ PeerType
    BY DEF TypeOK
  <2>1. ThreadType'
    <3>1. io' = io /\ owner' \in {owner, Taken(c)}
      BY <1>16, <2>0 DEF StopOne, threads, history, ThreadType, IoOK
    <3> QED
      BY <3>1, <2>0, ThreadValues DEF ThreadType, IoPlaces
  <2>2. ServerType'
    BY <1>16, <2>0 DEF StopOne, Taken, threads, history, ServerType, ThreadType, IoOK
  <2>3. PeerType'
    BY <1>16, <2>0 DEF StopOne, Taken, threads, history, PeerType, ConnStates,
       ThreadType, IoOK
  <2> QED
    BY <2>1, <2>2, <2>3 DEF TypeOK
<1>17. ASSUME NEW c \in Conns, Connect(c) PROVE TypeOK'
  BY <1>17 DEF Connect, host, server, threads, history, TypeOK, ThreadType,
     ServerType, PeerType, OwnerOK, IoOK, Thread, OwnerPlaces, IoPlaces, ConnStates,
     Idle, At, Nobody
<1>18. ASSUME NEW c \in Conns, Accept(c) PROVE TypeOK'
  <2>0. ThreadType /\ ServerType /\ PeerType
    BY DEF TypeOK
  <2>1. ThreadType'
    <3>1. owner' = owner /\ io' \in {io, At("make", c)}
      BY <1>18, <2>0 DEF Accept, host, history, ThreadType, IoOK
    <3> QED
      BY <3>1, <2>0, ThreadValues DEF ThreadType, IoPlaces
  <2>2. ServerType'
    BY <1>18, <2>0 DEF Accept, At, Idle, host, history, Nobody, ServerType, ThreadType,
       IoOK
  <2>3. PeerType'
    BY <1>18, <2>0 DEF Accept, At, Idle, host, history, Nobody, PeerType, ConnStates,
       ThreadType, IoOK
  <2> QED
    BY <2>1, <2>2, <2>3 DEF TypeOK
<1>19. ASSUME NEW c \in Conns, Read(c) PROVE TypeOK'
  <2>0. ThreadType /\ ServerType /\ PeerType
    BY DEF TypeOK
  <2>1. ThreadType'
    <3>1. owner' = owner /\ io' \in {io, At("dispatch", c)}
      BY <1>19, <2>0 DEF Read, host, server, history, ThreadType, IoOK
    <3> QED
      BY <3>1, <2>0, ThreadValues DEF ThreadType, IoPlaces
  <2>2. ServerType'
    BY <1>19, <2>0 DEF Read, At, Idle, host, server, history, Nobody, ServerType,
       ThreadType, IoOK
  <2>3. PeerType'
    BY <1>19, <2>0 DEF Read, At, Idle, host, server, history, Nobody, PeerType,
       ConnStates, ThreadType, IoOK
  <2> QED
    BY <2>1, <2>2, <2>3 DEF TypeOK
<1>20. ASSUME NEW c \in Conns, ReadFails(c) PROVE TypeOK'
  <2>0. ThreadType /\ ServerType /\ PeerType
    BY DEF TypeOK
  <2>1. ThreadType'
    <3>1. owner' = owner /\ io' \in {io, Taken(c)}
      BY <1>20, <2>0 DEF ReadFails, host, server, history, ThreadType, IoOK
    <3> QED
      BY <3>1, <2>0, ThreadValues DEF ThreadType, IoPlaces
  <2>2. ServerType'
    BY <1>20, <2>0 DEF ReadFails, Idle, Taken, host, server, history, At, Nobody,
       ServerType, ThreadType, IoOK
  <2>3. PeerType'
    BY <1>20, <2>0 DEF ReadFails, Idle, Taken, host, server, history, At, Nobody,
       PeerType, ConnStates, ThreadType, IoOK
  <2> QED
    BY <2>1, <2>2, <2>3 DEF TypeOK
<1>21. ASSUME NEW c \in Conns, NEW ok \in BOOLEAN, Handshake(c, ok) PROVE TypeOK'
  <2>0. ThreadType /\ ServerType /\ PeerType
    BY DEF TypeOK
  <2>1. ThreadType'
    <3>1. owner' = owner /\ io' \in {io, At("make", c)}
      BY <1>21, <2>0 DEF Handshake, host, server, history, ThreadType, IoOK
    <3> QED
      BY <3>1, <2>0, ThreadValues DEF ThreadType, IoPlaces
  <2>2. ServerType'
    BY <1>21, <2>0 DEF Handshake, At, Idle, host, server, history, Nobody, ServerType,
       ThreadType, IoOK
  <2>3. PeerType'
    BY <1>21, <2>0 DEF Handshake, At, Idle, host, server, history, Nobody, PeerType,
       ConnStates, ThreadType, IoOK
  <2> QED
    BY <2>1, <2>2, <2>3 DEF TypeOK
<1>22. ASSUME 
             \/ RunPosted
             \/ \E m \in Names : PublishObject(m)
             \/ \E m \in Names : UnpublishObject(m)
             \/ \E r \in Requests : Send(r)
             \/ UNCHANGED vars
      PROVE TypeOK'
  BY <1>22 DEF RunPosted, host, server, peers, PublishObject, threads, history,
     UnpublishObject, Send, vars, TypeOK, ThreadType, ServerType, PeerType, OwnerOK,
     IoOK, Thread, OwnerPlaces, IoPlaces, ConnStates, Idle, At, Nobody
<1> QED
  BY <1>1, <1>2, <1>3, <1>4, <1>5, <1>6, <1>7, <1>8, <1>9, <1>10, <1>11, <1>12,
     <1>13, <1>14, <1>15, <1>16, <1>17, <1>18, <1>19, <1>20, <1>21, <1>22 DEF Next,
     IoHandler, OwnerStep

\* Every step leaves the destructor in one of its stages.
LEMMA StagesStep ==
  ASSUME TypeOK, Stages, [Next]_vars
  PROVE  Stages'
<1>1. ASSUME Start PROVE Stages'
  BY <1>1 DEF Start, Idle, host, peers, threads, history, At, Nobody, Stages, Freed,
     TypeOK, ThreadType, ServerType, PeerType, OwnerOK, IoOK, Thread, OwnerPlaces,
     IoPlaces, ConnStates
<1>2. ASSUME Destroy PROVE Stages'
  BY <1>2 DEF Destroy, At, Idle, Nobody, server, peers, threads, history, Stages,
     Freed, TypeOK, ThreadType, ServerType, PeerType, OwnerOK, IoOK, Thread,
     OwnerPlaces, IoPlaces, ConnStates
<1>3. ASSUME CloseAcceptor PROVE Stages'
  BY <1>3 DEF CloseAcceptor, Idle, host, peers, threads, history, At, Nobody,
     Stages, Freed, TypeOK, ThreadType, ServerType, PeerType, OwnerOK, IoOK, Thread,
     OwnerPlaces, IoPlaces, ConnStates
<1>4. ASSUME RunBarrier PROVE Stages'
  BY <1>4 DEF RunBarrier, Idle, host, server, peers, history, At, Nobody, Stages,
     Freed, TypeOK, ThreadType, ServerType, PeerType, OwnerOK, IoOK, Thread,
     OwnerPlaces, IoPlaces, ConnStates
<1>5. ASSUME Make PROVE Stages'
  BY <1>5 DEF Make, At, Idle, host, history, Nobody, Stages, Freed, TypeOK,
     ThreadType, ServerType, PeerType, OwnerOK, IoOK, Thread, OwnerPlaces, IoPlaces,
     ConnStates
<1>6. ASSUME Begin PROVE Stages'
  BY <1>6 DEF Begin, Idle, host, history, At, Nobody, Stages, Freed, TypeOK,
     ThreadType, ServerType, PeerType, OwnerOK, IoOK, Thread, OwnerPlaces, IoPlaces,
     ConnStates
<1>7. ASSUME IoUnlist PROVE Stages'
  BY <1>7 DEF IoUnlist, Idle, Unlist, host, peers, history, At, Nobody, Stages,
     Freed, TypeOK, ThreadType, ServerType, PeerType, OwnerOK, IoOK, Thread,
     OwnerPlaces, IoPlaces, ConnStates
<1>8. ASSUME ServerStop PROVE Stages'
  BY <1>8 DEF ServerStop, At, Nobody, peers, threads, history, Stages, Freed,
     TypeOK, ThreadType, ServerType, PeerType, OwnerOK, IoOK, Thread, OwnerPlaces,
     IoPlaces, ConnStates, Idle
<1>9. ASSUME OwnerNotify PROVE Stages'
  BY <1>9 DEF OwnerNotify, At, Nobody, Unlist, peers, threads, history, Stages,
     Freed, TypeOK, ThreadType, ServerType, PeerType, OwnerOK, IoOK, Thread,
     OwnerPlaces, IoPlaces, ConnStates, Idle
<1>10. ASSUME PostBarrier PROVE Stages'
  BY <1>10 DEF PostBarrier, At, Nobody, server, peers, history, Stages, Freed,
     TypeOK, ThreadType, ServerType, PeerType, OwnerOK, IoOK, Thread, OwnerPlaces,
     IoPlaces, ConnStates, Idle
<1>11. ASSUME Drained PROVE Stages'
  BY <1>11 DEF Drained, At, Nobody, server, peers, threads, Stages, Freed, TypeOK,
     ThreadType, ServerType, PeerType, OwnerOK, IoOK, Thread, OwnerPlaces, IoPlaces,
     ConnStates, Idle
<1>12. ASSUME NEW c \in Conns, StopOne(c) PROVE Stages'
  BY <1>12 DEF StopOne, Taken, threads, history, Stages, Freed, TypeOK, ThreadType,
     ServerType, PeerType, OwnerOK, IoOK, Thread, OwnerPlaces, IoPlaces, ConnStates,
     Idle, At, Nobody
<1>13. ASSUME NEW c \in Conns, Accept(c) PROVE Stages'
  BY <1>13 DEF Accept, At, Idle, host, history, Nobody, Stages, Freed, TypeOK,
     ThreadType, ServerType, PeerType, OwnerOK, IoOK, Thread, OwnerPlaces, IoPlaces,
     ConnStates
<1>14. ASSUME 
             \/ RunPosted
             \/ Equip
             \/ Dispatch
             \/ DispatchEnds
             \/ IoNotify
             \/ \E m \in Names : PublishObject(m)
             \/ \E m \in Names : UnpublishObject(m)
             \/ \E c \in Conns : Connect(c)
             \/ \E c \in Conns : Read(c)
             \/ \E c \in Conns : ReadFails(c)
             \/ \E c \in Conns, ok \in BOOLEAN : Handshake(c, ok)
             \/ \E r \in Requests : Send(r)
             \/ UNCHANGED vars
      PROVE Stages'
  BY <1>14 DEF RunPosted, host, server, peers, Equip, history, Dispatch,
     DispatchEnds, IoNotify, PublishObject, threads, UnpublishObject, Connect, Read,
     ReadFails, Handshake, Send, vars, Stages, Freed, TypeOK, ThreadType,
     ServerType, PeerType, OwnerOK, IoOK, Thread, OwnerPlaces, IoPlaces, ConnStates,
     Idle, At, Nobody
<1> QED
  BY <1>1, <1>2, <1>3, <1>4, <1>5, <1>6, <1>7, <1>8, <1>9, <1>10, <1>11, <1>12,
     <1>13, <1>14 DEF Next, IoHandler, OwnerStep

\* Without a listener no client gets in.
LEMMA NeverStartedStep ==
  ASSUME TypeOK, Stages, NeverStarted, [Next]_vars
  PROVE  NeverStarted'
<1>1. ASSUME Start PROVE NeverStarted'
  BY <1>1 DEF Start, Idle, host, peers, threads, history, At, Nobody, NeverStarted,
     Stages, TypeOK, ThreadType, ServerType, PeerType, OwnerOK, IoOK, Thread,
     OwnerPlaces, IoPlaces, ConnStates
<1>2. ASSUME CloseAcceptor PROVE NeverStarted'
  BY <1>2 DEF CloseAcceptor, Idle, host, peers, threads, history, At, Nobody,
     NeverStarted, Stages, TypeOK, ThreadType, ServerType, PeerType, OwnerOK, IoOK,
     Thread, OwnerPlaces, IoPlaces, ConnStates
<1>3. ASSUME Make PROVE NeverStarted'
  BY <1>3 DEF Make, At, Idle, host, history, Nobody, NeverStarted, Stages, TypeOK,
     ThreadType, ServerType, PeerType, OwnerOK, IoOK, Thread, OwnerPlaces, IoPlaces,
     ConnStates
<1>4. ASSUME Equip PROVE NeverStarted'
  BY <1>4 DEF Equip, At, host, server, history, NeverStarted, Stages, TypeOK,
     ThreadType, ServerType, PeerType, OwnerOK, IoOK, Thread, OwnerPlaces, IoPlaces,
     ConnStates, Idle, Nobody
<1>5. ASSUME Begin PROVE NeverStarted'
  BY <1>5 DEF Begin, Idle, host, history, At, Nobody, NeverStarted, Stages, TypeOK,
     ThreadType, ServerType, PeerType, OwnerOK, IoOK, Thread, OwnerPlaces, IoPlaces,
     ConnStates
<1>6. ASSUME DispatchEnds PROVE NeverStarted'
  BY <1>6 DEF DispatchEnds, Idle, host, server, peers, history, At, Nobody,
     NeverStarted, Stages, TypeOK, ThreadType, ServerType, PeerType, OwnerOK, IoOK,
     Thread, OwnerPlaces, IoPlaces, ConnStates
<1>7. ASSUME IoNotify PROVE NeverStarted'
  BY <1>7 DEF IoNotify, Freed, host, server, peers, NeverStarted, Stages, TypeOK,
     ThreadType, ServerType, PeerType, OwnerOK, IoOK, Thread, OwnerPlaces, IoPlaces,
     ConnStates, Idle, At, Nobody
<1>8. ASSUME IoUnlist PROVE NeverStarted'
  BY <1>8 DEF IoUnlist, Idle, Unlist, host, peers, history, At, Nobody,
     NeverStarted, Stages, TypeOK, ThreadType, ServerType, PeerType, OwnerOK, IoOK,
     Thread, OwnerPlaces, IoPlaces, ConnStates
<1>9. ASSUME NEW c \in Conns, Connect(c) PROVE NeverStarted'
  BY <1>9 DEF Connect, host, server, threads, history, NeverStarted, Stages, TypeOK,
     ThreadType, ServerType, PeerType, OwnerOK, IoOK, Thread, OwnerPlaces, IoPlaces,
     ConnStates, Idle, At, Nobody
<1>10. ASSUME NEW c \in Conns, Accept(c) PROVE NeverStarted'
  BY <1>10 DEF Accept, At, Idle, host, history, Nobody, NeverStarted, Stages,
     TypeOK, ThreadType, ServerType, PeerType, OwnerOK, IoOK, Thread, OwnerPlaces,
     IoPlaces, ConnStates
<1>11. ASSUME NEW c \in Conns, Read(c) PROVE NeverStarted'
  BY <1>11 DEF Read, At, Idle, host, server, history, Nobody, NeverStarted, Stages,
     TypeOK, ThreadType, ServerType, PeerType, OwnerOK, IoOK, Thread, OwnerPlaces,
     IoPlaces, ConnStates
<1>12. ASSUME NEW c \in Conns, ReadFails(c) PROVE NeverStarted'
  BY <1>12 DEF ReadFails, Idle, Taken, host, server, history, At, Nobody,
     NeverStarted, Stages, TypeOK, ThreadType, ServerType, PeerType, OwnerOK, IoOK,
     Thread, OwnerPlaces, IoPlaces, ConnStates
<1>13. ASSUME NEW c \in Conns, NEW ok \in BOOLEAN, Handshake(c, ok) PROVE NeverStarted'
  BY <1>13 DEF Handshake, At, Idle, host, server, history, Nobody, NeverStarted,
     Stages, TypeOK, ThreadType, ServerType, PeerType, OwnerOK, IoOK, Thread,
     OwnerPlaces, IoPlaces, ConnStates
<1>14. ASSUME 
             \/ Destroy
             \/ RunBarrier
             \/ RunPosted
             \/ Dispatch
             \/ ServerStop
             \/ OwnerNotify
             \/ PostBarrier
             \/ Drained
             \/ \E c \in Conns : StopOne(c)
             \/ \E m \in Names : PublishObject(m)
             \/ \E m \in Names : UnpublishObject(m)
             \/ \E r \in Requests : Send(r)
             \/ UNCHANGED vars
      PROVE NeverStarted'
  BY <1>14 DEF Destroy, server, peers, threads, history, RunBarrier, host,
     RunPosted, Dispatch, ServerStop, OwnerNotify, PostBarrier, Drained, StopOne,
     PublishObject, UnpublishObject, Send, vars, NeverStarted, Stages, TypeOK,
     ThreadType, ServerType, PeerType, OwnerOK, IoOK, Thread, OwnerPlaces, IoPlaces,
     ConnStates, Idle, At, Nobody
<1> QED
  BY <1>1, <1>2, <1>3, <1>4, <1>5, <1>6, <1>7, <1>8, <1>9, <1>10, <1>11, <1>12,
     <1>13, <1>14 DEF Next, IoHandler, OwnerStep

\* Every step leaves each connection in a list that is stopped, or stopped.
LEMMA ListedStep ==
  ASSUME TypeOK, Stages, Listed, [Next]_vars
  PROVE  Listed'
<1>1. ASSUME Destroy PROVE Listed'
  BY <1>1 DEF Destroy, At, Idle, Nobody, server, peers, threads, history, Listed,
     Stages, TypeOK, ThreadType, ServerType, PeerType, OwnerOK, IoOK, Thread,
     OwnerPlaces, IoPlaces, ConnStates
<1>2. ASSUME Make PROVE Listed'
  BY <1>2 DEF Make, At, Idle, host, history, Nobody, Listed, Stages, TypeOK,
     ThreadType, ServerType, PeerType, OwnerOK, IoOK, Thread, OwnerPlaces, IoPlaces,
     ConnStates
<1>3. ASSUME Equip PROVE Listed'
  BY <1>3 DEF Equip, At, host, server, history, Listed, Stages, TypeOK, ThreadType,
     ServerType, PeerType, OwnerOK, IoOK, Thread, OwnerPlaces, IoPlaces, ConnStates,
     Idle, Nobody
<1>4. ASSUME Begin PROVE Listed'
  BY <1>4 DEF Begin, Idle, host, history, At, Nobody, Listed, Stages, TypeOK,
     ThreadType, ServerType, PeerType, OwnerOK, IoOK, Thread, OwnerPlaces, IoPlaces,
     ConnStates
<1>5. ASSUME DispatchEnds PROVE Listed'
  BY <1>5 DEF DispatchEnds, Idle, host, server, peers, history, At, Nobody, Listed,
     Stages, TypeOK, ThreadType, ServerType, PeerType, OwnerOK, IoOK, Thread,
     OwnerPlaces, IoPlaces, ConnStates
<1>6. ASSUME IoNotify PROVE Listed'
  BY <1>6 DEF IoNotify, Freed, host, server, peers, Listed, Stages, TypeOK,
     ThreadType, ServerType, PeerType, OwnerOK, IoOK, Thread, OwnerPlaces, IoPlaces,
     ConnStates, Idle, At, Nobody
<1>7. ASSUME IoUnlist PROVE Listed'
  BY <1>7 DEF IoUnlist, Idle, Unlist, host, peers, history, At, Nobody, Listed,
     Stages, TypeOK, ThreadType, ServerType, PeerType, OwnerOK, IoOK, Thread,
     OwnerPlaces, IoPlaces, ConnStates
<1>8. ASSUME ServerStop PROVE Listed'
  BY <1>8 DEF ServerStop, At, Nobody, peers, threads, history, Listed, Stages,
     TypeOK, ThreadType, ServerType, PeerType, OwnerOK, IoOK, Thread, OwnerPlaces,
     IoPlaces, ConnStates, Idle
<1>9. ASSUME OwnerNotify PROVE Listed'
  BY <1>9 DEF OwnerNotify, At, Nobody, Unlist, peers, threads, history, Listed,
     Stages, TypeOK, ThreadType, ServerType, PeerType, OwnerOK, IoOK, Thread,
     OwnerPlaces, IoPlaces, ConnStates, Idle
<1>10. ASSUME PostBarrier PROVE Listed'
  BY <1>10 DEF PostBarrier, At, Nobody, server, peers, history, Listed, Stages,
     TypeOK, ThreadType, ServerType, PeerType, OwnerOK, IoOK, Thread, OwnerPlaces,
     IoPlaces, ConnStates, Idle
<1>11. ASSUME Drained PROVE Listed'
  BY <1>11 DEF Drained, At, Nobody, server, peers, threads, Listed, Stages, TypeOK,
     ThreadType, ServerType, PeerType, OwnerOK, IoOK, Thread, OwnerPlaces, IoPlaces,
     ConnStates, Idle
<1>12. ASSUME NEW c \in Conns, StopOne(c) PROVE Listed'
  BY <1>12 DEF StopOne, Taken, threads, history, Listed, Stages, TypeOK, ThreadType,
     ServerType, PeerType, OwnerOK, IoOK, Thread, OwnerPlaces, IoPlaces, ConnStates,
     Idle, At, Nobody
<1>13. ASSUME NEW c \in Conns, Connect(c) PROVE Listed'
  BY <1>13 DEF Connect, host, server, threads, history, Listed, Stages, TypeOK,
     ThreadType, ServerType, PeerType, OwnerOK, IoOK, Thread, OwnerPlaces, IoPlaces,
     ConnStates, Idle, At, Nobody
<1>14. ASSUME NEW c \in Conns, Accept(c) PROVE Listed'
  BY <1>14 DEF Accept, At, Idle, host, history, Nobody, Listed, Stages, TypeOK,
     ThreadType, ServerType, PeerType, OwnerOK, IoOK, Thread, OwnerPlaces, IoPlaces,
     ConnStates
<1>15. ASSUME NEW c \in Conns, Read(c) PROVE Listed'
  BY <1>15 DEF Read, At, Idle, host, server, history, Nobody, Listed, Stages,
     TypeOK, ThreadType, ServerType, PeerType, OwnerOK, IoOK, Thread, OwnerPlaces,
     IoPlaces, ConnStates
<1>16. ASSUME NEW c \in Conns, ReadFails(c) PROVE Listed'
  BY <1>16 DEF ReadFails, Idle, Taken, host, server, history, At, Nobody, Listed,
     Stages, TypeOK, ThreadType, ServerType, PeerType, OwnerOK, IoOK, Thread,
     OwnerPlaces, IoPlaces, ConnStates
<1>17. ASSUME NEW c \in Conns, NEW ok \in BOOLEAN, Handshake(c, ok) PROVE Listed'
  BY <1>17 DEF Handshake, At, Idle, host, server, history, Nobody, Listed, Stages,
     TypeOK, ThreadType, ServerType, PeerType, OwnerOK, IoOK, Thread, OwnerPlaces,
     IoPlaces, ConnStates
<1>18. ASSUME 
             \/ Start
             \/ CloseAcceptor
             \/ RunBarrier
             \/ RunPosted
             \/ Dispatch
             \/ \E m \in Names : PublishObject(m)
             \/ \E m \in Names : UnpublishObject(m)
             \/ \E r \in Requests : Send(r)
             \/ UNCHANGED vars
      PROVE Listed'
  BY <1>18 DEF Start, host, peers, threads, history, CloseAcceptor, RunBarrier,
     server, RunPosted, Dispatch, PublishObject, UnpublishObject, Send, vars,
     Listed, Stages, TypeOK, ThreadType, ServerType, PeerType, OwnerOK, IoOK,
     Thread, OwnerPlaces, IoPlaces, ConnStates, Idle, At, Nobody
<1> QED
  BY <1>1, <1>2, <1>3, <1>4, <1>5, <1>6, <1>7, <1>8, <1>9, <1>10, <1>11, <1>12,
     <1>13, <1>14, <1>15, <1>16, <1>17, <1>18 DEF Next, IoHandler, OwnerStep

\* What the queued task has seen the end of does not start again.
LEMMA FenceStep ==
  ASSUME TypeOK, Stages, NeverStarted, Listed, Fence, [Next]_vars
  PROVE  Fence'
<1>1. ASSUME Destroy PROVE Fence'
  BY <1>1 DEF Destroy, At, Idle, Nobody, server, peers, threads, history, Fence,
     Stages, Listed, NeverStarted, Freed, TypeOK, ThreadType, ServerType, PeerType,
     OwnerOK, IoOK, Thread, OwnerPlaces, IoPlaces, ConnStates
<1>2. ASSUME RunBarrier PROVE Fence'
  BY <1>2 DEF RunBarrier, Idle, host, server, peers, history, At, Nobody, Fence,
     Stages, Listed, NeverStarted, Freed, TypeOK, ThreadType, ServerType, PeerType,
     OwnerOK, IoOK, Thread, OwnerPlaces, IoPlaces, ConnStates
<1>3. ASSUME Make PROVE Fence'
  BY <1>3 DEF Make, At, Idle, host, history, Nobody, Fence, Stages, Listed,
     NeverStarted, Freed, TypeOK, ThreadType, ServerType, PeerType, OwnerOK, IoOK,
     Thread, OwnerPlaces, IoPlaces, ConnStates
<1>4. ASSUME Equip PROVE Fence'
  BY <1>4 DEF Equip, At, host, server, history, Fence, Stages, Listed, NeverStarted,
     Freed, TypeOK, ThreadType, ServerType, PeerType, OwnerOK, IoOK, Thread,
     OwnerPlaces, IoPlaces, ConnStates, Idle, Nobody
<1>5. ASSUME Begin PROVE Fence'
  BY <1>5 DEF Begin, Idle, host, history, At, Nobody, Fence, Stages, Listed,
     NeverStarted, Freed, TypeOK, ThreadType, ServerType, PeerType, OwnerOK, IoOK,
     Thread, OwnerPlaces, IoPlaces, ConnStates
<1>6. ASSUME DispatchEnds PROVE Fence'
  BY <1>6 DEF DispatchEnds, Idle, host, server, peers, history, At, Nobody, Fence,
     Stages, Listed, NeverStarted, Freed, TypeOK, ThreadType, ServerType, PeerType,
     OwnerOK, IoOK, Thread, OwnerPlaces, IoPlaces, ConnStates
<1>7. ASSUME IoNotify PROVE Fence'
  BY <1>7 DEF IoNotify, Freed, host, server, peers, Fence, Stages, Listed,
     NeverStarted, TypeOK, ThreadType, ServerType, PeerType, OwnerOK, IoOK, Thread,
     OwnerPlaces, IoPlaces, ConnStates, Idle, At, Nobody
<1>8. ASSUME IoUnlist PROVE Fence'
  BY <1>8 DEF IoUnlist, Idle, Unlist, host, peers, history, At, Nobody, Fence,
     Stages, Listed, NeverStarted, Freed, TypeOK, ThreadType, ServerType, PeerType,
     OwnerOK, IoOK, Thread, OwnerPlaces, IoPlaces, ConnStates
<1>9. ASSUME ServerStop PROVE Fence'
  BY <1>9 DEF ServerStop, At, Nobody, peers, threads, history, Fence, Stages,
     Listed, NeverStarted, Freed, TypeOK, ThreadType, ServerType, PeerType, OwnerOK,
     IoOK, Thread, OwnerPlaces, IoPlaces, ConnStates, Idle
<1>10. ASSUME OwnerNotify PROVE Fence'
  BY <1>10 DEF OwnerNotify, At, Nobody, Unlist, peers, threads, history, Fence,
     Stages, Listed, NeverStarted, Freed, TypeOK, ThreadType, ServerType, PeerType,
     OwnerOK, IoOK, Thread, OwnerPlaces, IoPlaces, ConnStates, Idle
<1>11. ASSUME PostBarrier PROVE Fence'
  BY <1>11 DEF PostBarrier, At, Nobody, server, peers, history, Fence, Stages,
     Listed, NeverStarted, Freed, TypeOK, ThreadType, ServerType, PeerType, OwnerOK,
     IoOK, Thread, OwnerPlaces, IoPlaces, ConnStates, Idle
<1>12. ASSUME Drained PROVE Fence'
  BY <1>12 DEF Drained, At, Nobody, server, peers, threads, Fence, Stages, Listed,
     NeverStarted, Freed, TypeOK, ThreadType, ServerType, PeerType, OwnerOK, IoOK,
     Thread, OwnerPlaces, IoPlaces, ConnStates, Idle
<1>13. ASSUME NEW c \in Conns, StopOne(c) PROVE Fence'
  BY <1>13 DEF StopOne, Taken, threads, history, Fence, Stages, Listed,
     NeverStarted, Freed, TypeOK, ThreadType, ServerType, PeerType, OwnerOK, IoOK,
     Thread, OwnerPlaces, IoPlaces, ConnStates, Idle, At, Nobody
<1>14. ASSUME NEW c \in Conns, Accept(c) PROVE Fence'
  BY <1>14 DEF Accept, At, Idle, host, history, Nobody, Fence, Stages, Listed,
     NeverStarted, Freed, TypeOK, ThreadType, ServerType, PeerType, OwnerOK, IoOK,
     Thread, OwnerPlaces, IoPlaces, ConnStates
<1>15. ASSUME NEW c \in Conns, Read(c) PROVE Fence'
  BY <1>15 DEF Read, At, Idle, host, server, history, Nobody, Fence, Stages, Listed,
     NeverStarted, Freed, TypeOK, ThreadType, ServerType, PeerType, OwnerOK, IoOK,
     Thread, OwnerPlaces, IoPlaces, ConnStates
<1>16. ASSUME NEW c \in Conns, ReadFails(c) PROVE Fence'
  BY <1>16 DEF ReadFails, Idle, Taken, host, server, history, At, Nobody, Fence,
     Stages, Listed, NeverStarted, Freed, TypeOK, ThreadType, ServerType, PeerType,
     OwnerOK, IoOK, Thread, OwnerPlaces, IoPlaces, ConnStates
<1>17. ASSUME NEW c \in Conns, NEW ok \in BOOLEAN, Handshake(c, ok) PROVE Fence'
  BY <1>17 DEF Handshake, At, Idle, host, server, history, Nobody, Fence, Stages,
     Listed, NeverStarted, Freed, TypeOK, ThreadType, ServerType, PeerType, OwnerOK,
     IoOK, Thread, OwnerPlaces, IoPlaces, ConnStates
<1>18. ASSUME 
             \/ Start
             \/ CloseAcceptor
             \/ RunPosted
             \/ Dispatch
             \/ \E m \in Names : PublishObject(m)
             \/ \E m \in Names : UnpublishObject(m)
             \/ \E c \in Conns : Connect(c)
             \/ \E r \in Requests : Send(r)
             \/ UNCHANGED vars
      PROVE Fence'
  BY <1>18 DEF Start, host, peers, threads, history, CloseAcceptor, RunPosted,
     server, Dispatch, PublishObject, UnpublishObject, Connect, Send, vars, Fence,
     Stages, Listed, NeverStarted, Freed, TypeOK, ThreadType, ServerType, PeerType,
     OwnerOK, IoOK, Thread, OwnerPlaces, IoPlaces, ConnStates, Idle, At, Nobody
<1> QED
  BY <1>1, <1>2, <1>3, <1>4, <1>5, <1>6, <1>7, <1>8, <1>9, <1>10, <1>11, <1>12,
     <1>13, <1>14, <1>15, <1>16, <1>17, <1>18 DEF Next, IoHandler, OwnerStep

\* Every call of the host finds it alive.
LEMMA AliveStep ==
  ASSUME TypeOK, Stages, NeverStarted, Listed, Fence, HandlerAlive, [Next]_vars
  PROVE  HandlerAlive'
<1>1. ASSUME Dispatch PROVE HandlerAlive'
  BY <1>1 DEF Dispatch, Receive, host, server, peers, Freed, HandlerAlive, Fence,
     Stages, Listed, NeverStarted, TypeOK, ThreadType, ServerType, PeerType,
     OwnerOK, IoOK, Thread, OwnerPlaces, IoPlaces, ConnStates, Idle, At, Nobody
<1>2. ASSUME IoNotify PROVE HandlerAlive'
  BY <1>2 DEF IoNotify, Freed, host, server, peers, HandlerAlive, Fence, Stages,
     Listed, NeverStarted, TypeOK, ThreadType, ServerType, PeerType, OwnerOK, IoOK,
     Thread, OwnerPlaces, IoPlaces, ConnStates, Idle, At, Nobody
<1>3. ASSUME Drained PROVE HandlerAlive'
  BY <1>3 DEF Drained, At, Nobody, server, peers, threads, HandlerAlive, Fence,
     Stages, Listed, NeverStarted, Freed, TypeOK, ThreadType, ServerType, PeerType,
     OwnerOK, IoOK, Thread, OwnerPlaces, IoPlaces, ConnStates, Idle
<1>4. ASSUME 
             \/ Start
             \/ Destroy
             \/ CloseAcceptor
             \/ RunBarrier
             \/ RunPosted
             \/ Make
             \/ Equip
             \/ Begin
             \/ DispatchEnds
             \/ IoUnlist
             \/ ServerStop
             \/ OwnerNotify
             \/ PostBarrier
             \/ \E c \in Conns : StopOne(c)
             \/ \E m \in Names : PublishObject(m)
             \/ \E m \in Names : UnpublishObject(m)
             \/ \E c \in Conns : Connect(c)
             \/ \E c \in Conns : Accept(c)
             \/ \E c \in Conns : Read(c)
             \/ \E c \in Conns : ReadFails(c)
             \/ \E c \in Conns, ok \in BOOLEAN : Handshake(c, ok)
             \/ \E r \in Requests : Send(r)
             \/ UNCHANGED vars
      PROVE HandlerAlive'
  BY <1>4 DEF Start, host, peers, threads, history, Destroy, server, CloseAcceptor,
     RunBarrier, RunPosted, Make, Equip, Begin, DispatchEnds, IoUnlist, ServerStop,
     OwnerNotify, PostBarrier, StopOne, PublishObject, UnpublishObject, Connect,
     Accept, Read, ReadFails, Handshake, Send, vars, HandlerAlive, Fence, Stages,
     Listed, NeverStarted, Freed, TypeOK, ThreadType, ServerType, PeerType, OwnerOK,
     IoOK, Thread, OwnerPlaces, IoPlaces, ConnStates, Idle, At, Nobody
<1> QED
  BY <1>1, <1>2, <1>3, <1>4 DEF Next, IoHandler, OwnerStep

\* The invariant holds in every behaviour.
LEMMA Invariance == Spec => []HostInv
<1>1. Init => HostInv
  <2> SUFFICES ASSUME Init PROVE HostInv
    OBVIOUS
  <2>1. ThreadType /\ ServerType /\ PeerType
    BY DEF Init, ThreadType, ServerType, PeerType, OwnerOK, IoOK, Thread, OwnerPlaces,
           IoPlaces, ConnStates, Idle, At, Nobody
  <2>2. Stages /\ NeverStarted /\ Listed /\ Fence /\ HandlerAlive
    BY DEF Init, Stages, NeverStarted, Listed, Fence, HandlerAlive, Freed, Idle, At
  <2> QED
    BY <2>1, <2>2 DEF HostInv, TypeOK
<1>2. HostInv /\ [Next]_vars => HostInv'
  <2> SUFFICES ASSUME HostInv, [Next]_vars PROVE HostInv'
    OBVIOUS
  <2>1. TypeOK /\ Stages /\ NeverStarted /\ Listed /\ Fence /\ HandlerAlive
    BY DEF HostInv
  <2> QED
    BY <2>1, TypeStep, StagesStep, NeverStartedStep, ListedStep, FenceStep, AliveStep
       DEF HostInv
<1> QED
  BY <1>1, <1>2, PTL DEF Spec

-----------------------------------------------------------------------------
(* What it gives.                                                          *)

\* The host is not called after it has been freed, by a request or by the end of a
\* connection, unless the destructor gave up its wait for the I/O thread.
THEOREM HandlerAliveAlways == Spec => []HandlerAlive
<1>1. HostInv => HandlerAlive
  BY DEF HostInv
<1> QED
  BY <1>1, Invariance, PTL

\* A host that is gone leaves no live connection, whichever accept or handshake
\* raced its destructor, and also when the wait for the I/O thread timed out.
THEOREM NoneSurvivesAlways == Spec => []NoneSurvives
<1>1. HostInv => NoneSurvives
  BY DEF HostInv, NoneSurvives, Stages, NeverStarted, Listed, Freed
<1> QED
  BY <1>1, Invariance, PTL

=============================================================================
