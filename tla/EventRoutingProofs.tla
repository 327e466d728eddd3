-------------------------- MODULE EventRoutingProofs --------------------------
(***************************************************************************)
(* Proofs about EventRouting, for any connections, registrations, event    *)
(* names and emissions: a handle hears of an event at most once, and the   *)
(* host's sink table follows the consumers' registrations.                 *)
(***************************************************************************)
EXTENDS EventRouting, SequenceTheorems, TLAPS

-----------------------------------------------------------------------------
(* Types.                                                                  *)

Frames == [kind : {"sub", "unsub", "bad"}, key : Names]
NotEmitted == {<<"none", "none">>}
Callbacks == {"named", "wildcard"} \X Regs

ConsumerType ==
  /\ reg \in [Regs -> {"new", "on", "off"}] /\ cStopped \subseteq Conns
  /\ dispatching \in [Conns -> Seq(Emissions)]
  /\ cbs \in [Conns -> SUBSET Callbacks]
  /\ got \in [Emissions -> [Regs -> Nat]]

HostType ==
  /\ host \in [Conns -> {"open", "failing", "closed"}]
  /\ sinks \subseteq Sinks
  /\ fan \in [Emissions -> (SUBSET Sinks) \cup {NotEmitted}]

WireType ==
  /\ up \in [Conns -> Seq(Frames)] /\ batch \in [Conns -> Seq(Frames)]
  /\ down \in [Conns -> Seq(Emissions)]

TypeOK == ConsumerType /\ HostType /\ WireType

-----------------------------------------------------------------------------
(* The way of an event to a connection.                                    *)

\* The event has still to be written, is on the wire, is being delivered.
InFan(m, c) == fan[m] # NotEmitted /\ \E s \in fan[m] : s[2] = c
InDown(m, c) == \E i \in DOMAIN down[c] : down[c][i] = m
InHand(m, c) == dispatching[c] = <<m>>
Unheard(m, c) == \A r \in Regs : RegConn[r] = c => got[m][r] = 0

\* fanOutEvent chose one sink per connection, and each was called once.
OneSink(m) == fan[m] # NotEmitted => \A s, t \in fan[m] : s[2] = t[2] => s = t
OneFrame(m, c) == \A i, j \in DOMAIN down[c] : down[c][i] = m /\ down[c][j] = m => i = j

\* An event is in one place of its way, and heard of only at its end.
OnePlace(m, c) ==
  /\ fan[m] = NotEmitted => ~InDown(m, c) /\ ~InHand(m, c) /\ Unheard(m, c)
  /\ InFan(m, c) => ~InDown(m, c) /\ ~InHand(m, c) /\ Unheard(m, c)
  /\ InDown(m, c) => ~InHand(m, c) /\ Unheard(m, c)

\* The callbacks still to be invoked are those of different handles of this
\* connection, none of which has heard of the event.
HandOK(c) ==
  \/ cbs[c] = {} /\ dispatching[c] = <<>>
  \/ \E m \in Emissions :
       /\ dispatching[c] = <<m>>
       /\ \A a \in cbs[c] : RegConn[a[2]] = c /\ got[m][a[2]] = 0
       /\ \A a, b \in cbs[c] : a[2] = b[2] => a = b

RouteInv ==
  /\ \A m \in Emissions : OneSink(m)
  /\ \A m \in Emissions, c \in Conns : OneFrame(m, c) /\ OnePlace(m, c)
  /\ \A c \in Conns : HandOK(c)

CopyInv == TypeOK /\ RouteInv /\ OneCopy

-----------------------------------------------------------------------------
(* Every step keeps the types.                                             *)

\* What a frame handed to the wire leaves there.
LEMMA EmitType ==
  ASSUME WireType, NEW c \in Conns, NEW f \in Frames, EmitUp(c, f)
  PROVE  up' \in [Conns -> Seq(Frames)]
<1>1. Append(up[c], f) \in Seq(Frames)
  BY AppendProperties DEF WireType
<1> QED
  BY <1>1 DEF EmitUp, WireType

\* A read takes frames from the front.
LEMMA ReadParts ==
  ASSUME NEW S, NEW s \in Seq(S), NEW n \in 1 .. Len(s)
  PROVE  /\ SubSeq(s, 1, n) \in Seq(S) /\ SubSeq(s, n + 1, Len(s)) \in Seq(S)
         /\ SubSeq(s, 1, n) \o SubSeq(s, n + 1, Len(s)) = s
<1>1. n \in Nat /\ Len(s) \in Nat /\ 1 <= n /\ n <= Len(s)
  OBVIOUS
<1>2. /\ SubSeq(s, 1, n) \in Seq(S) /\ Len(SubSeq(s, 1, n)) = n
      /\ \A i \in 1 .. n : SubSeq(s, 1, n)[i] = s[i]
  BY <1>1, SubSeqProperties
<1>3. /\ SubSeq(s, n + 1, Len(s)) \in Seq(S)
      /\ Len(SubSeq(s, n + 1, Len(s))) = Len(s) - n
      /\ \A i \in 1 .. (Len(s) - n) : SubSeq(s, n + 1, Len(s))[i] = s[n + i]
  BY <1>1, SubSeqProperties
<1> DEFINE a == SubSeq(s, 1, n)
           b == SubSeq(s, n + 1, Len(s))
<1>4. a \in Seq(S) /\ b \in Seq(S) /\ Len(a) = n /\ Len(b) = Len(s) - n
  BY <1>2, <1>3
<1>5. \A i \in 1 .. Len(s) : (a \o b)[i] = s[i]
  <2> SUFFICES ASSUME NEW i \in 1 .. Len(s) PROVE (a \o b)[i] = s[i]
    OBVIOUS
  <2> HIDE DEF a, b
  <2>1. (a \o b)[i] = IF i <= Len(a) THEN a[i] ELSE b[i - Len(a)]
    BY <1>1, <1>4, ConcatProperties
  <2>2. CASE i <= n
    BY <1>1, <1>4, <1>2, <2>1, <2>2 DEF a
  <2>3. CASE i > n
    <3>1. i - n \in 1 .. (Len(s) - n) /\ n + (i - n) = i
      BY <1>1, <2>3
    <3> QED
      BY <1>1, <1>4, <1>3, <2>1, <2>3, <3>1 DEF b
  <2>4. i <= n \/ i > n
    BY <1>1
  <2> QED
    BY <2>2, <2>3, <2>4, Zenon
<1> HIDE DEF a, b
<1>6. a \o b \in Seq(S) /\ Len(a \o b) = Len(s)
  <2>1. a \o b \in Seq(S) /\ Len(a \o b) = Len(a) + Len(b)
    BY <1>4, ConcatProperties
  <2> QED
    BY <1>1, <1>4, <2>1
<1>7. a \o b = s
  BY <1>5, <1>6, SeqEqual
<1> QED
  BY <1>2, <1>3, <1>7 DEF a, b

\* Every step keeps the types.
LEMMA TypeStep ==
  ASSUME TypeOK, [Next]_vars
  PROVE  TypeOK'
<1>1. ASSUME NEW r \in Regs, SendSubscribe(r) PROVE TypeOK'
  <2>0. ConsumerType /\ HostType /\ WireType
    BY DEF TypeOK
  <2>1. ConsumerType'
    BY <1>1, <2>0 DEF SendSubscribe, EmitUp, Frame, hostVars, ConsumerType, WireType,
       Callbacks
  <2>2. HostType'
    BY <1>1, <2>0 DEF SendSubscribe, hostVars, HostType
  <2>3. WireType'
    <3>1. Frame("sub", RegKey[r]) \in Frames /\ RegConn[r] \in Conns
      BY RegAssumption DEF Frame, Frames
    <3>2. up' \in [Conns -> Seq(Frames)]
      BY <1>1, <2>0, <3>1, EmitType DEF SendSubscribe
    <3> QED
      BY <1>1, <2>0, <3>2 DEF SendSubscribe, WireType, hostVars
  <2> QED
    BY <2>1, <2>2, <2>3 DEF TypeOK
<1>2. ASSUME NEW r \in Regs, SendUnsubscribe(r) PROVE TypeOK'
  <2>0. ConsumerType /\ HostType /\ WireType
    BY DEF TypeOK
  <2>1. ConsumerType'
    BY <1>2, <2>0 DEF SendUnsubscribe, EmitUp, Frame, hostVars, ConsumerType, WireType,
       Callbacks
  <2>2. HostType'
    BY <1>2, <2>0 DEF SendUnsubscribe, hostVars, HostType
  <2>3. WireType'
    <3>1. Frame("unsub", RegKey[r]) \in Frames /\ RegConn[r] \in Conns
      BY RegAssumption DEF Frame, Frames
    <3>2. up' \in [Conns -> Seq(Frames)]
      BY <1>2, <2>0, <3>1, EmitType DEF SendUnsubscribe, WireType
    <3> QED
      BY <1>2, <2>0, <3>2 DEF SendUnsubscribe, WireType, hostVars
  <2> QED
    BY <2>1, <2>2, <2>3 DEF TypeOK
<1>3. ASSUME NEW c \in Conns, ConsumerFail(c) PROVE TypeOK'
  <2>0. ConsumerType /\ HostType /\ WireType
    BY DEF TypeOK
  <2>1. ConsumerType'
    BY <1>3, <2>0 DEF ConsumerFail, hostVars, ConsumerType, WireType, Callbacks
  <2>2. HostType'
    BY <1>3, <2>0 DEF ConsumerFail, hostVars, HostType
  <2>3. WireType'
    BY <1>3, <2>0 DEF ConsumerFail, hostVars, WireType
  <2> QED
    BY <2>1, <2>2, <2>3 DEF TypeOK
<1>4. ASSUME NEW c \in Conns, SendUndecodable(c) PROVE TypeOK'
  <2>0. ConsumerType /\ HostType /\ WireType
    BY DEF TypeOK
  <2>1. ConsumerType'
    BY <1>4, <2>0 DEF SendUndecodable, consumer, ConsumerType
  <2>2. HostType'
    BY <1>4, <2>0 DEF SendUndecodable, hostVars, HostType
  <2>3. WireType'
    <3>1. Frame("bad", Wildcard) \in Frames
      BY RegAssumption DEF Frame, Frames
    <3>2. Append(up[c], Frame("bad", Wildcard)) \in Seq(Frames)
      BY <2>0, <3>1, AppendProperties DEF WireType
    <3> QED
      BY <1>4, <2>0, <3>2 DEF SendUndecodable, WireType, hostVars
  <2> QED
    BY <2>1, <2>2, <2>3 DEF TypeOK
<1>5. ASSUME NEW c \in Conns, CollectCallbacks(c) PROVE TypeOK'
  <2>0. ConsumerType /\ HostType /\ WireType
    BY DEF TypeOK
  <2>1. ConsumerType'
    <3>1. down[c] \in Seq(Emissions) /\ down[c] # <<>>
      BY <1>5, <2>0 DEF CollectCallbacks, WireType
    <3>2. Head(down[c]) \in Emissions
      BY <3>1, HeadTailProperties
    <3>3. Collect(Head(down[c]), c) \subseteq Callbacks
      BY <3>2 DEF Collect, On, Callbacks
    <3>4. <<>> \in Seq(Emissions) /\ <<Head(down[c])>> \in Seq(Emissions)
      BY <3>2, EmptySeq
    <3> QED
      BY <1>5, <2>0, <3>3, <3>4 DEF CollectCallbacks, ConsumerType
  <2>2. HostType'
    BY <1>5, <2>0 DEF CollectCallbacks, hostVars, HostType
  <2>3. WireType'
    <3>1. Tail(down[c]) \in Seq(Emissions)
      BY <1>5, <2>0, HeadTailProperties DEF CollectCallbacks, WireType
    <3> QED
      BY <1>5, <2>0, <3>1 DEF CollectCallbacks, WireType, hostVars
  <2> QED
    BY <2>1, <2>2, <2>3 DEF TypeOK
<1>6. ASSUME NEW c \in Conns, InvokeCallback(c) PROVE TypeOK'
  <2>0. ConsumerType /\ HostType /\ WireType
    BY DEF TypeOK
  <2>1. ConsumerType'
    <3>1. PICK cb \in cbs[c] :
               /\ cbs' = [cbs EXCEPT ![c] = @ \ {cb}]
               /\ got' = [got EXCEPT ![Head(dispatching[c])][cb[2]] = @ + 1]
               /\ dispatching' = IF cbs[c] = {cb} THEN [dispatching EXCEPT ![c] = <<>>]
                                                  ELSE dispatching
      BY <1>6 DEF InvokeCallback
    <3>2. cb[2] \in Regs
      BY <2>0 DEF ConsumerType, Callbacks
    <3>3. got' \in [Emissions -> [Regs -> Nat]]
      <4> DEFINE m == Head(dispatching[c])
      <4>1. CASE m \in Emissions
        <5>1. [got[m] EXCEPT ![cb[2]] = @ + 1] \in [Regs -> Nat]
          BY <2>0, <3>2, <4>1 DEF ConsumerType
        <5> QED
          BY <2>0, <3>1, <4>1, <5>1 DEF ConsumerType
      <4>2. CASE m \notin Emissions
        BY <2>0, <3>1, <4>2 DEF ConsumerType
      <4> QED
        BY <4>1, <4>2
    <3>4. <<>> \in Seq(Emissions)
      BY EmptySeq
    <3> QED
      BY <1>6, <2>0, <3>1, <3>3, <3>4 DEF InvokeCallback, ConsumerType
  <2>2. HostType'
    BY <1>6, <2>0 DEF InvokeCallback, hostVars, HostType
  <2>3. WireType'
    BY <1>6, <2>0 DEF InvokeCallback, hostVars, WireType
  <2> QED
    BY <2>1, <2>2, <2>3 DEF TypeOK
<1>7. ASSUME NEW c \in Conns, HostRead(c) PROVE TypeOK'
  <2>0. ConsumerType /\ HostType /\ WireType
    BY DEF TypeOK
  <2>1. ConsumerType'
    BY <1>7, <2>0 DEF HostRead, consumer, ConsumerType
  <2>2. HostType'
    BY <1>7, <2>0 DEF HostRead, HostType
  <2>3. WireType'
    <3>1. PICK n \in 1 .. Len(up[c]) :
               /\ batch' = [batch EXCEPT ![c] = SubSeq(up[c], 1, n)]
               /\ up' = [up EXCEPT ![c] = SubSeq(@, n + 1, Len(@))]
      BY <1>7 DEF HostRead
    <3>2. up[c] \in Seq(Frames)
      BY <2>0 DEF WireType
    <3>3. SubSeq(up[c], 1, n) \in Seq(Frames) /\ SubSeq(up[c], n + 1, Len(up[c])) \in Seq(Frames)
      BY <3>2, ReadParts
    <3> QED
      BY <1>7, <2>0, <3>1, <3>3 DEF HostRead, WireType
  <2> QED
    BY <2>1, <2>2, <2>3 DEF TypeOK
<1>8. ASSUME NEW c \in Conns, HostFrame(c) PROVE TypeOK'
  <2>0. ConsumerType /\ HostType /\ WireType
    BY DEF TypeOK
  <2>1. ConsumerType'
    BY <1>8, <2>0 DEF HostFrame, consumer, ConsumerType
  <2>2. HostType'
    <3>1. Head(batch[c]) \in Frames
      BY <1>8, <2>0, HeadTailProperties DEF HostFrame, WireType
    <3>2. Head(batch[c]).key \in Names
      BY <3>1 DEF Frames
    <3>3. sinks' \subseteq Sinks
      BY <1>8, <2>0, <3>2 DEF HostFrame, OnSubscribe, OnUnsubscribe, HostType, Sinks
    <3>4. host' \in [Conns -> {"open", "failing", "closed"}]
      BY <1>8, <2>0 DEF HostFrame, HostType
    <3> QED
      BY <1>8, <2>0, <3>3, <3>4 DEF HostFrame, HostType
  <2>3. WireType'
    <3>1. Tail(batch[c]) \in Seq(Frames)
      BY <1>8, <2>0, HeadTailProperties DEF HostFrame, WireType
    <3> QED
      BY <1>8, <2>0, <3>1 DEF HostFrame, WireType
  <2> QED
    BY <2>1, <2>2, <2>3 DEF TypeOK
<1>9. ASSUME NEW c \in Conns, OnConnectionClosed(c) PROVE TypeOK'
  <2>0. ConsumerType /\ HostType /\ WireType
    BY DEF TypeOK
  <2>1. ConsumerType'
    BY <1>9, <2>0 DEF OnConnectionClosed, consumer, ConsumerType
  <2>2. HostType'
    BY <1>9, <2>0 DEF OnConnectionClosed, consumer, HostType, WireType, Sinks, Frames
  <2>3. WireType'
    BY <1>9, <2>0 DEF OnConnectionClosed, WireType
  <2> QED
    BY <2>1, <2>2, <2>3 DEF TypeOK
<1>10. ASSUME NEW c \in Conns, HostFail(c) PROVE TypeOK'
  <2>0. ConsumerType /\ HostType /\ WireType
    BY DEF TypeOK
  <2>1. ConsumerType'
    BY <1>10, <2>0 DEF HostFail, consumer, ConsumerType
  <2>2. HostType'
    BY <1>10, <2>0 DEF HostFail, consumer, HostType, WireType, Sinks, Frames
  <2>3. WireType'
    BY <1>10, <2>0 DEF HostFail, WireType
  <2> QED
    BY <2>1, <2>2, <2>3 DEF TypeOK
<1>11. ASSUME NEW m \in Emissions, FanOutEvent(m) PROVE TypeOK'
  <2>0. ConsumerType /\ HostType /\ WireType
    BY DEF TypeOK
  <2>1. ConsumerType'
    BY <1>11, <2>0 DEF FanOutEvent, consumer, ConsumerType
  <2>2. HostType'
    BY <1>11, <2>0 DEF FanOutEvent, Pending, OnePerConnection, consumer, hostVars,
       Matching, HostType, WireType, Sinks, Frames
  <2>3. WireType'
    BY <1>11, <2>0 DEF FanOutEvent, hostVars, WireType
  <2> QED
    BY <2>1, <2>2, <2>3 DEF TypeOK
<1>12. ASSUME NEW m \in Emissions, NEW s \in Sinks, CallSink(m, s) PROVE TypeOK'
  <2>0. ConsumerType /\ HostType /\ WireType
    BY DEF TypeOK
  <2>1. ConsumerType'
    BY <1>12, <2>0 DEF CallSink, consumer, ConsumerType
  <2>2. HostType'
    <3>1. fan[m] \in SUBSET Sinks
      BY <1>12, <2>0 DEF CallSink, Pending, HostType, NotEmitted
    <3>2. fan[m] \ {s} \in SUBSET Sinks
      BY <3>1
    <3> QED
      BY <1>12, <2>0, <3>2 DEF CallSink, HostType, hostVars
  <2>3. WireType'
    <3>1. s[2] \in Conns
      BY DEF Sinks
    <3>2. Append(down[s[2]], m) \in Seq(Emissions)
      BY <2>0, <3>1, AppendProperties DEF WireType
    <3> QED
      BY <1>12, <2>0, <3>1, <3>2 DEF CallSink, WireType, hostVars
  <2> QED
    BY <2>1, <2>2, <2>3 DEF TypeOK
<1>13. ASSUME 
             \/ PublishObject
             \/ UnpublishObject
             \/ UNCHANGED vars
      PROVE TypeOK'
  BY <1>13 DEF PublishObject, consumer, UnpublishObject, vars, hostVars, TypeOK,
     ConsumerType, HostType, WireType
<1> QED
  BY <1>1, <1>2, <1>3, <1>4, <1>5, <1>6, <1>7, <1>8, <1>9, <1>10, <1>11, <1>12,
     <1>13 DEF Next, HostStep, ConsumerStep

-----------------------------------------------------------------------------
(* Every step leaves an event in one place of its way.                     *)

\* An event that is emitted no longer counts as not emitted, whatever its sinks.
LEMMA NeverNotEmitted == \A X \in SUBSET Sinks : X # NotEmitted
<1> SUFFICES ASSUME NEW X \in SUBSET Sinks, X = NotEmitted PROVE FALSE
  OBVIOUS
<1>1. <<"none", "none">> \in Sinks
  BY DEF NotEmitted
<1> QED
  BY <1>1, RegAssumption DEF Sinks

\* fanOutEvent picks one sink per connection.
LEMMA OnePerConnectionOK ==
  ASSUME TypeOK, NEW m \in Emissions,
         NEW s \in OnePerConnection(m), NEW t \in OnePerConnection(m), s[2] = t[2]
  PROVE  s = t
<1>1. s \in Sinks /\ t \in Sinks /\ s \in sinks /\ t \in sinks
  BY DEF TypeOK, HostType, OnePerConnection, Matching
<1>2. s = <<s[1], s[2]>> /\ t = <<t[1], t[2]>>
  BY <1>1 DEF Sinks
<1>3. s[1] \in {EventName[m], Wildcard} /\ t[1] \in {EventName[m], Wildcard}
  BY DEF OnePerConnection, Matching
<1>4. s[1] = EventName[m] \/ <<EventName[m], s[2]>> \notin sinks
  BY DEF OnePerConnection
<1>5. t[1] = EventName[m] \/ <<EventName[m], t[2]>> \notin sinks
  BY DEF OnePerConnection
<1>6. s[1] = t[1]
  BY <1>1, <1>2, <1>3, <1>4, <1>5
<1> QED
  BY <1>2, <1>6

\* dispatchIncoming finds each handle of the connection once: a handle has one
\* event name, and the wildcard is visited only when it is another one.
LEMMA CollectOK ==
  ASSUME NEW m \in Emissions, NEW c \in Conns
  PROVE  /\ Collect(m, c) \subseteq Callbacks
         /\ \A a \in Collect(m, c) : RegConn[a[2]] = c
         /\ \A a, b \in Collect(m, c) : a[2] = b[2] => a = b
<1>1. \A a \in Collect(m, c) :
        /\ a \in Callbacks /\ RegConn[a[2]] = c
        /\ a[1] = "named" => RegKey[a[2]] = EventName[m]
        /\ a[1] = "wildcard" => RegKey[a[2]] = Wildcard /\ EventName[m] # Wildcard
  BY DEF Collect, On, Callbacks
<1>2. \A a \in Callbacks : a = <<a[1], a[2]>> /\ a[1] \in {"named", "wildcard"}
  BY DEF Callbacks
<1>3. ASSUME NEW a \in Collect(m, c), NEW b \in Collect(m, c), a[2] = b[2] PROVE a = b
  <2>1. a[1] = b[1]
    BY <1>1, <1>2, <1>3
  <2> QED
    BY <1>1, <1>2, <1>3, <2>1
<1> QED
  BY <1>1, <1>3

\* A step that leaves the way of the events alone.
LEMMA RouteFrame ==
  ASSUME RouteInv, UNCHANGED <<fan, down, dispatching, cbs, got>>
  PROVE  RouteInv'
  BY DEF RouteInv, OneSink, OneFrame, OnePlace, HandOK, InFan, InDown, InHand, Unheard

\* Emission: the sinks of m, one per connection, have yet to be called.
LEMMA FanOutRoute ==
  ASSUME TypeOK, RouteInv, NEW m \in Emissions, FanOutEvent(m)
  PROVE  RouteInv'
<1>1. /\ fan[m] = NotEmitted /\ fan' = [fan EXCEPT ![m] = OnePerConnection(m)]
      /\ UNCHANGED <<down, dispatching, cbs, got>>
  BY DEF FanOutEvent, Pending, NotEmitted, consumer
<1>2. fan \in [Emissions -> (SUBSET Sinks) \cup {NotEmitted}]
  BY DEF TypeOK, HostType
<1>3. fan'[m] = OnePerConnection(m) /\ \A n \in Emissions : n # m => fan'[n] = fan[n]
  BY <1>1, <1>2
<1>4. \A n \in Emissions : OneSink(n)'
  <2> SUFFICES ASSUME NEW n \in Emissions PROVE OneSink(n)'
    OBVIOUS
  <2>1. CASE n = m
    BY <1>3, <2>1, OnePerConnectionOK DEF OneSink
  <2>2. CASE n # m
    BY <1>3, <2>2 DEF OneSink, RouteInv
  <2> QED
    BY <2>1, <2>2
<1>5. \A n \in Emissions, c \in Conns : OneFrame(n, c)'
  BY <1>1 DEF OneFrame, RouteInv
<1>6. \A n \in Emissions, c \in Conns : OnePlace(n, c)'
  <2> SUFFICES ASSUME NEW n \in Emissions, NEW c \in Conns PROVE OnePlace(n, c)'
    OBVIOUS
  <2>1. /\ InDown(n, c)' <=> InDown(n, c) /\ TRUE
        /\ InHand(n, c)' <=> InHand(n, c) /\ TRUE
        /\ Unheard(n, c)' <=> Unheard(n, c) /\ TRUE
    BY <1>1 DEF InDown, InHand, Unheard
  <2>2. OnePlace(n, c)
    BY DEF RouteInv
  <2>3. CASE n = m
    BY <1>1, <2>1, <2>2, <2>3 DEF OnePlace
  <2>4. CASE n # m
    BY <1>3, <2>1, <2>2, <2>4 DEF OnePlace, InFan
  <2> QED
    BY <2>3, <2>4
<1>7. \A c \in Conns : HandOK(c)'
  BY <1>1 DEF HandOK, RouteInv
<1> QED
  BY <1>4, <1>5, <1>6, <1>7 DEF RouteInv

\* A sink: the event moves on to the wire, or is dropped.
LEMMA SinkRoute ==
  ASSUME TypeOK, RouteInv, NEW m \in Emissions, NEW s \in Sinks, CallSink(m, s)
  PROVE  RouteInv'
<1> DEFINE d == s[2]
<1>1. /\ fan[m] # NotEmitted /\ s \in fan[m] /\ fan' = [fan EXCEPT ![m] = @ \ {s}]
      /\ down' = IF host[d] = "open" THEN [down EXCEPT ![d] = Append(@, m)] ELSE down
      /\ UNCHANGED <<dispatching, cbs, got>>
  BY DEF CallSink, Pending, NotEmitted, consumer
<1>2. /\ fan \in [Emissions -> (SUBSET Sinks) \cup {NotEmitted}]
      /\ down \in [Conns -> Seq(Emissions)] /\ d \in Conns
  BY DEF TypeOK, HostType, WireType, Sinks
<1> HIDE DEF d
<1>3. fan'[m] = fan[m] \ {s} /\ \A n \in Emissions : n # m => fan'[n] = fan[n]
  BY <1>1, <1>2
<1>4. fan'[m] # NotEmitted
  <2>1. fan[m] \in SUBSET Sinks
    BY <1>1, <1>2
  <2>2. fan'[m] \in SUBSET Sinks
    BY <1>3, <2>1
  <2> QED
    BY <2>2, NeverNotEmitted
<1>5. \A c \in Conns : down'[c] = down[c] \/ (c = d /\ down'[c] = Append(down[c], m))
  BY <1>1, <1>2
<1>6. InFan(m, d)
  BY <1>1 DEF InFan, d
<1>7. ~InDown(m, d) /\ ~InHand(m, d) /\ Unheard(m, d)
  BY <1>2, <1>6 DEF RouteInv, OnePlace
<1>8. ~InFan(m, d)'
  BY <1>1, <1>3 DEF InFan, RouteInv, OneSink, d
<1>9. \A n \in Emissions : OneSink(n)'
  BY <1>1, <1>3 DEF OneSink, RouteInv
<1>10. ASSUME NEW n \in Emissions, NEW c \in Conns
       PROVE  OneFrame(n, c)' /\ (InDown(n, c)' => InDown(n, c) \/ (n = m /\ c = d))
  <2>1. CASE down'[c] = down[c]
    BY <2>1 DEF RouteInv, OneFrame, InDown
  <2>2. CASE c = d /\ down'[c] = Append(down[c], m)
    <3>1. down[c] \in Seq(Emissions)
      BY <1>2
    <3>2. /\ DOMAIN down[c] = 1 .. Len(down[c]) /\ Len(down[c]) \in Nat
          /\ DOMAIN down'[c] = 1 .. (Len(down[c]) + 1)
          /\ \A i \in 1 .. Len(down[c]) : down'[c][i] = down[c][i]
          /\ down'[c][Len(down[c]) + 1] = m
      BY <2>2, <3>1, AppendProperties
    <3>3. OneFrame(n, c) /\ ~InDown(m, c)
      BY <1>7, <2>2 DEF RouteInv
    <3>4. \A i \in DOMAIN down'[c] : i \in DOMAIN down[c] \/ i = Len(down[c]) + 1
      BY <3>2
    <3> QED
      BY <2>2, <3>2, <3>3, <3>4 DEF OneFrame, InDown
  <2> QED
    BY <1>5, <2>1, <2>2
<1>11. \A n \in Emissions, c \in Conns : OnePlace(n, c)'
  <2> SUFFICES ASSUME NEW n \in Emissions, NEW c \in Conns PROVE OnePlace(n, c)'
    OBVIOUS
  <2>1. OnePlace(n, c)
    BY DEF RouteInv
  <2>2. /\ InHand(n, c)' <=> InHand(n, c) /\ TRUE
        /\ Unheard(n, c)' <=> Unheard(n, c) /\ TRUE
    BY <1>1 DEF InHand, Unheard
  <2>3. InFan(n, c)' => InFan(n, c)
    BY <1>1, <1>3 DEF InFan
  <2>4. fan'[n] = NotEmitted => fan[n] = NotEmitted /\ n # m
    BY <1>3, <1>4
  <2> QED
    BY <1>7, <1>8, <1>10, <2>1, <2>2, <2>3, <2>4 DEF OnePlace
<1>12. \A c \in Conns : HandOK(c)'
  BY <1>1 DEF HandOK, RouteInv
<1> QED
  BY <1>9, <1>10, <1>11, <1>12 DEF RouteInv

\* The consumer takes an event off the wire.
LEMMA CollectRoute ==
  ASSUME TypeOK, RouteInv, NEW c \in Conns, CollectCallbacks(c)
  PROVE  RouteInv'
<1> DEFINE m == Head(down[c])
           todo == Collect(m, c)
<1>1. /\ down[c] # <<>> /\ cbs' = [cbs EXCEPT ![c] = todo]
      /\ dispatching' = [dispatching EXCEPT ![c] = IF todo = {} THEN <<>> ELSE <<m>>]
      /\ down' = [down EXCEPT ![c] = Tail(@)]
      /\ UNCHANGED <<fan, got>>
  BY DEF CollectCallbacks
<1>2. /\ down \in [Conns -> Seq(Emissions)] /\ cbs \in [Conns -> SUBSET Callbacks]
      /\ dispatching \in [Conns -> Seq(Emissions)]
  BY DEF TypeOK, WireType, ConsumerType
<1>3. /\ m \in Emissions /\ m = down[c][1] /\ Len(down[c]) \in Nat \ {0}
      /\ DOMAIN down[c] = 1 .. Len(down[c])
      /\ DOMAIN Tail(down[c]) = 1 .. (Len(down[c]) - 1)
      /\ \A i \in 1 .. (Len(down[c]) - 1) : Tail(down[c])[i] = down[c][i + 1]
  BY <1>1, <1>2, HeadTailProperties
<1>4. todo \subseteq Callbacks /\ (\A a \in todo : RegConn[a[2]] = c)
      /\ \A a, b \in todo : a[2] = b[2] => a = b
  BY <1>3, CollectOK
<1> HIDE DEF m, todo
<1>5. down'[c] = Tail(down[c]) /\ \A e \in Conns : e # c => down'[e] = down[e]
  BY <1>1, <1>2
<1>6. /\ cbs'[c] = todo /\ dispatching'[c] = IF todo = {} THEN <<>> ELSE <<m>>
      /\ \A e \in Conns : e # c => cbs'[e] = cbs[e] /\ dispatching'[e] = dispatching[e]
  BY <1>1, <1>2
<1>7. InDown(m, c)
  BY <1>3 DEF InDown
<1>8. /\ ~InFan(m, c) /\ ~InHand(m, c) /\ Unheard(m, c) /\ fan[m] # NotEmitted
  BY <1>3, <1>7 DEF RouteInv, OnePlace
<1>9. ASSUME NEW n \in Emissions, NEW e \in Conns
      PROVE  /\ OneFrame(n, e)' /\ (InDown(n, e)' => InDown(n, e))
             /\ InDown(n, e)' => n # m \/ e # c
  <2>1. OneFrame(n, e)
    BY DEF RouteInv
  <2>2. CASE e # c
    BY <1>5, <2>1, <2>2 DEF OneFrame, InDown
  <2>3. CASE e = c
    <3>1. /\ DOMAIN down'[e] = 1 .. (Len(down[c]) - 1)
          /\ \A i \in DOMAIN down'[e] : /\ down'[e][i] = down[c][i + 1]
                                        /\ i \in Nat /\ i + 1 \in DOMAIN down[c] /\ i + 1 # 1
      <4>1. down'[e] = Tail(down[c])
        BY <1>5, <2>3
      <4>2. \A i \in 1 .. (Len(down[c]) - 1) : i \in Nat /\ i + 1 \in 1 .. Len(down[c]) /\ i + 1 # 1
        BY <1>3
      <4> QED
        BY <1>3, <4>1, <4>2
    <3>2. 1 \in DOMAIN down[c]
      BY <1>3
    <3>3. OneFrame(n, e)'
      <4> SUFFICES ASSUME NEW i \in DOMAIN down'[e], NEW j \in DOMAIN down'[e],
                          down'[e][i] = n, down'[e][j] = n
                   PROVE  i = j
        BY DEF OneFrame
      <4>1. i + 1 = j + 1
        BY <2>1, <2>3, <3>1 DEF OneFrame
      <4> QED
        BY <3>1, <4>1
    <3>4. InDown(n, e)' => InDown(n, e)
      BY <2>3, <3>1 DEF InDown
    <3>5. InDown(n, e)' => n # m
      BY <1>3, <2>1, <2>3, <3>1, <3>2 DEF InDown, OneFrame
    <3> QED
      BY <3>3, <3>4, <3>5
  <2> QED
    BY <2>2, <2>3
<1>10. \A n \in Emissions : OneSink(n)'
  BY <1>1 DEF OneSink, RouteInv
<1>11. \A n \in Emissions, e \in Conns : OnePlace(n, e)'
  <2> SUFFICES ASSUME NEW n \in Emissions, NEW e \in Conns PROVE OnePlace(n, e)'
    OBVIOUS
  <2>1. OnePlace(n, e)
    BY DEF RouteInv
  <2>2. /\ InFan(n, e)' <=> InFan(n, e) /\ TRUE
        /\ Unheard(n, e)' <=> Unheard(n, e) /\ TRUE
        /\ fan'[n] = fan[n]
    BY <1>1 DEF InFan, Unheard
  <2>3. InHand(n, e)' => InHand(n, e) \/ (n = m /\ e = c)
    BY <1>6 DEF InHand
  <2> QED
    BY <1>8, <1>9, <2>1, <2>2, <2>3 DEF OnePlace
<1>12. \A e \in Conns : HandOK(e)'
  <2> SUFFICES ASSUME NEW e \in Conns PROVE HandOK(e)'
    OBVIOUS
  <2>1. CASE e # c
    BY <1>1, <1>6, <2>1 DEF HandOK, RouteInv
  <2>2. CASE e = c /\ todo = {}
    BY <1>6, <2>2 DEF HandOK
  <2>3. CASE e = c /\ todo # {}
    <3>1. \A a \in todo : got'[m][a[2]] = 0
      BY <1>1, <1>4, <1>8 DEF Unheard, Callbacks
    <3> QED
      BY <1>3, <1>4, <1>6, <2>3, <3>1 DEF HandOK
  <2> QED
    BY <2>1, <2>2, <2>3
<1> QED
  BY <1>9, <1>10, <1>11, <1>12 DEF RouteInv

\* A callback runs: it had not heard of the event, and no other place has it.
LEMMA InvokeRoute ==
  ASSUME TypeOK, RouteInv, OneCopy, NEW c \in Conns, InvokeCallback(c)
  PROVE  RouteInv' /\ OneCopy'
<1>1. PICK cb \in cbs[c] :
           /\ cbs' = [cbs EXCEPT ![c] = @ \ {cb}]
           /\ got' = [got EXCEPT ![Head(dispatching[c])][cb[2]] = @ + 1]
           /\ dispatching' = IF cbs[c] = {cb} THEN [dispatching EXCEPT ![c] = <<>>]
                                              ELSE dispatching
  BY DEF InvokeCallback
<1>2. UNCHANGED <<fan, down>>
  BY DEF InvokeCallback
<1>3. PICK m \in Emissions :
           /\ dispatching[c] = <<m>>
           /\ \A a \in cbs[c] : RegConn[a[2]] = c /\ got[m][a[2]] = 0
           /\ \A a, b \in cbs[c] : a[2] = b[2] => a = b
  BY <1>1 DEF RouteInv, HandOK
<1>4. /\ got \in [Emissions -> [Regs -> Nat]] /\ cbs \in [Conns -> SUBSET Callbacks]
      /\ dispatching \in [Conns -> Seq(Emissions)]
  BY DEF TypeOK, ConsumerType
<1>5. cb[2] \in Regs /\ RegConn[cb[2]] = c /\ got[m][cb[2]] = 0
  BY <1>1, <1>3, <1>4 DEF Callbacks
<1>6. Head(dispatching[c]) = m
  BY <1>3
<1>7. got'[m][cb[2]] = 1 /\ \A n \in Emissions, r \in Regs :
                              n # m \/ r # cb[2] => got'[n][r] = got[n][r]
  BY <1>1, <1>4, <1>5, <1>6
<1>8. InHand(m, c)
  BY <1>3 DEF InHand
<1>9. fan[m] # NotEmitted /\ ~InFan(m, c) /\ ~InDown(m, c)
  BY <1>8 DEF RouteInv, OnePlace
<1>10. \A e \in Conns : /\ e # c => cbs'[e] = cbs[e] /\ dispatching'[e] = dispatching[e]
                        /\ dispatching'[e] = dispatching[e] \/ dispatching'[e] = <<>>
  BY <1>1, <1>4
<1>11. \A n \in Emissions : OneSink(n)' /\ \A e \in Conns : OneFrame(n, e)'
  BY <1>2 DEF OneSink, OneFrame, RouteInv
<1>12. \A n \in Emissions, e \in Conns : OnePlace(n, e)'
  <2> SUFFICES ASSUME NEW n \in Emissions, NEW e \in Conns PROVE OnePlace(n, e)'
    OBVIOUS
  <2>1. OnePlace(n, e)
    BY DEF RouteInv
  <2>2. /\ InFan(n, e)' <=> InFan(n, e) /\ TRUE
        /\ InDown(n, e)' <=> InDown(n, e) /\ TRUE
        /\ fan'[n] = fan[n]
    BY <1>2 DEF InFan, InDown
  <2>3. InHand(n, e)' => InHand(n, e)
    BY <1>10 DEF InHand
  <2>4. n # m \/ e # c => (Unheard(n, e) => Unheard(n, e)')
    BY <1>5, <1>7 DEF Unheard
  <2> QED
    BY <1>9, <2>1, <2>2, <2>3, <2>4 DEF OnePlace
<1>13. \A e \in Conns : HandOK(e)'
  <2> SUFFICES ASSUME NEW e \in Conns PROVE HandOK(e)'
    OBVIOUS
  <2>1. CASE e # c
    <3>1. \A a \in cbs[e] : a[2] \in Regs
      BY <1>4 DEF Callbacks
    <3>2. HandOK(e) /\ cbs'[e] = cbs[e] /\ dispatching'[e] = dispatching[e]
      BY <1>10, <2>1 DEF RouteInv
    <3> QED
      BY <1>5, <1>7, <2>1, <3>1, <3>2 DEF HandOK
  <2>2. CASE e = c /\ cbs[c] = {cb}
    <3>1. cbs'[c] = {} /\ dispatching'[c] = <<>>
      BY <1>1, <1>4, <2>2
    <3> QED
      BY <2>2, <3>1 DEF HandOK
  <2>3. CASE e = c /\ cbs[c] # {cb}
    <3>1. cbs'[c] = cbs[c] \ {cb} /\ dispatching'[c] = <<m>>
      BY <1>1, <1>3, <1>4, <2>3
    <3>2. \A a \in cbs[c] \ {cb} : a[2] \in Regs /\ a[2] # cb[2]
      BY <1>1, <1>3, <1>4 DEF Callbacks
    <3>3. \A a \in cbs[c] \ {cb} : got'[m][a[2]] = 0
      BY <1>3, <1>7, <3>2
    <3> QED
      BY <1>3, <2>3, <3>1, <3>3 DEF HandOK
  <2> QED
    BY <2>1, <2>2, <2>3
<1>14. OneCopy'
  <2> SUFFICES ASSUME NEW n \in Emissions, NEW r \in Regs PROVE got'[n][r] <= 1
    BY DEF OneCopy
  <2>1. CASE n = m /\ r = cb[2]
    BY <1>7, <2>1
  <2>2. CASE n # m \/ r # cb[2]
    BY <1>7, <2>2 DEF OneCopy
  <2> QED
    BY <2>1, <2>2
<1> QED
  BY <1>11, <1>12, <1>13, <1>14 DEF RouteInv

\* Every step leaves an event in one place of its way.
LEMMA RouteStep ==
  ASSUME TypeOK, RouteInv, OneCopy, [Next]_vars
  PROVE  RouteInv' /\ OneCopy'
<1>1. ASSUME UNCHANGED <<fan, down, dispatching, cbs, got>> PROVE RouteInv' /\ OneCopy'
  BY <1>1, RouteFrame DEF OneCopy
<1>2. ASSUME NEW m \in Emissions, FanOutEvent(m) PROVE RouteInv' /\ OneCopy'
  BY <1>2, FanOutRoute DEF OneCopy, FanOutEvent, consumer
<1>3. ASSUME NEW m \in Emissions, NEW s \in Sinks, CallSink(m, s) PROVE RouteInv' /\ OneCopy'
  BY <1>3, SinkRoute DEF OneCopy, CallSink, consumer
<1>4. ASSUME NEW c \in Conns, CollectCallbacks(c) PROVE RouteInv' /\ OneCopy'
  BY <1>4, CollectRoute DEF OneCopy, CollectCallbacks
<1>5. ASSUME NEW c \in Conns, InvokeCallback(c) PROVE RouteInv' /\ OneCopy'
  BY <1>5, InvokeRoute
<1>6. ASSUME \/ \E r \in Regs : SendSubscribe(r) \/ SendUnsubscribe(r)
             \/ \E c \in Conns : \/ ConsumerFail(c) \/ SendUndecodable(c) \/ HostRead(c)
                                 \/ HostStep(c) \/ HostFail(c)
             \/ PublishObject \/ UnpublishObject \/ UNCHANGED vars
      PROVE  UNCHANGED <<fan, down, dispatching, cbs, got>>
  BY <1>6 DEF SendSubscribe, SendUnsubscribe, ConsumerFail, SendUndecodable, HostRead,
     HostStep, HostFrame, OnConnectionClosed, HostFail, PublishObject, UnpublishObject, vars,
     consumer
<1> QED
  BY <1>1, <1>2, <1>3, <1>4, <1>5, <1>6 DEF Next, ConsumerStep

-----------------------------------------------------------------------------
(* Frames on the way.                                                      *)

Decides(f, k) == f.key = k /\ f.kind # "bad"

\* A frame sent decides about its event.
LEMMA EndAppend ==
  ASSUME NEW fs \in Seq(Frames), NEW f \in Frames, NEW k, NEW x, NEW A
  PROVE  InTheEnd(Append(fs, f), k, x \in A)
           <=> IF Decides(f, k) THEN f.kind = "sub" ELSE InTheEnd(fs, k, x \in A)
<1> DEFINE gs == Append(fs, f)
           n == Len(fs) + 1
<1>1. /\ Len(fs) \in Nat /\ DOMAIN fs = 1 .. Len(fs) /\ DOMAIN gs = 1 .. n
      /\ \A i \in 1 .. Len(fs) : gs[i] = fs[i]
      /\ gs[n] = f
  BY AppendProperties
<1> HIDE DEF gs
<1>2. /\ n \in DOMAIN gs /\ n \notin DOMAIN fs
      /\ \A i \in DOMAIN gs : i \in Nat /\ i <= n /\ (i # n => i \in DOMAIN fs)
      /\ \A i \in DOMAIN fs : i \in DOMAIN gs /\ i # n /\ gs[i] = fs[i]
  BY <1>1
<1> HIDE DEF n
<1>3. CASE Decides(f, k)
  <2>1. n \in About(gs, k) /\ (\A i \in About(gs, k) : i <= n /\ i \in Nat) /\ n \in Nat
    BY <1>1, <1>2, <1>3 DEF About, Decides
  <2>2. \A i \in About(gs, k) : (\A j \in About(gs, k) : j <= i) => i = n
    BY <2>1
  <2>3. InTheEnd(gs, k, x \in A) <=> gs[n].kind = "sub"
    BY <2>1, <2>2 DEF InTheEnd
  <2> QED
    BY <1>1, <1>3, <2>3 DEF gs
<1>4. CASE ~Decides(f, k)
  <2>1. About(gs, k) = About(fs, k)
    BY <1>1, <1>2, <1>4 DEF About, Decides
  <2>2. \A i \in About(fs, k) : gs[i] = fs[i]
    BY <1>2 DEF About
  <2>3. InTheEnd(gs, k, x \in A) <=> InTheEnd(fs, k, x \in A)
    BY <2>1, <2>2 DEF InTheEnd
  <2> QED
    BY <1>4, <2>3 DEF gs
<1> QED
  BY <1>3, <1>4

\* A frame dispatched has decided.
LEMMA EndTail ==
  ASSUME NEW fs \in Seq(Frames), fs # <<>>, NEW k, NEW x, NEW A, NEW B,
         x \in B <=> IF Decides(Head(fs), k) THEN Head(fs).kind = "sub" ELSE x \in A
  PROVE  InTheEnd(fs, k, x \in A) <=> InTheEnd(Tail(fs), k, x \in B)
<1> DEFINE gs == Tail(fs)
<1>1. /\ Len(fs) \in Nat /\ Len(fs) > 0 /\ DOMAIN fs = 1 .. Len(fs)
      /\ DOMAIN gs = 1 .. (Len(fs) - 1)
      /\ \A i \in 1 .. (Len(fs) - 1) : gs[i] = fs[i + 1]
      /\ Head(fs) = fs[1]
  BY HeadTailProperties
<1> HIDE DEF gs
<1>2. /\ 1 \in DOMAIN fs
      /\ \A i \in DOMAIN fs : i \in Nat /\ 1 <= i /\ (i # 1 => i - 1 \in DOMAIN gs /\ (i - 1) + 1 = i)
      /\ \A i \in DOMAIN gs : i \in Nat /\ i + 1 \in DOMAIN fs /\ gs[i] = fs[i + 1] /\ i + 1 # 1
  BY <1>1
<1>3. \A i \in DOMAIN gs : i \in About(gs, k) <=> i + 1 \in About(fs, k)
  BY <1>2 DEF About
<1>4. \A i \in About(fs, k) : i = 1 \/ (i - 1 \in About(gs, k) /\ (i - 1) + 1 = i)
  BY <1>2 DEF About
<1>5. \A i \in About(gs, k) : i \in DOMAIN gs /\ i \in Nat
  BY <1>2 DEF About
<1>6. \A i \in About(fs, k) : i \in DOMAIN fs /\ i \in Nat /\ 1 <= i
  BY <1>2 DEF About
<1>7. 1 \in About(fs, k) <=> Decides(Head(fs), k)
  BY <1>1, <1>2 DEF About, Decides
<1>8. CASE About(gs, k) = {}
  <2>1. InTheEnd(gs, k, x \in B) <=> x \in B
    BY <1>8 DEF InTheEnd
  <2>2. CASE Decides(Head(fs), k)
    <3>1. 1 \in About(fs, k) /\ \A i \in About(fs, k) : i = 1
      BY <1>4, <1>7, <1>8, <2>2
    <3>2. InTheEnd(fs, k, x \in A) <=> fs[1].kind = "sub"
      BY <3>1 DEF InTheEnd
    <3> QED
      BY <1>1, <2>1, <2>2, <3>2 DEF gs
  <2>3. CASE ~Decides(Head(fs), k)
    <3>1. About(fs, k) = {}
      BY <1>4, <1>7, <1>8, <2>3
    <3>2. InTheEnd(fs, k, x \in A) <=> x \in A
      BY <3>1 DEF InTheEnd
    <3> QED
      BY <2>1, <2>3, <3>2 DEF gs
  <2> QED
    BY <2>2, <2>3
<1>9. CASE About(gs, k) # {}
  <2>1. About(fs, k) # {}
    BY <1>3, <1>5, <1>9
  <2>2. ASSUME NEW i \in About(gs, k), gs[i].kind = "sub", \A j \in About(gs, k) : j <= i
        PROVE  i + 1 \in About(fs, k) /\ fs[i + 1].kind = "sub"
                 /\ \A j \in About(fs, k) : j <= i + 1
    <3>1. i \in DOMAIN gs /\ i \in Nat
      BY <1>5
    <3>2. i + 1 \in About(fs, k) /\ fs[i + 1].kind = "sub"
      BY <1>2, <1>3, <2>2, <3>1
    <3>3. ASSUME NEW j \in About(fs, k) PROVE j <= i + 1
      <4>1. CASE j = 1
        BY <3>1, <4>1
      <4>2. CASE j # 1
        <5>1. j - 1 \in About(gs, k) /\ (j - 1) + 1 = j /\ j \in Nat
          BY <1>4, <1>6, <4>2
        <5>2. j - 1 <= i
          BY <2>2, <5>1
        <5> QED
          BY <3>1, <5>1, <5>2
      <4> QED
        BY <4>1, <4>2
    <3> QED
      BY <3>2, <3>3
  <2>3. ASSUME NEW i \in About(fs, k), fs[i].kind = "sub", \A j \in About(fs, k) : j <= i
        PROVE  i - 1 \in About(gs, k) /\ gs[i - 1].kind = "sub"
                 /\ \A j \in About(gs, k) : j <= i - 1
    <3>1. PICK z : z \in About(gs, k)
      BY <1>9
    <3>2. z + 1 \in About(fs, k) /\ z \in Nat /\ z + 1 # 1
      BY <1>2, <1>3, <1>5, <3>1
    <3>3. z + 1 <= i /\ i \in Nat
      BY <1>6, <2>3, <3>2
    <3>4. i # 1
      BY <1>2, <1>5, <3>1, <3>2, <3>3
    <3>5. i - 1 \in About(gs, k) /\ (i - 1) + 1 = i
      BY <1>4, <3>4
    <3>6. gs[i - 1].kind = "sub"
      BY <1>2, <1>5, <2>3, <3>5
    <3>7. ASSUME NEW j \in About(gs, k) PROVE j <= i - 1
      <4>1. j + 1 \in About(fs, k) /\ j \in Nat
        BY <1>3, <1>5
      <4>2. j + 1 <= i
        BY <2>3, <4>1
      <4> QED
        BY <3>3, <4>1, <4>2
    <3> QED
      BY <3>5, <3>6, <3>7
  <2>4. InTheEnd(fs, k, x \in A) <=> InTheEnd(gs, k, x \in B)
    BY <1>9, <2>1, <2>2, <2>3 DEF InTheEnd
  <2> QED
    BY <2>4 DEF gs
<1> QED
  BY <1>8, <1>9

\* What the host has read comes before what is on the wire.
LEMMA CatAppend ==
  ASSUME NEW S, NEW b \in Seq(S), NEW u \in Seq(S), NEW f \in S
  PROVE  b \o Append(u, f) = Append(b \o u, f)
<1>1. Append(u, f) \in Seq(S) /\ b \o u \in Seq(S)
  BY AppendProperties, ConcatProperties
<1>2. b \o Append(u, f) \in Seq(S) /\ Append(b \o u, f) \in Seq(S)
  BY <1>1, AppendProperties, ConcatProperties
<1>3. Len(b) \in Nat /\ Len(u) \in Nat
  OBVIOUS
<1>4. /\ Len(b \o Append(u, f)) = Len(b) + Len(u) + 1
      /\ Len(Append(b \o u, f)) = Len(b) + Len(u) + 1
  BY <1>1, <1>3
<1>5. \A i \in 1 .. Len(b \o Append(u, f)) : (b \o Append(u, f))[i] = Append(b \o u, f)[i]
  BY <1>1, <1>3, <1>4
<1> QED
  BY <1>2, <1>4, <1>5, SeqEqual

LEMMA CatTail ==
  ASSUME NEW S, NEW b \in Seq(S), NEW u \in Seq(S), b # <<>>
  PROVE  /\ b \o u \in Seq(S) /\ b \o u # <<>>
         /\ Head(b \o u) = Head(b) /\ Tail(b \o u) = Tail(b) \o u
<1>1. b \o u \in Seq(S) /\ Tail(b) \in Seq(S) /\ Len(b) \in Nat \ {0} /\ Len(u) \in Nat
  BY ConcatProperties, HeadTailProperties
<1>2. Len(b \o u) = Len(b) + Len(u) /\ b \o u # <<>> /\ Head(b \o u) = Head(b)
  BY <1>1
<1>3. Tail(b \o u) \in Seq(S) /\ Tail(b) \o u \in Seq(S)
  BY <1>1, <1>2, ConcatProperties, HeadTailProperties
<1>4. Len(Tail(b \o u)) = Len(b) + Len(u) - 1 /\ Len(Tail(b) \o u) = Len(b) + Len(u) - 1
  BY <1>1, <1>2
<1>5. \A i \in 1 .. Len(Tail(b \o u)) : Tail(b \o u)[i] = (Tail(b) \o u)[i]
  BY <1>1, <1>2, <1>4
<1> QED
  BY <1>1, <1>2, <1>3, <1>4, <1>5, SeqEqual

-----------------------------------------------------------------------------
(* The sink table follows the registrations.                               *)

AgreesOn(c, k) == Working(c) => (SinkInTheEnd(c, k) <=> On(c, k) # {})

\* A step that leaves this connection's frames, sinks and registrations alone.
LEMMA AgreesFrame ==
  ASSUME NEW c \in Conns, NEW k \in Names, AgreesOn(c, k), Working(c)' => Working(c),
         up'[c] = up[c], batch'[c] = batch[c], On(c, k)' = On(c, k),
         <<k, c>> \in sinks' <=> <<k, c>> \in sinks
  PROVE  AgreesOn(c, k)'
<1>1. InTheEnd(batch'[c] \o up'[c], k, <<k, c>> \in sinks')
        <=> InTheEnd(batch[c] \o up[c], k, <<k, c>> \in sinks)
  BY DEF InTheEnd
<1> QED
  BY <1>1 DEF AgreesOn, SinkInTheEnd

\* A frame handed to the wire of a connection that works.
LEMMA SentAgrees ==
  ASSUME TypeOK, NEW d \in Conns, NEW f \in Frames, EmitUp(d, f), d \notin cStopped,
         NEW k \in Names, UNCHANGED <<batch, sinks>>
  PROVE  SinkInTheEnd(d, k)' <=> IF Decides(f, k) THEN f.kind = "sub" ELSE SinkInTheEnd(d, k)
<1>1. up[d] \in Seq(Frames) /\ batch[d] \in Seq(Frames) /\ batch[d] \o up[d] \in Seq(Frames)
  BY ConcatProperties DEF TypeOK, WireType
<1>2. up'[d] = Append(up[d], f) /\ batch'[d] = batch[d]
  BY DEF EmitUp, TypeOK, WireType
<1>3. batch[d] \o Append(up[d], f) = Append(batch[d] \o up[d], f)
  <2>1. \A b, u \in Seq(Frames) : b \o Append(u, f) = Append(b \o u, f)
    BY CatAppend
  <2> QED
    BY <1>1, <2>1
<1>4. PICK fs : fs = batch[d] \o up[d]
  OBVIOUS
<1>5. \A gs \in Seq(Frames) :
        InTheEnd(Append(gs, f), k, <<k, d>> \in sinks)
          <=> IF Decides(f, k) THEN f.kind = "sub" ELSE InTheEnd(gs, k, <<k, d>> \in sinks)
  BY EndAppend
<1>6. batch'[d] \o up'[d] = Append(fs, f) /\ sinks' = sinks /\ fs \in Seq(Frames)
  BY <1>1, <1>2, <1>3, <1>4
<1>7. SinkInTheEnd(d, k)' <=> InTheEnd(Append(fs, f), k, <<k, d>> \in sinks)
  BY <1>6 DEF SinkInTheEnd
<1>8. SinkInTheEnd(d, k) <=> InTheEnd(fs, k, <<k, d>> \in sinks)
  BY <1>4 DEF SinkInTheEnd
<1> QED
  BY <1>5, <1>6, <1>7, <1>8

\* sendSubscribe: the frame says what the registry says.
LEMMA SubscribeAgrees ==
  ASSUME TypeOK, NEW r \in Regs, SendSubscribe(r), NEW c \in Conns, NEW k \in Names,
         AgreesOn(c, k)
  PROVE  AgreesOn(c, k)'
<1> DEFINE d == RegConn[r]
           f == Frame("sub", RegKey[r])
<1>1. /\ EmitUp(d, f) /\ reg' = [reg EXCEPT ![r] = "on"]
      /\ UNCHANGED <<cStopped, host, batch, sinks>>
  BY DEF SendSubscribe, hostVars
<1>2. d \in Conns /\ f \in Frames /\ f.kind = "sub" /\ f.key = RegKey[r]
  BY RegAssumption DEF Frame, Frames
<1>3. reg'[r] = "on" /\ \A x \in Regs : x # r => reg'[x] = reg[x]
  BY <1>1 DEF TypeOK, ConsumerType
<1>4. Working(c)' <=> Working(c) /\ TRUE
  BY <1>1 DEF Working
<1>5. up \in [Conns -> Seq(Frames)]
  BY DEF TypeOK, WireType
<1> HIDE DEF d, f
<1>6. CASE c # d
  <2>1. up'[c] = up[c] /\ batch'[c] = batch[c] /\ sinks' = sinks
    BY <1>1, <1>5, <1>6 DEF EmitUp
  <2>2. On(c, k)' = On(c, k)
    BY <1>3, <1>6 DEF On, d
  <2> QED
    BY <1>4, <2>1, <2>2, AgreesFrame
<1>7. CASE c = d /\ Working(c)
  <2>1. d \notin cStopped
    BY <1>7 DEF Working
  <2>2. SinkInTheEnd(c, k)' <=> IF Decides(f, k) THEN f.kind = "sub" ELSE SinkInTheEnd(c, k)
    BY <1>1, <1>2, <1>7, <2>1, SentAgrees
  <2>3. CASE k = RegKey[r]
    <3>1. r \in On(c, k)'
      BY <1>3, <1>7, <2>3 DEF On, d
    <3>2. SinkInTheEnd(c, k)'
      BY <1>2, <2>2, <2>3 DEF Decides
    <3> QED
      BY <3>1, <3>2 DEF AgreesOn
  <2>4. CASE k # RegKey[r]
    <3>1. On(c, k)' = On(c, k)
      BY <1>3, <2>4 DEF On
    <3>2. SinkInTheEnd(c, k)' <=> SinkInTheEnd(c, k)
      BY <1>2, <2>2, <2>4 DEF Decides
    <3> QED
      BY <1>7, <3>1, <3>2 DEF AgreesOn
  <2> QED
    BY <2>3, <2>4
<1>8. CASE ~Working(c)
  BY <1>4, <1>8 DEF AgreesOn
<1> QED
  BY <1>6, <1>7, <1>8

\* sendUnsubscribe: the last handle of an event takes the sink with it, a sibling
\* that stays keeps it.
LEMMA UnsubscribeAgrees ==
  ASSUME TypeOK, NEW r \in Regs, SendUnsubscribe(r), NEW c \in Conns, NEW k \in Names,
         AgreesOn(c, k)
  PROVE  AgreesOn(c, k)'
<1> DEFINE d == RegConn[r]
           f == Frame("unsub", RegKey[r])
<1>1. /\ reg[r] = "on" /\ reg' = [reg EXCEPT ![r] = "off"]
      /\ \/ On(d, RegKey[r]) = {r} /\ EmitUp(d, f)
         \/ On(d, RegKey[r]) # {r} /\ up' = up
      /\ UNCHANGED <<cStopped, host, batch, sinks>>
  BY DEF SendUnsubscribe, hostVars
<1>2. d \in Conns /\ f \in Frames /\ f.kind = "unsub" /\ f.key = RegKey[r]
  BY RegAssumption DEF Frame, Frames
<1>3. reg'[r] = "off" /\ \A x \in Regs : x # r => reg'[x] = reg[x]
  BY <1>1 DEF TypeOK, ConsumerType
<1>4. Working(c)' <=> Working(c) /\ TRUE
  BY <1>1 DEF Working
<1>5. up \in [Conns -> Seq(Frames)]
  BY DEF TypeOK, WireType
<1>6. r \in On(d, RegKey[r])
  BY <1>1 DEF On
<1> HIDE DEF d, f
<1>7. CASE c # d \/ k # RegKey[r]
  <2>1. On(c, k)' = On(c, k)
    BY <1>3, <1>7 DEF On, d
  <2>2. CASE c # d \/ up' = up
    <3>1. up'[c] = up[c] /\ batch'[c] = batch[c] /\ sinks' = sinks
      BY <1>1, <1>5, <2>2 DEF EmitUp
    <3> QED
      BY <1>4, <2>1, <3>1, AgreesFrame
  <2>3. CASE c = d /\ EmitUp(d, f) /\ Working(c)
    <3>1. d \notin cStopped /\ ~Decides(f, k)
      BY <1>2, <1>7, <2>3 DEF Working, Decides
    <3>2. SinkInTheEnd(c, k)' <=> SinkInTheEnd(c, k)
      BY <1>1, <1>2, <2>3, <3>1, SentAgrees
    <3> QED
      BY <2>1, <2>3, <3>2 DEF AgreesOn
  <2>4. CASE ~Working(c)
    BY <1>4, <2>4 DEF AgreesOn
  <2> QED
    BY <1>1, <2>2, <2>3, <2>4
<1>8. CASE c = d /\ k = RegKey[r] /\ Working(c)
  <2>1. CASE On(d, RegKey[r]) = {r} /\ EmitUp(d, f)
    <3>1. d \notin cStopped /\ Decides(f, k)
      BY <1>2, <1>8 DEF Working, Decides
    <3>2. ~SinkInTheEnd(c, k)'
      BY <1>1, <1>2, <1>8, <2>1, <3>1, SentAgrees
    <3>3. On(c, k)' = {}
      BY <1>3, <1>8, <2>1 DEF On
    <3> QED
      BY <3>2, <3>3 DEF AgreesOn
  <2>2. CASE On(d, RegKey[r]) # {r} /\ up' = up
    <3>1. PICK x \in On(c, k) : x # r
      BY <1>6, <1>8, <2>2
    <3>2. x \in On(c, k)' /\ On(c, k) # {}
      BY <1>3, <3>1 DEF On
    <3>3. SinkInTheEnd(c, k)' <=> SinkInTheEnd(c, k)
      BY <1>1, <2>2 DEF SinkInTheEnd, InTheEnd
    <3> QED
      BY <1>8, <3>2, <3>3 DEF AgreesOn
  <2> QED
    BY <1>1, <2>1, <2>2
<1>9. CASE ~Working(c)
  BY <1>4, <1>9 DEF AgreesOn
<1> QED
  BY <1>7, <1>8, <1>9

\* A frame the host cannot decode says nothing about an event.
LEMMA UndecodableAgrees ==
  ASSUME TypeOK, NEW d \in Conns, SendUndecodable(d), NEW c \in Conns, NEW k \in Names,
         AgreesOn(c, k)
  PROVE  AgreesOn(c, k)'
<1> DEFINE f == Frame("bad", Wildcard)
<1>1. /\ d \notin cStopped /\ up' = [up EXCEPT ![d] = Append(@, f)]
      /\ UNCHANGED <<reg, cStopped, host, batch, sinks>>
  BY DEF SendUndecodable, consumer, hostVars
<1>2. f \in Frames /\ f.kind = "bad"
  BY RegAssumption DEF Frame, Frames
<1>3. On(c, k)' = On(c, k) /\ (Working(c)' <=> Working(c) /\ TRUE)
  BY <1>1 DEF On, Working
<1>4. up \in [Conns -> Seq(Frames)]
  BY DEF TypeOK, WireType
<1> HIDE DEF f
<1>5. CASE c # d
  <2>1. up'[c] = up[c] /\ batch'[c] = batch[c] /\ sinks' = sinks
    BY <1>1, <1>4, <1>5
  <2> QED
    BY <1>3, <2>1, AgreesFrame
<1>6. CASE c = d
  <2>1. EmitUp(d, f)
    BY <1>1 DEF EmitUp
  <2>2. SinkInTheEnd(c, k)' <=> SinkInTheEnd(c, k)
    BY <1>1, <1>2, <1>6, <2>1, SentAgrees DEF Decides
  <2> QED
    BY <1>3, <2>2 DEF AgreesOn
<1> QED
  BY <1>5, <1>6

\* A read moves frames from the wire to the host and keeps their order.
LEMMA ReadAgrees ==
  ASSUME TypeOK, NEW d \in Conns, HostRead(d), NEW c \in Conns, NEW k \in Names,
         AgreesOn(c, k)
  PROVE  AgreesOn(c, k)'
<1>1. PICK n \in 1 .. Len(up[d]) :
           /\ batch' = [batch EXCEPT ![d] = SubSeq(up[d], 1, n)]
           /\ up' = [up EXCEPT ![d] = SubSeq(@, n + 1, Len(@))]
  BY DEF HostRead
<1>2. batch[d] = <<>> /\ UNCHANGED <<reg, cStopped, host, sinks>>
  BY DEF HostRead, consumer
<1>3. up \in [Conns -> Seq(Frames)] /\ batch \in [Conns -> Seq(Frames)]
  BY DEF TypeOK, WireType
<1>4. On(c, k)' = On(c, k) /\ (Working(c)' <=> Working(c) /\ TRUE)
  BY <1>2 DEF On, Working
<1>5. CASE c # d
  <2>1. up'[c] = up[c] /\ batch'[c] = batch[c] /\ sinks' = sinks
    BY <1>1, <1>2, <1>3, <1>5
  <2> QED
    BY <1>4, <2>1, AgreesFrame
<1>6. CASE c = d
  <2>1. batch'[c] = SubSeq(up[c], 1, n) /\ up'[c] = SubSeq(up[c], n + 1, Len(up[c]))
    BY <1>1, <1>3, <1>6
  <2>2. up[c] \in Seq(Frames)
    BY <1>3
  <2>3. batch'[c] \o up'[c] = up[c]
    BY <1>6, <2>1, <2>2, ReadParts
  <2>4. batch[c] \o up[c] = up[c]
    BY <1>2, <1>6, <2>2, ConcatEmptySeq
  <2>5. SinkInTheEnd(c, k)' <=> SinkInTheEnd(c, k)
    BY <1>2, <2>3, <2>4 DEF SinkInTheEnd, InTheEnd
  <2> QED
    BY <1>4, <2>5 DEF AgreesOn
<1> QED
  BY <1>5, <1>6

\* onSubscribe and onUnsubscribe do what the frame decided when it was sent.
LEMMA FrameAgrees ==
  ASSUME TypeOK, NEW d \in Conns, HostFrame(d), NEW c \in Conns, NEW k \in Names,
         AgreesOn(c, k)
  PROVE  AgreesOn(c, k)'
<1>1. /\ batch[d] # <<>> /\ batch' = [batch EXCEPT ![d] = Tail(@)]
      /\ UNCHANGED <<reg, cStopped, up>>
  BY DEF HostFrame, consumer
<1>2. PICK f : f = Head(batch[d])
  OBVIOUS
<1>3. \/ f.kind = "sub" /\ sinks' = sinks \cup {<<f.key, d>>} /\ host' = host
      \/ f.kind = "unsub" /\ sinks' = sinks \ {<<f.key, d>>} /\ host' = host
      \/ /\ f.kind = "bad" /\ sinks' = sinks
         /\ host' = [host EXCEPT ![d] = IF @ = "open" THEN "failing" ELSE @]
  BY <1>2 DEF HostFrame, OnSubscribe, OnUnsubscribe
<1>4. /\ up \in [Conns -> Seq(Frames)] /\ batch \in [Conns -> Seq(Frames)]
      /\ host \in [Conns -> {"open", "failing", "closed"}]
  BY DEF TypeOK, WireType, HostType
<1>5. f \in Frames
  BY <1>1, <1>2, <1>4, HeadTailProperties
<1>6. On(c, k)' = On(c, k)
  BY <1>1 DEF On
<1>7. Working(c)' => Working(c) /\ (c = d => f.kind # "bad")
  BY <1>1, <1>3, <1>4 DEF Working
<1>8. CASE c # d
  <2>1. up'[c] = up[c] /\ batch'[c] = batch[c]
    BY <1>1, <1>4, <1>8
  <2>2. <<k, c>> \in sinks' <=> <<k, c>> \in sinks
    BY <1>3, <1>8
  <2> QED
    BY <1>6, <1>7, <2>1, <2>2, AgreesFrame
<1>9. CASE c = d /\ f.kind # "bad"
  <2>1. /\ batch[c] \o up[c] \in Seq(Frames) /\ batch[c] \o up[c] # <<>>
        /\ Head(batch[c] \o up[c]) = f /\ Tail(batch[c] \o up[c]) = Tail(batch[c]) \o up[c]
    BY <1>1, <1>2, <1>4, <1>9, CatTail
  <2>2. batch'[c] = Tail(batch[c]) /\ up'[c] = up[c]
    BY <1>1, <1>4, <1>9
  <2>3. <<k, c>> \in sinks' <=> IF Decides(f, k) THEN f.kind = "sub" ELSE <<k, c>> \in sinks
    BY <1>3, <1>5, <1>9 DEF Decides, Frames
  <2>4. PICK fs : fs = batch[c] \o up[c]
    OBVIOUS
  <2>5. fs \in Seq(Frames) /\ fs # <<>> /\ Head(fs) = f
    BY <2>1, <2>4
  <2>6. InTheEnd(fs, k, <<k, c>> \in sinks) <=> InTheEnd(Tail(fs), k, <<k, c>> \in sinks')
    <3>1. PICK x, A, B : x = <<k, c>> /\ A = sinks /\ B = sinks'
      OBVIOUS
    <3>2. x \in B <=> IF Decides(Head(fs), k) THEN Head(fs).kind = "sub" ELSE x \in A
      BY <2>3, <2>5, <3>1
    <3>3. InTheEnd(fs, k, x \in A) <=> InTheEnd(Tail(fs), k, x \in B)
      BY <2>5, <3>2, EndTail
    <3> QED
      BY <3>1, <3>3, Zenon
  <2>7. batch'[c] \o up'[c] = Tail(fs)
    BY <2>1, <2>2, <2>4
  <2>8. SinkInTheEnd(c, k)' <=> SinkInTheEnd(c, k)
    BY <2>4, <2>6, <2>7, Zenon DEF SinkInTheEnd
  <2> QED
    BY <1>6, <1>7, <2>8 DEF AgreesOn
<1>10. CASE c = d /\ f.kind = "bad"
  BY <1>7, <1>10 DEF AgreesOn
<1> QED
  BY <1>8, <1>9, <1>10

\* Every step keeps the two tables in agreement.
LEMMA AgreesStep ==
  ASSUME TypeOK, [Next]_vars, NEW c \in Conns, NEW k \in Names, AgreesOn(c, k)
  PROVE  AgreesOn(c, k)'
<1>1. ASSUME NEW r \in Regs, SendSubscribe(r) PROVE AgreesOn(c, k)'
  BY <1>1, SubscribeAgrees
<1>2. ASSUME NEW r \in Regs, SendUnsubscribe(r) PROVE AgreesOn(c, k)'
  BY <1>2, UnsubscribeAgrees
<1>3. ASSUME NEW d \in Conns, SendUndecodable(d) PROVE AgreesOn(c, k)'
  BY <1>3, UndecodableAgrees
<1>4. ASSUME NEW d \in Conns, HostRead(d) PROVE AgreesOn(c, k)'
  BY <1>4, ReadAgrees
<1>5. ASSUME NEW d \in Conns, HostFrame(d) PROVE AgreesOn(c, k)'
  BY <1>5, FrameAgrees
<1>6. ASSUME NEW d \in Conns, ConsumerFail(d) PROVE AgreesOn(c, k)'
  <2>1. /\ cStopped' = cStopped \cup {d} /\ UNCHANGED <<up, host, batch, sinks>>
        /\ reg' = [r \in Regs |-> IF RegConn[r] = d /\ reg[r] = "on" THEN "off" ELSE reg[r]]
    BY <1>6 DEF ConsumerFail, hostVars
  <2>2. CASE c = d
    BY <2>1, <2>2 DEF AgreesOn, Working
  <2>3. CASE c # d
    <3>1. On(c, k)' = On(c, k) /\ (Working(c)' => Working(c))
      BY <2>1, <2>3 DEF On, Working
    <3> QED
      BY <2>1, <3>1, AgreesFrame
  <2> QED
    BY <2>2, <2>3
<1>7. ASSUME NEW d \in Conns, OnConnectionClosed(d) PROVE AgreesOn(c, k)'
  <2>1. /\ host[d] = "failing" /\ host' = [host EXCEPT ![d] = "closed"]
        /\ sinks' = {s \in sinks : s[2] # d} /\ UNCHANGED <<reg, cStopped, up, batch>>
    BY <1>7 DEF OnConnectionClosed, consumer
  <2>2. host \in [Conns -> {"open", "failing", "closed"}]
    BY DEF TypeOK, HostType
  <2>3. Working(c)' => Working(c) /\ c # d
    BY <2>1, <2>2 DEF Working
  <2>4. On(c, k)' = On(c, k)
    BY <2>1 DEF On
  <2>5. CASE c # d
    <3>1. <<k, c>> \in sinks' <=> <<k, c>> \in sinks
      BY <2>1, <2>5
    <3> QED
      BY <2>1, <2>3, <2>4, <3>1, AgreesFrame
  <2>6. CASE c = d
    BY <2>3, <2>6 DEF AgreesOn
  <2> QED
    BY <2>5, <2>6
<1>8. ASSUME NEW d \in Conns, HostFail(d) PROVE AgreesOn(c, k)'
  <2>1. /\ host' = [host EXCEPT ![d] = "failing"]
        /\ UNCHANGED <<reg, cStopped, up, batch, sinks>>
    BY <1>8 DEF HostFail, consumer
  <2>2. On(c, k)' = On(c, k) /\ (Working(c)' => Working(c))
    BY <2>1 DEF On, Working, TypeOK, HostType
  <2> QED
    BY <2>1, <2>2, AgreesFrame
<1>9. ASSUME \/ \E d \in Conns : CollectCallbacks(d) \/ InvokeCallback(d)
             \/ PublishObject \/ UnpublishObject
             \/ \E m \in Emissions : FanOutEvent(m) \/ \E s \in Sinks : CallSink(m, s)
             \/ UNCHANGED vars
      PROVE  AgreesOn(c, k)'
  <2>1. UNCHANGED <<reg, cStopped, host, up, batch, sinks>>
    BY <1>9 DEF CollectCallbacks, InvokeCallback, PublishObject, UnpublishObject, FanOutEvent,
       CallSink, vars, consumer, hostVars
  <2>2. On(c, k)' = On(c, k) /\ (Working(c)' => Working(c))
    BY <2>1 DEF On, Working
  <2> QED
    BY <2>1, <2>2, AgreesFrame
<1> QED
  BY <1>1, <1>2, <1>3, <1>4, <1>5, <1>6, <1>7, <1>8, <1>9 DEF Next, HostStep, ConsumerStep

-----------------------------------------------------------------------------
(* What holds in every behaviour.                                          *)

LEMMA Invariance == Spec => [](CopyInv /\ WireAgrees)
<1>1. Init => CopyInv /\ WireAgrees
  <2> SUFFICES ASSUME Init PROVE CopyInv /\ WireAgrees
    OBVIOUS
  <2>1. TypeOK
    BY EmptySeq DEF Init, TypeOK, ConsumerType, HostType, WireType, NotEmitted
  <2>2. RouteInv /\ OneCopy
    BY DEF Init, RouteInv, OneSink, OneFrame, OnePlace, HandOK, InFan, InDown, InHand, Unheard,
       OneCopy, NotEmitted
  <2>3. ASSUME NEW c \in Conns, NEW k \in Names PROVE AgreesOn(c, k)
    <3>1. batch[c] = <<>> /\ up[c] = <<>> /\ sinks = {}
      BY DEF Init
    <3>2. batch[c] \o up[c] = <<>>
      BY <3>1, ConcatEmptySeq, EmptySeq
    <3>3. About(batch[c] \o up[c], k) = {}
      BY <3>2 DEF About
    <3>4. On(c, k) = {}
      BY DEF Init, On
    <3> QED
      BY <3>1, <3>3, <3>4 DEF AgreesOn, SinkInTheEnd, InTheEnd
  <2> QED
    BY <2>1, <2>2, <2>3 DEF CopyInv, WireAgrees, AgreesOn
<1>2. CopyInv /\ WireAgrees /\ [Next]_vars => (CopyInv /\ WireAgrees)'
  <2> SUFFICES ASSUME CopyInv, WireAgrees, [Next]_vars PROVE CopyInv' /\ WireAgrees'
    OBVIOUS
  <2>1. TypeOK /\ RouteInv /\ OneCopy
    BY DEF CopyInv
  <2>2. TypeOK' /\ RouteInv' /\ OneCopy'
    BY <2>1, TypeStep, RouteStep
  <2>3. \A c \in Conns, k \in Names : AgreesOn(c, k)'
    BY <2>1, AgreesStep DEF WireAgrees, AgreesOn
  <2> QED
    BY <2>2, <2>3 DEF CopyInv, WireAgrees, AgreesOn
<1> QED
  BY <1>1, <1>2, PTL DEF Spec

\* A handle hears of an event at most once, whatever mix of named and wildcard
\* registrations its connection has, and however the registrations change while the
\* event is on its way.
THEOREM OneCopyAlways == Spec => []OneCopy
<1>1. CopyInv /\ WireAgrees => OneCopy
  BY DEF CopyInv
<1> QED
  BY <1>1, Invariance, PTL

\* While both ends of a connection work, the host has, or will have when it has
\* dispatched what is on the way, a sink for exactly the events some handle of the
\* connection is registered for.
THEOREM WireAgreesAlways == Spec => []WireAgrees
  BY Invariance, PTL
===============================================================================
