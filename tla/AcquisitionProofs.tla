------------------------- MODULE AcquisitionProofs -------------------------
(***************************************************************************)
(* Waiting for an object that is not there yet: the subscriptions a        *)
(* consumer holds until it has a handle (PendingSubscriptions), and the    *)
(* acquisition of a replica from a Qt node (RemoteAcquire).                *)
(*                                                                         *)
(* LogosPendingSubscriptions for any objects, subscriptions and policies,  *)
(* whatever the callbacks call: no subscription is doubled, or forgotten   *)
(* but through rearm() of an object with nothing held.                     *)
(* And, unless a callback reconnects the consumer that is calling it, an   *)
(* armed one has its callback on the handle of its object.                 *)
(***************************************************************************)
EXTENDS PendingSubscriptions, RemoteAcquire, SequenceTheorems, TLAPS

-----------------------------------------------------------------------------
(* The call stack.                                                         *)

Frames ==
  [op : {"arm", "begin", "chase"}, o : Objects, set : {{}}]
  \cup [op : {"attach", "push", "answered", "drop"}, o : Objects, set : SUBSET Subs]
  \cup [op : {"loop", "dead", "edge"}, o : {"-"}, set : SUBSET Objects]
  \cup [op : {"timer", "wanted", "settle"}, o : {"-"}, set : {{}}]

TypeOK ==
  /\ subscribed \subseteq Subs /\ dropped \subseteq Subs
  /\ entries \subseteq Subs /\ armed \subseteq Subs /\ held \subseteq Subs
  /\ acquiring \subseteq Objects /\ attached \subseteq Subs
  /\ restart \in [Objects -> {"Automatic", "Manual"}]
  /\ handle \in [Objects -> {"none", "valid", "stale"}]
  /\ up \in [Objects -> BOOLEAN]
  /\ agenda \in Seq(Frames)

\* The frames of a stack; those of a running armAgainst that hold subscriptions; what
\* they hold; that no two hold the same one.
Els(a) == {a[i] : i \in DOMAIN a}
Holds(f) == f.op \in {"attach", "push"}
Hand(a) == UNION {f.set : f \in {g \in Els(a) : Holds(g)}}
Apart(a) == \A i, j \in DOMAIN a :
              i # j /\ Holds(a[i]) /\ Holds(a[j]) => a[i].set \cap a[j].set = {}

\* Every subscription that was not let go is in one place, and no other is anywhere.
Kept ==
  /\ subscribed \ dropped \subseteq entries \cup armed \cup held \cup Hand(agenda)
  /\ entries \cup armed \cup held \cup Hand(agenda) \subseteq subscribed
  /\ entries \cap armed = {} /\ entries \cap held = {} /\ armed \cap held = {}
  /\ Hand(agenda) \cap (entries \cup armed \cup held) = {}
  /\ Apart(agenda)

\* A frame of armAgainst works for one object.  Its handle is there, and no other can
\* replace it meanwhile: that takes a stale handle and a provider that is up.
FrameAttached(f, h, att, u) ==
  Holds(f) => /\ h[f.o] # "none" /\ (h[f.o] = "valid" \/ ~u[f.o])
              /\ \A s \in f.set : ObjectOf[s] = f.o /\ (f.op = "push" => s \in att)

\* armAgainst on the handle that is held is entered at once, and the turns of
\* checkLiveness find no armAgainst below them.
ArmFirst(a) == \A i \in DOMAIN a : a[i].op = "arm" => i = 1
DeadBelow(a) == \A i, j \in DOMAIN a : i < j /\ a[i].op = "dead" => ~Holds(a[j])

Placed ==
  /\ ArmFirst(agenda) /\ DeadBelow(agenda)
  /\ \A f \in Els(agenda) : f.op = "arm" => handle[f.o] = "valid"

Linked ==
  /\ Placed
  /\ ArmedIsAttached
  /\ \A f \in Els(agenda) : FrameAttached(f, handle, attached, up)

\* A stack without armAgainst; one without the frames whose place matters.
NoHold(a) == a \in Seq(Frames) /\ \A f \in Els(a) : ~Holds(f)
Calm(a) == NoHold(a) /\ \A f \in Els(a) : f.op \notin {"arm", "dead"}
NoArm(a) == \A f \in Els(a) : f.op # "arm"
NoDead(a) == \A f \in Els(a) : f.op # "dead"

LEMMA ElsNone == <<>> \in Seq(Frames) /\ Els(<<>>) = {} /\ Calm(<<>>)
<1>1. <<>> \in Seq(Frames) /\ DOMAIN <<>> = {}
  BY EmptySeq
<1>2. Els(<<>>) = {}
  BY <1>1 DEF Els
<1> QED
  BY <1>1, <1>2 DEF Calm, NoHold

LEMMA ElsOne ==
  ASSUME NEW f \in Frames
  PROVE  <<f>> \in Seq(Frames) /\ Els(<<f>>) = {f} /\ DOMAIN <<f>> = {1} /\ <<f>>[1] = f
<1>1. <<f>> \in Seq(Frames) /\ DOMAIN <<f>> = {1} /\ <<f>>[1] = f
  OBVIOUS
<1> QED
  BY <1>1 DEF Els

\* The positions of a concatenation.
LEMMA ConcatAt ==
  ASSUME NEW a \in Seq(Frames), NEW b \in Seq(Frames)
  PROVE  /\ a \o b \in Seq(Frames)
         /\ Len(a) \in Nat /\ DOMAIN a = 1 .. Len(a) /\ DOMAIN b = 1 .. Len(b) /\ Len(b) \in Nat
         /\ DOMAIN (a \o b) = 1 .. (Len(a) + Len(b))
         /\ \A i \in DOMAIN a : i \in DOMAIN (a \o b) /\ (a \o b)[i] = a[i]
         /\ \A i \in DOMAIN b : Len(a) + i \in DOMAIN (a \o b) /\ (a \o b)[Len(a) + i] = b[i]
         /\ \A i \in DOMAIN (a \o b) : i \notin DOMAIN a => i - Len(a) \in DOMAIN b /\ (a \o b)[i] = b[i - Len(a)]
<1>1. a \o b \in Seq(Frames) /\ Len(a \o b) = Len(a) + Len(b)
  BY ConcatProperties
<1>2. Len(a) \in Nat /\ Len(b) \in Nat /\ DOMAIN a = 1 .. Len(a) /\ DOMAIN b = 1 .. Len(b)
  BY LenProperties
<1>3. DOMAIN (a \o b) = 1 .. (Len(a) + Len(b))
  BY <1>1, LenProperties
<1>4. \A i \in 1 .. (Len(a) + Len(b)) : (a \o b)[i] = IF i <= Len(a) THEN a[i] ELSE b[i - Len(a)]
  BY <1>1, ConcatProperties
<1>5. ASSUME NEW i \in DOMAIN a PROVE i \in DOMAIN (a \o b) /\ (a \o b)[i] = a[i]
  BY <1>2, <1>3, <1>4
<1>6. ASSUME NEW i \in DOMAIN b PROVE Len(a) + i \in DOMAIN (a \o b) /\ (a \o b)[Len(a) + i] = b[i]
  <2>1. i \in 1 .. Len(b) /\ Len(a) + i \in 1 .. (Len(a) + Len(b)) /\ ~(Len(a) + i <= Len(a)) /\ (Len(a) + i) - Len(a) = i
    BY <1>2
  <2> QED
    BY <1>3, <1>4, <2>1
<1>7. ASSUME NEW i \in DOMAIN (a \o b), i \notin DOMAIN a
      PROVE  i - Len(a) \in DOMAIN b /\ (a \o b)[i] = b[i - Len(a)]
  BY <1>2, <1>3, <1>4, <1>7
<1> QED
  BY <1>1, <1>2, <1>3, <1>5, <1>6, <1>7

LEMMA ElsConcat ==
  ASSUME NEW a \in Seq(Frames), NEW b \in Seq(Frames)
  PROVE  a \o b \in Seq(Frames) /\ Els(a \o b) = Els(a) \cup Els(b)
<1>1. PICK c : c = a \o b
  OBVIOUS
<1>2. /\ c \in Seq(Frames)
      /\ \A i \in DOMAIN a : i \in DOMAIN c /\ c[i] = a[i]
      /\ \A i \in DOMAIN b : Len(a) + i \in DOMAIN c /\ c[Len(a) + i] = b[i]
      /\ \A i \in DOMAIN c : i \notin DOMAIN a => i - Len(a) \in DOMAIN b /\ c[i] = b[i - Len(a)]
  BY <1>1, ConcatAt
<1>3. Els(a) \subseteq Els(c) /\ Els(b) \subseteq Els(c)
  BY <1>2 DEF Els
<1>4. ASSUME NEW f \in Els(c) PROVE f \in Els(a) \cup Els(b)
  <2>1. PICK i \in DOMAIN c : f = c[i]
    BY DEF Els
  <2>2. CASE i \in DOMAIN a
    BY <1>2, <2>1, <2>2 DEF Els
  <2>3. CASE i \notin DOMAIN a
    BY <1>2, <2>1, <2>3 DEF Els
  <2> QED
    BY <2>2, <2>3
<1> QED
  BY <1>1, <1>2, <1>3, <1>4

LEMMA CalmConcat ==
  ASSUME NEW a, NEW b
  PROVE  /\ NoHold(a) /\ NoHold(b) => NoHold(a \o b)
         /\ Calm(a) /\ Calm(b) => Calm(a \o b)
<1>1. ASSUME NoHold(a), NoHold(b) PROVE a \o b \in Seq(Frames) /\ Els(a \o b) = Els(a) \cup Els(b)
  BY <1>1, ElsConcat DEF NoHold
<1> QED
  BY <1>1 DEF NoHold, Calm

LEMMA HandConcat ==
  ASSUME NEW a \in Seq(Frames), NEW b \in Seq(Frames)
  PROVE  Hand(a \o b) = Hand(a) \cup Hand(b)
<1>1. PICK c : c = a \o b
  OBVIOUS
<1>2. Els(c) = Els(a) \cup Els(b)
  BY <1>1, ElsConcat
<1>3. \A s : s \in Hand(c) <=> \E f \in Els(c) : Holds(f) /\ s \in f.set
  BY DEF Hand
<1>4. \A s : s \in Hand(a) <=> \E f \in Els(a) : Holds(f) /\ s \in f.set
  BY DEF Hand
<1>5. \A s : s \in Hand(b) <=> \E f \in Els(b) : Holds(f) /\ s \in f.set
  BY DEF Hand
<1>6. \A s : s \in Hand(c) <=> s \in Hand(a) \cup Hand(b)
  BY <1>2, <1>3, <1>4, <1>5
<1> QED
  BY <1>1, <1>6

LEMMA HandNoHold == ASSUME NEW a, NoHold(a) PROVE Hand(a) = {} /\ Apart(a)
<1>1. Hand(a) = {}
  BY DEF Hand, NoHold
<1>2. \A i \in DOMAIN a : ~Holds(a[i])
  BY DEF NoHold, Els
<1> QED
  BY <1>1, <1>2 DEF Apart

LEMMA HandAt ==
  ASSUME NEW a, NEW i \in DOMAIN a, Holds(a[i])
  PROVE  a[i].set \subseteq Hand(a)
BY DEF Hand, Els

LEMMA ApartConcat ==
  ASSUME NEW a \in Seq(Frames), NEW b \in Seq(Frames),
         Apart(a), Apart(b), Hand(a) \cap Hand(b) = {}
  PROVE  Apart(a \o b)
<1>1. PICK c : c = a \o b
  OBVIOUS
<1>2. /\ Len(a) \in Nat /\ DOMAIN c \subseteq Nat
      /\ \A i \in DOMAIN a : c[i] = a[i]
      /\ \A i \in DOMAIN c : i \notin DOMAIN a => i - Len(a) \in DOMAIN b /\ c[i] = b[i - Len(a)]
  BY <1>1, ConcatAt
<1> SUFFICES ASSUME NEW i \in DOMAIN c, NEW j \in DOMAIN c, i # j, Holds(c[i]), Holds(c[j])
             PROVE  c[i].set \cap c[j].set = {}
  BY <1>1 DEF Apart
<1>3. CASE i \in DOMAIN a /\ j \in DOMAIN a
  BY <1>2, <1>3 DEF Apart
<1>4. CASE i \in DOMAIN a /\ j \notin DOMAIN a
  <2>1. c[i] = a[i] /\ c[j] = b[j - Len(a)] /\ j - Len(a) \in DOMAIN b
    BY <1>2, <1>4
  <2>2. c[i].set \subseteq Hand(a) /\ c[j].set \subseteq Hand(b)
    BY <1>4, <2>1, HandAt
  <2> QED
    BY <2>2
<1>5. CASE i \notin DOMAIN a /\ j \in DOMAIN a
  <2>1. c[j] = a[j] /\ c[i] = b[i - Len(a)] /\ i - Len(a) \in DOMAIN b
    BY <1>2, <1>5
  <2>2. c[j].set \subseteq Hand(a) /\ c[i].set \subseteq Hand(b)
    BY <1>5, <2>1, HandAt
  <2> QED
    BY <2>2
<1>6. CASE i \notin DOMAIN a /\ j \notin DOMAIN a
  <2>1. /\ c[i] = b[i - Len(a)] /\ i - Len(a) \in DOMAIN b
        /\ c[j] = b[j - Len(a)] /\ j - Len(a) \in DOMAIN b
    BY <1>2, <1>6
  <2>2. i - Len(a) # j - Len(a)
    BY <1>2
  <2> QED
    BY <2>1, <2>2 DEF Apart
<1> QED
  BY <1>3, <1>4, <1>5, <1>6

LEMMA ArmFirstConcat ==
  ASSUME NEW a \in Seq(Frames), NEW b \in Seq(Frames), ArmFirst(a), NoArm(b)
  PROVE  ArmFirst(a \o b)
<1>1. PICK c : c = a \o b
  OBVIOUS
<1>2. /\ \A i \in DOMAIN a : c[i] = a[i]
      /\ \A i \in DOMAIN c : i \notin DOMAIN a => i - Len(a) \in DOMAIN b /\ c[i] = b[i - Len(a)]
  BY <1>1, ConcatAt
<1>3. \A i \in DOMAIN c : c[i].op = "arm" => i = 1
  BY <1>2 DEF ArmFirst, NoArm, Els
<1> QED
  BY <1>1, <1>3 DEF ArmFirst

LEMMA DeadBelowConcat ==
  ASSUME NEW a \in Seq(Frames), NEW b \in Seq(Frames), NoDead(a), DeadBelow(b)
  PROVE  DeadBelow(a \o b)
<1>1. PICK c : c = a \o b
  OBVIOUS
<1>2. /\ Len(a) \in Nat /\ DOMAIN c \subseteq Nat /\ DOMAIN a = 1 .. Len(a) /\ DOMAIN c = 1 .. (Len(a) + Len(b))
      /\ Len(b) \in Nat
      /\ \A i \in DOMAIN a : c[i] = a[i]
      /\ \A i \in DOMAIN c : i \notin DOMAIN a => i - Len(a) \in DOMAIN b /\ c[i] = b[i - Len(a)]
  BY <1>1, ConcatAt
<1> SUFFICES ASSUME NEW i \in DOMAIN c, NEW j \in DOMAIN c, i < j, c[i].op = "dead"
             PROVE  ~Holds(c[j])
  BY <1>1 DEF DeadBelow
<1>3. i \notin DOMAIN a
  BY <1>2 DEF NoDead, Els
<1>4. j \notin DOMAIN a
  BY <1>2, <1>3
<1>5. i - Len(a) \in DOMAIN b /\ j - Len(a) \in DOMAIN b /\ c[i] = b[i - Len(a)] /\ c[j] = b[j - Len(a)]
  BY <1>2, <1>3, <1>4
<1>6. i - Len(a) < j - Len(a)
  BY <1>2
<1> QED
  BY <1>5, <1>6 DEF DeadBelow

LEMMA BareBelow ==
  ASSUME NEW a, NoHold(a), NoArm(a)
  PROVE  ArmFirst(a) /\ DeadBelow(a)
BY DEF NoHold, NoArm, Els, ArmFirst, DeadBelow

LEMMA CalmIsArmFirst == ASSUME NEW a, Calm(a) PROVE ArmFirst(a) /\ NoArm(a) /\ NoDead(a) /\ NoHold(a)
BY DEF Calm, NoArm, NoDead, Els, ArmFirst

\* The stack below the frame that runs.
LEMMA SplitStack ==
  ASSUME NEW a \in Seq(Frames), a # <<>>
  PROVE  /\ Head(a) \in Frames /\ Tail(a) \in Seq(Frames)
         /\ a = <<Head(a)>> \o Tail(a)
         /\ Els(a) = {Head(a)} \cup Els(Tail(a))
         /\ Hand(a) = (IF Holds(Head(a)) THEN Head(a).set ELSE {}) \cup Hand(Tail(a))
<1>1. Head(a) \in Frames /\ Tail(a) \in Seq(Frames) /\ a = <<Head(a)>> \o Tail(a)
  <2>1. /\ Head(a) \in Frames /\ Tail(a) \in Seq(Frames) /\ Head(a) = a[1]
        /\ Len(Tail(a)) = Len(a) - 1
        /\ \A i \in 1 .. Len(Tail(a)) : Tail(a)[i] = a[i + 1]
    BY HeadTailProperties
  <2>2. Len(a) \in Nat /\ Len(a) # 0
    BY LenProperties, EmptySeq
  <2>3. PICK f \in Frames : f = Head(a)
    BY <2>1
  <2>4. PICK t \in Seq(Frames) : t = Tail(a)
    BY <2>1
  <2>5. <<f>> \in Seq(Frames) /\ Len(<<f>>) = 1 /\ <<f>>[1] = f
    OBVIOUS
  <2>6. /\ <<f>> \o t \in Seq(Frames) /\ Len(<<f>> \o t) = Len(a)
        /\ \A i \in 1 .. Len(a) : (<<f>> \o t)[i] = IF i <= 1 THEN <<f>>[i] ELSE t[i - 1]
    BY <2>1, <2>2, <2>4, <2>5, ConcatProperties
  <2>7. \A i \in 1 .. Len(a) : (<<f>> \o t)[i] = a[i]
    <3> SUFFICES ASSUME NEW i \in 1 .. Len(a) PROVE (<<f>> \o t)[i] = a[i]
      OBVIOUS
    <3>1. CASE i = 1
      BY <2>1, <2>3, <2>5, <2>6, <3>1
    <3>2. CASE i # 1
      <4>1. i - 1 \in 1 .. Len(t) /\ ~(i <= 1) /\ (i - 1) + 1 = i
        BY <2>1, <2>2, <2>4, <3>2
      <4> QED
        BY <2>1, <2>4, <2>6, <4>1
    <3> QED
      BY <3>1, <3>2
  <2>8. <<f>> \o t = a
    BY <2>6, <2>7, SeqEqual
  <2> QED
    BY <2>1, <2>3, <2>4, <2>8
<1>2. PICK f \in Frames : f = Head(a)
  BY <1>1
<1>3. PICK t \in Seq(Frames) : t = Tail(a)
  BY <1>1
<1>4. <<f>> \in Seq(Frames) /\ Els(<<f>>) = {f}
  BY ElsOne
<1>5. Els(<<f>> \o t) = {f} \cup Els(t)
  BY <1>4, ElsConcat
<1>6. Hand(<<f>> \o t) = Hand(<<f>>) \cup Hand(t)
  BY <1>4, HandConcat
<1>7. Hand(<<f>>) = IF Holds(f) THEN f.set ELSE {}
  BY <1>4 DEF Hand
<1> QED
  BY <1>1, <1>2, <1>3, <1>5, <1>6, <1>7

LEMMA TailBelow ==
  ASSUME NEW a \in Seq(Frames), a # <<>>
  PROVE  /\ Apart(a) => /\ Apart(Tail(a))
                        /\ Holds(Head(a)) => Head(a).set \cap Hand(Tail(a)) = {}
         /\ ArmFirst(a) => NoArm(Tail(a))
         /\ DeadBelow(a) => /\ DeadBelow(Tail(a))
                            /\ Head(a).op = "dead" => NoHold(Tail(a))
<1>1. PICK t : t = Tail(a)
  OBVIOUS
<1>2. /\ t \in Seq(Frames) /\ Len(a) \in Nat /\ Len(a) >= 1 /\ DOMAIN a = 1 .. Len(a)
      /\ DOMAIN t = 1 .. (Len(a) - 1)
      /\ \A i \in DOMAIN t : t[i] = a[i + 1]
      /\ Head(a) = a[1]
  <2>1. Len(a) \in Nat /\ Len(a) # 0 /\ DOMAIN a = 1 .. Len(a)
    BY LenProperties, EmptySeq
  <2>2. /\ t \in Seq(Frames) /\ Len(t) = Len(a) - 1 /\ Head(a) = a[1]
        /\ \A i \in 1 .. Len(t) : t[i] = a[i + 1]
    BY <1>1, HeadTailProperties
  <2>3. DOMAIN t = 1 .. Len(t)
    BY <2>2, LenProperties
  <2> QED
    BY <2>1, <2>2, <2>3
<1>3. \A i \in DOMAIN t : i \in Nat /\ i + 1 \in DOMAIN a /\ 1 < i + 1 /\ t[i] = a[i + 1] /\ 1 \in DOMAIN a
  BY <1>2
<1>4. ASSUME Apart(a) PROVE Apart(t)
  <2> SUFFICES ASSUME NEW i \in DOMAIN t, NEW j \in DOMAIN t, i # j, Holds(t[i]), Holds(t[j])
               PROVE  t[i].set \cap t[j].set = {}
    BY DEF Apart
  <2>1. i + 1 # j + 1
    BY <1>3
  <2> QED
    BY <1>3, <1>4, <2>1 DEF Apart
<1>5. ASSUME Apart(a), Holds(a[1]) PROVE a[1].set \cap Hand(t) = {}
  <2> SUFFICES ASSUME NEW s \in a[1].set, s \in Hand(t) PROVE FALSE
    OBVIOUS
  <2>1. PICK f \in Els(t) : Holds(f) /\ s \in f.set
    BY DEF Hand
  <2>2. PICK i \in DOMAIN t : f = t[i]
    BY DEF Els
  <2>3. 1 # i + 1
    BY <1>3
  <2> QED
    BY <1>3, <1>5, <2>1, <2>2, <2>3 DEF Apart
<1>6. ASSUME ArmFirst(a) PROVE NoArm(t)
  BY <1>3, <1>6 DEF ArmFirst, NoArm, Els
<1>7. ASSUME DeadBelow(a) PROVE DeadBelow(t)
  <2> SUFFICES ASSUME NEW i \in DOMAIN t, NEW j \in DOMAIN t, i < j, t[i].op = "dead"
               PROVE  ~Holds(t[j])
    BY DEF DeadBelow
  <2>1. i + 1 < j + 1
    BY <1>3
  <2> QED
    BY <1>3, <1>7, <2>1 DEF DeadBelow
<1>8. ASSUME DeadBelow(a), a[1].op = "dead" PROVE NoHold(t)
  <2>1. \A i \in DOMAIN t : ~Holds(t[i])
    BY <1>3, <1>8 DEF DeadBelow
  <2> QED
    BY <1>2, <2>1 DEF NoHold, Els
<1> QED
  BY <1>1, <1>2, <1>4, <1>5, <1>6, <1>7, <1>8

-----------------------------------------------------------------------------
(* What is put on the stack, and on which rest of it.                      *)

\* A call is made on an empty stack or inside a callback; a frame that returns is
\* none of armAgainst's.
Rest(G) ==
  \/ agenda # <<>> /\ ~Holds(Head(agenda)) /\ G = Tail(agenda)
  \/ (agenda = <<>> \/ InCallback) /\ G = agenda

LEMMA RestBelow ==
  ASSUME TypeOK, NEW G, Rest(G)
  PROVE  /\ G \in Seq(Frames) /\ Els(G) \subseteq Els(agenda) /\ Hand(G) = Hand(agenda)
         /\ Apart(agenda) => Apart(G)
         /\ ArmFirst(agenda) => NoArm(G)
         /\ DeadBelow(agenda) => DeadBelow(G)
<1>1. agenda \in Seq(Frames)
  BY DEF TypeOK
<1>2. CASE agenda # <<>> /\ ~Holds(Head(agenda)) /\ G = Tail(agenda)
  BY <1>1, <1>2, SplitStack, TailBelow
<1>3. CASE agenda = <<>> /\ G = agenda
  BY <1>1, <1>3, ElsNone DEF NoArm
<1>4. CASE agenda # <<>> /\ InCallback /\ G = agenda
  <2>1. Head(agenda).op # "arm" /\ Els(agenda) = {Head(agenda)} \cup Els(Tail(agenda))
    BY <1>1, <1>4, SplitStack DEF InCallback, Windows
  <2>2. ArmFirst(agenda) => NoArm(Tail(agenda))
    BY <1>1, <1>4, TailBelow
  <2> QED
    BY <1>1, <1>4, <2>1, <2>2 DEF NoArm
<1> QED
  BY <1>2, <1>3, <1>4 DEF Rest

\* Frames outside armAgainst leave what is in hand alone.
LEMMA HandSame ==
  ASSUME TypeOK, NEW F, NoHold(F), NEW G, Rest(G), agenda' = F \o G
  PROVE  /\ agenda' \in Seq(Frames) /\ Hand(agenda') = Hand(agenda)
         /\ Apart(agenda) => Apart(agenda')
<1>1. F \in Seq(Frames) /\ Hand(F) = {} /\ Apart(F)
  BY HandNoHold DEF NoHold
<1>2. G \in Seq(Frames) /\ Hand(G) = Hand(agenda) /\ (Apart(agenda) => Apart(G))
  BY RestBelow
<1>3. F \o G \in Seq(Frames) /\ Hand(F \o G) = Hand(agenda)
  <2>1. F \o G \in Seq(Frames)
    BY <1>1, <1>2, ElsConcat
  <2>2. Hand(F \o G) = Hand(F) \cup Hand(G)
    BY <1>1, <1>2, HandConcat
  <2> QED
    BY <1>1, <1>2, <2>1, <2>2
<1>4. Apart(agenda) => Apart(F \o G)
  BY <1>1, <1>2, ApartConcat
<1> QED
  BY <1>3, <1>4

\* A call or a return that touches no handle: its frames may begin with an armAgainst
\* on a handle that is valid.
Opens(F) ==
  /\ NoHold(F) /\ NoDead(F) /\ ArmFirst(F)
  /\ \A f \in Els(F) : f.op = "arm" => handle[f.o] = "valid"

LEMMA CalmOpens == ASSUME NEW F, Calm(F) PROVE Opens(F)
BY CalmIsArmFirst DEF Opens, NoArm

LEMMA LinkedOpens ==
  ASSUME TypeOK, Linked, NEW F, Opens(F), NEW G, Rest(G), agenda' = F \o G,
         UNCHANGED <<handle, attached, up>>, armed' \subseteq armed
  PROVE  Linked'
<1>1. F \in Seq(Frames) /\ G \in Seq(Frames) /\ Els(G) \subseteq Els(agenda)
  BY RestBelow DEF Opens, NoHold
<1>2. Els(agenda') = Els(F) \cup Els(G)
  BY <1>1, ElsConcat
<1>3. NoArm(G) /\ DeadBelow(G)
  BY RestBelow DEF Linked, Placed
<1>4. ArmFirst(agenda') /\ DeadBelow(agenda')
  BY <1>1, <1>3, ArmFirstConcat, DeadBelowConcat DEF Opens
<1>5. ASSUME NEW f \in Els(agenda') PROVE FrameAttached(f, handle, attached, up)
  BY <1>1, <1>2 DEF Linked, Opens, NoHold, FrameAttached
<1>6. ASSUME NEW f \in Els(agenda') PROVE f.op = "arm" => handle[f.o] = "valid"
  BY <1>1, <1>2 DEF Linked, Placed, Opens
<1>7. ArmedIsAttached'
  BY DEF Linked, Placed, ArmedIsAttached
<1> QED
  BY <1>4, <1>5, <1>6, <1>7 DEF Linked, Placed

\* A step that leaves the stack alone.
LEMMA LinkedSame ==
  ASSUME Linked, UNCHANGED <<agenda, handle, attached, up>>, armed' \subseteq armed
  PROVE  Linked'
BY DEF Linked, Placed, ArmedIsAttached

\* A step after which no armAgainst is on the stack.
LEMMA LinkedBare ==
  ASSUME NoHold(agenda'), NoArm(agenda'), ArmedIsAttached'
  PROVE  Linked'
<1>1. ArmFirst(agenda') /\ DeadBelow(agenda')
  BY BareBelow
<1> QED
  BY <1>1 DEF Linked, Placed, NoHold, NoArm, FrameAttached

-----------------------------------------------------------------------------
(* The frames the operations put there.                                    *)

LEMMA PlainFrame ==
  ASSUME NEW f \in Frames, ~Holds(f)
  PROVE  NoHold(<<f>>) /\ (f.op \notin {"arm", "dead"} => Calm(<<f>>))
BY ElsOne DEF NoHold, Calm

LEMMA BeginFrame ==
  ASSUME NEW o \in Objects, NEW op \in {"arm", "begin", "chase"}
  PROVE  /\ Frame(op, o, {}) \in Frames /\ Frame(op, o, {}).op = op /\ Frame(op, o, {}).o = o
         /\ NoHold(<<Frame(op, o, {})>>)
         /\ op # "arm" => Calm(<<Frame(op, o, {})>>)
<1>1. PICK f : f = Frame(op, o, {})
  OBVIOUS
<1>2. f \in Frames /\ f.op = op /\ f.o = o /\ ~Holds(f)
  BY <1>1 DEF Frame, Frames, Holds
<1> QED
  BY <1>1, <1>2, PlainFrame

LEMMA PlainFrames ==
  /\ Calm(<<EnsureTimer>>) /\ EnsureTimer \in Frames /\ EnsureTimer.op = "timer"
  /\ \A op \in {"wanted", "settle"} : Calm(<<Frame(op, "-", {})>>)
  /\ \A S \in SUBSET Objects : Calm(<<Frame("edge", "-", S)>>) /\ Calm(<<Frame("loop", "-", S)>>)
  /\ \A S \in SUBSET Objects :
       /\ Frame("dead", "-", S) \in Frames
       /\ NoHold(<<Frame("dead", "-", S)>>) /\ NoArm(<<Frame("dead", "-", S)>>)
<1>1. ASSUME NEW op \in {"timer", "wanted", "settle"}
      PROVE  Calm(<<Frame(op, "-", {})>>) /\ Frame(op, "-", {}) \in Frames /\ Frame(op, "-", {}).op = op
  <2>1. PICK f : f = Frame(op, "-", {})
    OBVIOUS
  <2>2. f \in Frames /\ f.op = op /\ ~Holds(f)
    BY <2>1 DEF Frame, Frames, Holds
  <2> QED
    BY <2>1, <2>2, PlainFrame
<1>2. ASSUME NEW S \in SUBSET Objects, NEW op \in {"edge", "loop", "dead"}
      PROVE  /\ Frame(op, "-", S) \in Frames /\ NoHold(<<Frame(op, "-", S)>>)
             /\ op # "dead" => Calm(<<Frame(op, "-", S)>>)
             /\ NoArm(<<Frame(op, "-", S)>>)
  <2>1. PICK f : f = Frame(op, "-", S)
    OBVIOUS
  <2>2. f \in Frames /\ f.op = op /\ ~Holds(f)
    BY <2>1 DEF Frame, Frames, Holds
  <2>3. NoArm(<<f>>)
    BY <2>2, ElsOne DEF NoArm
  <2> QED
    BY <2>1, <2>2, <2>3, PlainFrame
<1> QED
  BY <1>1, <1>2 DEF EnsureTimer

LEMMA ReportCalm == ASSUME NEW S \in SUBSET Objects PROVE Calm(Report(S))
BY PlainFrames, ElsNone DEF Report

LEMMA LoopCalm == ASSUME NEW S \in SUBSET Objects PROVE Calm(Loop(S))
BY PlainFrames, ElsNone DEF Loop, Each

LEMMA EachDead == ASSUME NEW S \in SUBSET Objects PROVE NoHold(Each("dead", "-", S)) /\ NoArm(Each("dead", "-", S))
<1>1. NoHold(<<>>) /\ NoArm(<<>>)
  BY ElsNone, CalmIsArmFirst
<1> QED
  BY <1>1, PlainFrames DEF Each

LEMMA ChaseCalm ==
  ASSUME TypeOK, NEW lost \in SUBSET Subs
  PROVE  Calm(Chase(lost))
<1>1. PICK N : N = {ObjectOf[s] : s \in lost}
  OBVIOUS
<1>2. N \subseteq Objects
  BY <1>1, SubsAssumption
<1>3. Calm(Report({o \in N : Manual(o)})) /\ Calm(Loop({o \in N : ~Manual(o)}))
  BY <1>2, ReportCalm, LoopCalm
<1>4. Calm(Report({o \in N : Manual(o)}) \o Loop({o \in N : ~Manual(o)}) \o <<EnsureTimer>>)
  BY <1>3, PlainFrames, CalmConcat
<1> QED
  BY <1>1, <1>4 DEF Chase

\* The loop of armAgainst.
LEMMA EachHolds ==
  ASSUME NEW o \in Objects, NEW S \in SUBSET Subs
  PROVE  /\ Each("attach", o, S) \in Seq(Frames)
         /\ Els(Each("attach", o, S)) \subseteq {Frame("attach", o, S)}
         /\ Hand(Each("attach", o, S)) = S /\ Apart(Each("attach", o, S))
         /\ NoArm(Each("attach", o, S)) /\ NoDead(Each("attach", o, S))
<1>1. PICK f : f = Frame("attach", o, S)
  OBVIOUS
<1>2. f \in Frames /\ f.op = "attach" /\ f.set = S /\ Holds(f)
  BY <1>1 DEF Frame, Frames, Holds
<1>3. CASE S = {}
  <2>1. Each("attach", o, S) = <<>>
    BY <1>3 DEF Each
  <2>2. Els(<<>>) = {} /\ <<>> \in Seq(Frames) /\ Hand(<<>>) = {} /\ Apart(<<>>)
    BY ElsNone, HandNoHold, CalmIsArmFirst
  <2> QED
    BY <1>3, <2>1, <2>2 DEF NoArm, NoDead
<1>4. CASE S # {}
  <2>1. Each("attach", o, S) = <<f>>
    BY <1>1, <1>4 DEF Each
  <2>2. <<f>> \in Seq(Frames) /\ Els(<<f>>) = {f} /\ DOMAIN <<f>> = {1}
    BY <1>2, ElsOne
  <2>3. Hand(<<f>>) = S
    BY <1>2, <2>2 DEF Hand
  <2>4. Apart(<<f>>)
    BY <2>2 DEF Apart
  <2>5. NoArm(<<f>>) /\ NoDead(<<f>>)
    BY <1>2, <2>2 DEF NoArm, NoDead
  <2> QED
    BY <1>1, <2>1, <2>2, <2>3, <2>4, <2>5
<1> QED
  BY <1>3, <1>4

\* onArmed(false) of the subscriptions an abandoned object had.
LEMMA DropFrame ==
  ASSUME NEW o \in Objects, NEW S \in SUBSET Subs
  PROVE  Calm(<<Frame("drop", o, S)>>)
<1>1. PICK f : f = Frame("drop", o, S)
  OBVIOUS
<1>2. f \in Frames /\ f.op = "drop" /\ ~Holds(f)
  BY <1>1 DEF Frame, Frames, Holds
<1> QED
  BY <1>1, <1>2, PlainFrame

\* What the frame that runs is.
LEMMA HeadFrame ==
  ASSUME TypeOK, agenda # <<>>
  PROVE  /\ Head(agenda) \in Frames
         /\ Head(agenda).op \in {"arm", "begin", "chase", "attach", "push", "answered", "drop"} => Head(agenda).o \in Objects
         /\ Head(agenda).op \in {"attach", "push", "answered", "drop"} => Head(agenda).set \subseteq Subs
         /\ Head(agenda).op \in {"loop", "dead", "edge"} => Head(agenda).set \subseteq Objects
<1>1. Head(agenda) \in Frames
  BY SplitStack DEF TypeOK
<1> QED
  BY <1>1 DEF Frames

-----------------------------------------------------------------------------
(* The stack after each action.                                            *)

\* A frame returns, with calls in its place; a call is made.
LEMMA ReturnShape ==
  ASSUME TypeOK, NEW op, Running(op), op \notin {"attach", "push"}, NEW F, Calm(F), Return(F)
  PROVE  \E E, G : Opens(E) /\ Rest(G) /\ agenda' = E \o G
<1>1. Rest(Tail(agenda))
  BY DEF Running, Rest, Holds
<1>2. Opens(F)
  BY CalmOpens
<1> QED
  BY <1>1, <1>2 DEF Return

LEMMA CallShape ==
  ASSUME TypeOK, NEW op, MayCall(op), NEW F, Opens(F), Call(F)
  PROVE  \E E, G : Opens(E) /\ Rest(G) /\ agenda' = E \o G
<1>1. Rest(agenda)
  BY DEF MayCall, Rest
<1> QED
  BY <1>1 DEF Call

LEMMA OpensArm ==
  ASSUME NEW o \in Objects, handle[o] = "valid", NEW F, Calm(F)
  PROVE  Opens(<<Frame("arm", o, {})>> \o F) /\ Opens(<<Frame("arm", o, {})>>)
<1>1. PICK f \in Frames : f = Frame("arm", o, {})
  BY BeginFrame
<1>2. f.op = "arm" /\ f.o = o /\ NoHold(<<f>>)
  BY <1>1, BeginFrame
<1>3. <<f>> \in Seq(Frames) /\ Els(<<f>>) = {f} /\ DOMAIN <<f>> = {1}
  BY ElsOne
<1>4. Opens(<<f>>)
  BY <1>2, <1>3 DEF Opens, NoDead, ArmFirst
<1>5. F \in Seq(Frames) /\ NoHold(F) /\ NoArm(F) /\ NoDead(F)
  BY CalmIsArmFirst DEF NoHold
<1>6. Els(<<f>> \o F) = Els(<<f>>) \cup Els(F)
  BY <1>3, <1>5, ElsConcat
<1>7. NoHold(<<f>> \o F)
  BY <1>2, <1>5, CalmConcat
<1>8. ArmFirst(<<f>> \o F)
  BY <1>3, <1>4, <1>5, ArmFirstConcat DEF Opens
<1>9. Opens(<<f>> \o F)
  BY <1>4, <1>5, <1>6, <1>7, <1>8 DEF Opens, NoDead, NoArm
<1> QED
  BY <1>1, <1>4, <1>9

\* The two frames of an operation that ends in ensureTimer().
LEMMA OpensPair ==
  ASSUME NEW o \in Objects, NEW op \in {"arm", "begin"}, op = "arm" => handle[o] = "valid"
  PROVE  Opens(<<Frame(op, o, {}), EnsureTimer>>)
<1>1. Frame(op, o, {}) \in Frames /\ EnsureTimer \in Frames
  BY BeginFrame, PlainFrames
<1>2. PICK f \in Frames : f = Frame(op, o, {})
  BY <1>1
<1>3. PICK t \in Frames : t = EnsureTimer
  BY <1>1
<1>4. <<f, t>> = <<f>> \o <<t>>
  OBVIOUS
<1>5. CASE op = "arm"
  BY <1>2, <1>3, <1>4, <1>5, OpensArm, PlainFrames
<1>6. CASE op = "begin"
  <2>1. Calm(<<f>>) /\ Calm(<<t>>)
    BY <1>2, <1>3, <1>6, BeginFrame, PlainFrames
  <2>2. Calm(<<f>> \o <<t>>)
    BY <2>1, CalmConcat
  <2> QED
    BY <1>2, <1>3, <1>4, <2>2, CalmOpens
<1> QED
  BY <1>5, <1>6

\* The operations and turns that neither attach nor detach anything.
LEMMA OpeningShape ==
  ASSUME TypeOK,
         \/ CallbackReturns \/ StartTimer \/ NotAcquired \/ NextName \/ ChaseIfPending
         \/ Wanted \/ Settle
         \/ \E s \in Subs : Add(s)
         \/ \E o \in Objects : SetStatusCallback(o) \/ (Rearm(o) /\ Held(o) # {})
  PROVE  \E F, G : Opens(F) /\ Rest(G) /\ agenda' = F \o G
<1>0. Calm(<<>>)
  BY ElsNone
<1>1. CASE CallbackReturns
  <2>1. PICK op \in {"answered", "edge", "drop"} : Running(op)
    BY <1>1 DEF CallbackReturns
  <2>2. Return(<<>>)
    BY <1>1 DEF CallbackReturns
  <2> QED
    BY <1>0, <2>1, <2>2, ReturnShape
<1>2. CASE StartTimer
  BY <1>0, <1>2, ReturnShape DEF StartTimer
<1>3. CASE NotAcquired
  BY <1>0, <1>3, ReturnShape DEF NotAcquired
<1>4. CASE NextName
  <2>1. Running("loop")
    BY <1>4 DEF NextName
  <2>2. Head(agenda).set \subseteq Objects
    BY <2>1, HeadFrame DEF Running
  <2>3. PICK o \in Head(agenda).set : Return(<<Frame("begin", o, {})>> \o Loop(Head(agenda).set \ {o}))
    BY <1>4 DEF NextName
  <2>4. Calm(<<Frame("begin", o, {})>>) /\ Calm(Loop(Head(agenda).set \ {o}))
    BY <2>2, BeginFrame, LoopCalm
  <2>5. Calm(<<Frame("begin", o, {})>> \o Loop(Head(agenda).set \ {o}))
    BY <2>4, CalmConcat
  <2> QED
    BY <2>1, <2>3, <2>5, ReturnShape
<1>5. CASE ChaseIfPending
  <2>1. Running("chase") /\ Head(agenda).o \in Objects
    BY <1>5, HeadFrame DEF ChaseIfPending, Running
  <2>2. Calm(<<Frame("begin", Head(agenda).o, {})>>)
    BY <2>1, BeginFrame
  <2>3. Return(<<>>) \/ Return(<<Frame("begin", Head(agenda).o, {})>>)
    BY <1>5 DEF ChaseIfPending
  <2> QED
    BY <1>0, <2>1, <2>2, <2>3, ReturnShape
<1>6. CASE Wanted
  <2>1. {ObjectOf[s] : s \in entries} \ acquiring \in SUBSET Objects
    BY SubsAssumption DEF TypeOK
  <2>2. PICK N \in SUBSET Objects : Return(Loop(N))
    BY <1>6, <2>1 DEF Wanted
  <2> QED
    BY <1>6, <2>2, LoopCalm, ReturnShape DEF Wanted
<1>7. CASE Settle
  BY <1>0, <1>7, ReturnShape DEF Settle
<1>8. ASSUME NEW s \in Subs, Add(s) PROVE \E F, G : Opens(F) /\ Rest(G) /\ agenda' = F \o G
  <2>1. ObjectOf[s] \in Objects
    BY SubsAssumption
  <2>2. MayCall("add")
    BY <1>8 DEF Add
  <2>3. CASE handle[ObjectOf[s]] = "valid"
    <3>1. Call(<<Frame("arm", ObjectOf[s], {})>>)
      BY <1>8, <2>3 DEF Add
    <3> QED
      BY <1>0, <2>1, <2>2, <2>3, <3>1, OpensArm, CallShape
  <2>4. CASE handle[ObjectOf[s]] # "valid"
    <3>1. Call(<<Frame("begin", ObjectOf[s], {}), EnsureTimer>>)
      BY <1>8, <2>4 DEF Add
    <3> QED
      BY <2>1, <2>2, <3>1, OpensPair, CallShape
  <2> QED
    BY <2>3, <2>4
<1>9. ASSUME NEW o \in Objects, SetStatusCallback(o)
      PROVE  \E F, G : Opens(F) /\ Rest(G) /\ agenda' = F \o G
  <2>1. Calm(<<Frame("edge", "-", {o})>>)
    BY PlainFrames
  <2>2. Call(<<Frame("edge", "-", {o})>>) \/ Call(<<>>)
    BY <1>9 DEF SetStatusCallback
  <2>3. MayCall("status")
    BY <1>9 DEF SetStatusCallback
  <2> QED
    BY <1>0, <2>1, <2>2, <2>3, CalmOpens, CallShape
<1>10. ASSUME NEW o \in Objects, Rearm(o), Held(o) # {}
       PROVE  \E F, G : Opens(F) /\ Rest(G) /\ agenda' = F \o G
  <2>1. PICK op \in {"arm", "begin"} : /\ op = "arm" => handle[o] = "valid"
                                       /\ Call(<<Frame(op, o, {}), EnsureTimer>>)
    BY <1>10 DEF Rearm
  <2>2. MayCall("rearm")
    BY <1>10 DEF Rearm
  <2> QED
    BY <2>1, <2>2, OpensPair, CallShape
<1> QED
  BY <1>1, <1>2, <1>3, <1>4, <1>5, <1>6, <1>7, <1>8, <1>9, <1>10

\* What a loss, a tick and a refusal put on the stack.
LEMMA ReconnectShape ==
  ASSUME TypeOK, Reconnect
  PROVE  Calm(Chase(armed)) /\ Rest(agenda) /\ agenda' = Chase(armed) \o agenda
BY ChaseCalm DEF Reconnect, MayCall, Rest, Call, TypeOK

LEMMA TickShape ==
  ASSUME TypeOK, Tick
  PROVE  /\ \E F : NoHold(F) /\ NoArm(F) /\ agenda' = F \o agenda
         /\ Rest(agenda) /\ agenda = <<>>
<1>1. PICK W : W = <<Frame("wanted", "-", {}), Frame("settle", "-", {})>>
  OBVIOUS
<1>2. Calm(W)
  <2>1. W = <<Frame("wanted", "-", {})>> \o <<Frame("settle", "-", {})>>
    BY <1>1
  <2> QED
    BY <2>1, PlainFrames, CalmConcat
<1>3. Stale \in SUBSET Objects
  BY DEF Stale
<1>4. PICK D : D = <<Frame("dead", "-", Stale), EnsureTimer>>
  OBVIOUS
<1>5. NoHold(D) /\ NoArm(D)
  <2>1. D = <<Frame("dead", "-", Stale)>> \o <<EnsureTimer>>
    BY <1>4
  <2>2. NoHold(<<Frame("dead", "-", Stale)>>) /\ NoArm(<<Frame("dead", "-", Stale)>>)
    BY <1>3, PlainFrames
  <2>3. NoHold(<<EnsureTimer>>) /\ NoArm(<<EnsureTimer>>)
    BY PlainFrames, CalmIsArmFirst
  <2>4. Els(D) = Els(<<Frame("dead", "-", Stale)>>) \cup Els(<<EnsureTimer>>)
    BY <2>1, <2>2, <2>3, ElsConcat DEF NoHold
  <2> QED
    BY <2>1, <2>2, <2>3, <2>4, CalmConcat DEF NoArm
<1>6. NoHold(W) /\ NoArm(W) /\ NoHold(<<>>) /\ NoArm(<<>>)
  BY <1>2, ElsNone, CalmIsArmFirst
<1>7. PICK E \in {<<>>, D} : agenda' = (E \o W) \o agenda
  BY <1>1, <1>4 DEF Tick, Call
<1>8. Els(E \o W) = Els(E) \cup Els(W)
  BY <1>5, <1>6, ElsConcat DEF NoHold
<1>9. NoHold(E \o W) /\ NoArm(E \o W)
  BY <1>5, <1>6, <1>8, CalmConcat DEF NoArm
<1> QED
  BY <1>7, <1>9 DEF Tick, Rest

LEMMA RefusedShape ==
  ASSUME TypeOK, NEW o \in Objects, AcquireRefused(o)
  PROVE  Calm(agenda') /\ agenda = <<>> /\ Rest(agenda) /\ agenda' = agenda' \o agenda
<1>1. entries \cap Of(o) \in SUBSET Subs
  BY DEF TypeOK
<1>2. PICK M \in SUBSET Subs : agenda' \in {<<>>, <<Frame("drop", o, M)>> \o Report({o})}
  BY <1>1 DEF AcquireRefused
<1>3. Calm(<<Frame("drop", o, M)>>) /\ Calm(Report({o})) /\ Calm(<<>>)
  <2>1. {o} \in SUBSET Objects
    OBVIOUS
  <2> QED
    BY <2>1, DropFrame, ReportCalm, ElsNone
<1>4. Calm(agenda')
  BY <1>2, <1>3, CalmConcat
<1>5. agenda = <<>>
  BY DEF AcquireRefused
<1>6. agenda' \o <<>> = agenda'
  BY <1>4, ConcatEmptySeq DEF Calm, NoHold
<1> QED
  BY <1>4, <1>5, <1>6 DEF Rest

LEMMA LivenessShape ==
  ASSUME TypeOK, CheckLiveness
  PROVE  /\ Running("dead") /\ Rest(Tail(agenda))
         /\ \E F : NoHold(F) /\ NoArm(F) /\ agenda' = F \o Tail(agenda)
<1>1. Running("dead") /\ Rest(Tail(agenda))
  BY DEF CheckLiveness, Running, Rest, Holds
<1>2. Head(agenda).set \subseteq Objects
  BY <1>1, HeadFrame DEF Running
<1>3. PICK o \in Head(agenda).set :
        Return((IF armed \cap Of(o) = {} THEN <<>> ELSE Report({o}))
               \o <<Frame("chase", o, {})>> \o Each("dead", "-", Head(agenda).set \ {o}))
  BY DEF CheckLiveness
<1>4. PICK R : R = (IF armed \cap Of(o) = {} THEN <<>> ELSE Report({o})) \o <<Frame("chase", o, {})>>
  OBVIOUS
<1>5. Calm(R)
  BY <1>2, <1>4, ElsNone, ReportCalm, BeginFrame, CalmConcat
<1>6. PICK D : D = Each("dead", "-", Head(agenda).set \ {o})
  OBVIOUS
<1>7. NoHold(D) /\ NoArm(D) /\ NoHold(R) /\ NoArm(R)
  BY <1>2, <1>5, <1>6, EachDead, CalmIsArmFirst
<1>8. Els(R \o D) = Els(R) \cup Els(D)
  BY <1>7, ElsConcat DEF NoHold
<1>9. NoHold(R \o D) /\ NoArm(R \o D)
  BY <1>7, <1>8, CalmConcat DEF NoArm
<1>10. agenda' = (R \o D) \o Tail(agenda)
  BY <1>3, <1>4, <1>6 DEF Return
<1> QED
  BY <1>1, <1>9, <1>10

\* armAgainst: the loop over the subscriptions it has taken, above what was there.
Matched(o, obj) == (entries \cap Of(o)) \cup Revived(o, obj)

LEMMA MatchedType ==
  ASSUME TypeOK, NEW o \in Objects, NEW obj
  PROVE  /\ Matched(o, obj) \in SUBSET Subs /\ \A s \in Matched(o, obj) : ObjectOf[s] = o
         /\ Matched(o, obj) \subseteq entries \cup armed
BY DEF TypeOK, Matched, Revived, Of

LEMMA ArmShape ==
  ASSUME TypeOK, Kept, NEW o \in Objects, NEW obj, NEW G, Rest(G), ArmAgainst(o, obj, G)
  PROVE  /\ agenda' \in Seq(Frames)
         /\ Hand(agenda') = Matched(o, obj) \cup Hand(agenda) /\ Apart(agenda')
         /\ \A f \in Els(agenda') : \/ f = Frame("attach", o, Matched(o, obj))
                                    \/ ~Holds(f) /\ f.op \notin {"arm", "dead"}
                                    \/ f \in Els(G)
         /\ NoArm(G) => ArmFirst(agenda')
         /\ DeadBelow(G) => DeadBelow(agenda')
<1>1. PICK M \in SUBSET Subs : M = Matched(o, obj)
  BY MatchedType
<1>2. PICK A : A = Each("attach", o, M)
  OBVIOUS
<1>3. PICK R : Calm(R) /\ agenda' = ((A \o R) \o <<EnsureTimer>>) \o G
  BY <1>1, <1>2, ReportCalm, ElsNone DEF ArmAgainst, Matched
<1>4. /\ A \in Seq(Frames) /\ Els(A) \subseteq {Frame("attach", o, M)}
      /\ Hand(A) = M /\ Apart(A) /\ NoArm(A) /\ NoDead(A)
  BY <1>2, EachHolds
<1>5. PICK T \in Seq(Frames) : T = <<EnsureTimer>> /\ Calm(T)
  BY PlainFrames DEF Calm, NoHold
<1>6. /\ R \in Seq(Frames) /\ Hand(R) = {} /\ Apart(R) /\ NoArm(R) /\ NoDead(R)
      /\ Hand(T) = {} /\ Apart(T) /\ NoArm(T) /\ NoDead(T)
  BY <1>3, <1>5, HandNoHold, CalmIsArmFirst DEF NoHold
<1>7. PICK B : B = A \o R
  OBVIOUS
<1>8. B \in Seq(Frames) /\ Els(B) = Els(A) \cup Els(R) /\ Hand(B) = M /\ Apart(B)
  <2>1. B \in Seq(Frames) /\ Els(B) = Els(A) \cup Els(R)
    BY <1>4, <1>6, <1>7, ElsConcat
  <2>2. Hand(B) = Hand(A) \cup Hand(R)
    BY <1>4, <1>6, <1>7, HandConcat
  <2>3. Apart(B)
    BY <1>4, <1>6, <1>7, ApartConcat
  <2> QED
    BY <1>4, <1>6, <2>1, <2>2, <2>3
<1>9. PICK F : F = B \o T
  OBVIOUS
<1>10. F \in Seq(Frames) /\ Els(F) = Els(A) \cup Els(R) \cup Els(T) /\ Hand(F) = M /\ Apart(F)
  <2>1. F \in Seq(Frames) /\ Els(F) = Els(B) \cup Els(T)
    BY <1>5, <1>8, <1>9, ElsConcat
  <2>2. Hand(F) = Hand(B) \cup Hand(T)
    BY <1>5, <1>8, <1>9, HandConcat
  <2>3. Apart(F)
    BY <1>5, <1>6, <1>8, <1>9, ApartConcat
  <2> QED
    BY <1>6, <1>8, <2>1, <2>2, <2>3
<1>11. NoArm(F) /\ NoDead(F)
  BY <1>4, <1>6, <1>10 DEF NoArm, NoDead
<1>12. agenda' = F \o G
  BY <1>3, <1>5, <1>7, <1>9
<1>13. G \in Seq(Frames) /\ Hand(G) = Hand(agenda) /\ Apart(G)
  BY RestBelow DEF Kept
<1>14. agenda' \in Seq(Frames) /\ Els(agenda') = Els(F) \cup Els(G)
  BY <1>10, <1>12, <1>13, ElsConcat
<1>15. Hand(agenda') = M \cup Hand(agenda)
  BY <1>10, <1>12, <1>13, HandConcat
<1>16. Apart(agenda')
  <2>1. M \cap Hand(agenda) = {}
    BY <1>1, MatchedType DEF Kept
  <2> QED
    BY <1>10, <1>12, <1>13, <2>1, ApartConcat
<1>17. ASSUME NEW f \in Els(agenda')
       PROVE  \/ f = Frame("attach", o, M)
              \/ ~Holds(f) /\ f.op \notin {"arm", "dead"}
              \/ f \in Els(G)
  <2>1. f \in Els(A) \/ f \in Els(R) \/ f \in Els(T) \/ f \in Els(G)
    BY <1>10, <1>14
  <2> QED
    BY <1>3, <1>4, <1>5, <2>1 DEF Calm, NoHold
<1>18. NoArm(G) => ArmFirst(agenda')
  <2>1. ArmFirst(F)
    BY <1>11 DEF ArmFirst, NoArm, Els
  <2> QED
    BY <1>10, <1>12, <1>13, <2>1, ArmFirstConcat
<1>19. DeadBelow(G) => DeadBelow(agenda')
  BY <1>10, <1>11, <1>12, <1>13, DeadBelowConcat
<1> QED
  BY <1>1, <1>14, <1>15, <1>16, <1>17, <1>18, <1>19

\* The handle that arrives: the one held, a valid one of a provider that is up, or,
\* on an empty stack, one that has gone stale.
LEMMA ArmLinked ==
  ASSUME TypeOK, Kept, Linked, NEW o \in Objects, NEW obj \in {"same", "valid", "stale"},
         NEW G, Rest(G), ArmAgainst(o, obj, G), UNCHANGED up,
         obj = "same" => handle[o] = "valid", obj = "valid" => up[o],
         obj = "stale" => ~up[o] /\ agenda = <<>>
  PROVE  Linked'
<1>1. /\ handle' = [handle EXCEPT ![o] = IF Replaces(o, obj) \/ handle[o] = "none" THEN obj ELSE handle[o]]
      /\ attached' = IF Replaces(o, obj) THEN attached \ Of(o) ELSE attached
      /\ armed' = armed \ Revived(o, obj)
  BY DEF ArmAgainst
<1>2. handle \in [Objects -> {"none", "valid", "stale"}] /\ armed \subseteq Subs
  BY DEF TypeOK
<1>3. \A x \in Objects : x # o => handle'[x] = handle[x]
  BY <1>1, <1>2
<1>4. handle'[o] = IF Replaces(o, obj) \/ handle[o] = "none" THEN obj ELSE handle[o]
  BY <1>1, <1>2
<1>5. handle'[o] # "none" /\ (handle'[o] = "valid" \/ ~up[o])
  BY <1>2, <1>4 DEF Replaces
<1>6. Els(G) \subseteq Els(agenda) /\ NoArm(G) /\ DeadBelow(G)
  BY RestBelow DEF Linked, Placed
<1>7. ASSUME NEW f \in Els(G), Holds(f), f.o = o PROVE ~Replaces(o, obj) /\ handle[o] # "none"
  <2>1. handle[o] # "none" /\ (handle[o] = "valid" \/ ~up[o])
    BY <1>6, <1>7 DEF Linked, FrameAttached
  <2>2. agenda # <<>>
    BY <1>6, ElsNone
  <2> QED
    BY <2>1, <2>2 DEF Replaces
<1>8. ASSUME NEW f \in Els(agenda') PROVE FrameAttached(f, handle', attached', up')
  <2>1. CASE f = Frame("attach", o, Matched(o, obj))
    <3>1. f.op = "attach" /\ f.o = o /\ f.set = Matched(o, obj)
      BY <2>1 DEF Frame
    <3> QED
      BY <1>5, <3>1, MatchedType DEF FrameAttached
  <2>2. CASE ~Holds(f)
    BY <2>2 DEF FrameAttached
  <2>3. CASE f \in Els(G) /\ Holds(f)
    <3>1. f \in Els(agenda) /\ FrameAttached(f, handle, attached, up)
      BY <1>6, <2>3 DEF Linked
    <3>2. f.o \in Objects
      <4>1. f \in Frames
        <5>1. agenda \in Seq(Frames)
          BY DEF TypeOK
        <5>2. PICK i \in DOMAIN agenda : f = agenda[i]
          BY <3>1 DEF Els
        <5> QED
          BY <5>1, <5>2
      <4> QED
        BY <2>3, <4>1 DEF Frames, Holds
    <3>3. CASE f.o = o
      <4>1. ~Replaces(o, obj) /\ handle'[o] = handle[o] /\ attached' = attached
        BY <1>1, <1>4, <1>7, <2>3, <3>3
      <4> QED
        BY <3>1, <3>3, <4>1 DEF FrameAttached
    <3>4. CASE f.o # o
      <4>1. handle'[f.o] = handle[f.o]
        BY <1>3, <3>2, <3>4
      <4>2. \A s \in f.set : ObjectOf[s] = f.o /\ (s \in attached => s \in attached')
        BY <1>1, <2>3, <3>1, <3>4 DEF FrameAttached, Of
      <4> QED
        BY <3>1, <4>1, <4>2 DEF FrameAttached
    <3> QED
      BY <3>3, <3>4
  <2> QED
    BY <2>1, <2>2, <2>3, ArmShape
<1>9. ArmedIsAttached'
  <2> SUFFICES ASSUME NEW s \in armed' PROVE s \in attached' /\ handle'[ObjectOf[s]] # "none"
    BY DEF ArmedIsAttached
  <2>1. s \in armed /\ s \in attached /\ handle[ObjectOf[s]] # "none" /\ ObjectOf[s] \in Objects
    BY <1>1, <1>2, SubsAssumption DEF Linked, ArmedIsAttached
  <2>2. s \in Subs
    BY <1>2, <2>1
  <2>3. CASE ObjectOf[s] = o
    <3>1. ~Replaces(o, obj)
      BY <1>1, <2>1, <2>2, <2>3 DEF Revived, Of
    <3> QED
      BY <1>1, <1>5, <2>1, <2>3, <3>1
  <2>4. CASE ObjectOf[s] # o
    BY <1>1, <1>3, <2>1, <2>4 DEF Of
  <2> QED
    BY <2>3, <2>4
<1>10. ASSUME NEW f \in Els(agenda'), f.op = "arm" PROVE handle'[f.o] = "valid"
  <2>1. Frame("attach", o, Matched(o, obj)).op = "attach"
    BY DEF Frame
  <2>2. f \in Els(G)
    BY <1>10, <2>1, ArmShape
  <2> QED
    BY <1>6, <1>10, <2>2 DEF NoArm
<1>11. ArmFirst(agenda') /\ DeadBelow(agenda')
  BY <1>6, ArmShape
<1> QED
  BY <1>8, <1>9, <1>10, <1>11 DEF Linked, Placed

\* armAgainst moves what it takes from two of the vectors to its own.
LEMMA ArmKept ==
  ASSUME TypeOK, Kept, NEW o \in Objects, NEW obj, NEW G, Rest(G), ArmAgainst(o, obj, G),
         UNCHANGED subscribed
  PROVE  Kept'
<1>1. /\ Hand(agenda') = Matched(o, obj) \cup Hand(agenda) /\ Apart(agenda')
  BY ArmShape
<1>2. /\ entries' = entries \ Of(o) /\ armed' = armed \ Revived(o, obj)
      /\ UNCHANGED <<held, dropped, subscribed>>
  BY DEF ArmAgainst
<1>3. /\ Matched(o, obj) = (entries \cap Of(o)) \cup Revived(o, obj)
      /\ Revived(o, obj) \subseteq armed
  BY DEF Matched, Revived
<1>4. entries' \cup armed' \cup held' \cup Hand(agenda') = entries \cup armed \cup held \cup Hand(agenda)
  BY <1>1, <1>2, <1>3
<1>5. Hand(agenda') \cap (entries' \cup armed' \cup held') = {}
  BY <1>1, <1>2, <1>3 DEF Kept
<1> QED
  BY <1>1, <1>2, <1>4, <1>5 DEF Kept

LEMMA ArmType ==
  ASSUME TypeOK, Kept, NEW o \in Objects, NEW obj \in {"same", "valid", "stale"},
         NEW G, Rest(G), ArmAgainst(o, obj, G), obj = "same" => handle[o] # "none",
         UNCHANGED <<subscribed, up>>, acquiring' \subseteq acquiring
  PROVE  TypeOK'
<1>1. agenda' \in Seq(Frames)
  BY ArmShape
<1>2. handle' \in [Objects -> {"none", "valid", "stale"}]
  BY DEF ArmAgainst, TypeOK, Replaces
<1> QED
  BY <1>1, <1>2 DEF TypeOK, ArmAgainst, Revived

-----------------------------------------------------------------------------
(* The place of the frames is kept, whatever the callbacks call.           *)

LEMMA PlacedOpens ==
  ASSUME TypeOK, Placed, NEW F, Opens(F), NEW G, Rest(G), agenda' = F \o G, UNCHANGED handle
  PROVE  Placed'
<1>1. F \in Seq(Frames) /\ G \in Seq(Frames) /\ Els(G) \subseteq Els(agenda) /\ NoArm(G) /\ DeadBelow(G)
  BY RestBelow DEF Opens, NoHold, Placed
<1>2. Els(agenda') = Els(F) \cup Els(G)
  BY <1>1, ElsConcat
<1>3. ArmFirst(agenda') /\ DeadBelow(agenda')
  BY <1>1, ArmFirstConcat, DeadBelowConcat DEF Opens
<1> QED
  BY <1>1, <1>2, <1>3 DEF Placed, Opens

LEMMA PlacedCalm ==
  ASSUME TypeOK, Placed, NEW F, Calm(F), NEW G, Rest(G), agenda' = F \o G
  PROVE  Placed'
<1>1. F \in Seq(Frames) /\ G \in Seq(Frames) /\ NoArm(G) /\ DeadBelow(G)
  BY RestBelow DEF Calm, NoHold, Placed
<1>2. Els(agenda') = Els(F) \cup Els(G)
  BY <1>1, ElsConcat
<1>3. NoArm(F) /\ NoDead(F) /\ ArmFirst(F)
  BY CalmIsArmFirst
<1>4. ArmFirst(agenda') /\ DeadBelow(agenda')
  BY <1>1, <1>3, ArmFirstConcat, DeadBelowConcat
<1> QED
  BY <1>1, <1>2, <1>3, <1>4 DEF Placed, NoArm

LEMMA PlacedBare == ASSUME NoHold(agenda'), NoArm(agenda') PROVE Placed'
BY BareBelow DEF Placed, NoArm

LEMMA PlacedArm ==
  ASSUME TypeOK, Kept, Placed, NEW o \in Objects, NEW obj, NEW G, Rest(G), ArmAgainst(o, obj, G)
  PROVE  Placed'
<1>1. NoArm(G) /\ DeadBelow(G)
  BY RestBelow DEF Placed
<1>2. ArmFirst(agenda') /\ DeadBelow(agenda')
  BY <1>1, ArmShape
<1>3. \A f \in Els(agenda') : f.op # "arm"
  <2>1. Frame("attach", o, Matched(o, obj)).op = "attach"
    BY DEF Frame
  <2> QED
    BY <1>1, <2>1, ArmShape DEF NoArm
<1> QED
  BY <1>2, <1>3 DEF Placed

\* The three ways into armAgainst.
LEMMA ArmIn ==
  ASSUME TypeOK, Placed, Arm
  PROVE  /\ Head(agenda).o \in Objects /\ Rest(Tail(agenda)) /\ handle[Head(agenda).o] = "valid"
         /\ ArmAgainst(Head(agenda).o, "same", Tail(agenda))
<1>1. agenda # <<>> /\ Head(agenda).op = "arm"
  BY DEF Arm, Running
<1>2. Head(agenda).o \in Objects /\ Rest(Tail(agenda))
  BY <1>1, HeadFrame DEF Rest, Holds
<1>3. handle[Head(agenda).o] = "valid"
  BY <1>1, SplitStack DEF Placed, TypeOK
<1> QED
  BY <1>2, <1>3 DEF Arm

LEMMA AcquiredIn ==
  ASSUME TypeOK, AcquiredNow
  PROVE  /\ Head(agenda).o \in Objects /\ Rest(Tail(agenda)) /\ up[Head(agenda).o]
         /\ ArmAgainst(Head(agenda).o, "valid", Tail(agenda))
<1>1. agenda # <<>> /\ Head(agenda).op = "begin"
  BY DEF AcquiredNow, Running
<1>2. Head(agenda).o \in Objects /\ Rest(Tail(agenda))
  BY <1>1, HeadFrame DEF Rest, Holds
<1> QED
  BY <1>2 DEF AcquiredNow

LEMMA DeliveredIn ==
  ASSUME TypeOK, NEW o \in Objects, AcquireDelivered(o)
  PROVE  \E obj \in {"valid", "stale"} :
           /\ ArmAgainst(o, obj, agenda) /\ Rest(agenda) /\ agenda = <<>>
           /\ (obj = "valid" => up[o]) /\ (obj = "stale" => ~up[o])
BY DEF AcquireDelivered, Rest

\* One turn of the loop.
LEMMA AttachShape ==
  ASSUME TypeOK, Attach
  PROVE  \E s \in Head(agenda).set, op \in {"push", "answered"} :
           /\ agenda # <<>> /\ Head(agenda).op = "attach"
           /\ Head(agenda).o \in Objects /\ Head(agenda).set \subseteq Subs
           /\ agenda' = (<<Frame(op, Head(agenda).o, {s})>>
                         \o Each("attach", Head(agenda).o, Head(agenda).set \ {s})) \o Tail(agenda)
           /\ op = "push" => attached' = attached \cup {s} /\ dropped' = dropped
           /\ op = "answered" => attached' = attached /\ dropped' = dropped \cup {s}
<1>1. agenda # <<>> /\ Head(agenda).op = "attach"
  BY DEF Attach, Running
<1>2. Head(agenda).o \in Objects /\ Head(agenda).set \subseteq Subs
  BY <1>1, HeadFrame
<1> QED
  BY <1>1, <1>2 DEF Attach, Return

\* ... its stack: f is the frame of the loop, s the subscription of this turn.
Turned(f, s, op) ==
  /\ s \in f.set /\ f.o \in Objects /\ f.set \subseteq Subs /\ f.op = "attach"
  /\ op = "push" => attached' = attached \cup {s} /\ dropped' = dropped
  /\ op = "answered" => attached' = attached /\ dropped' = dropped \cup {s}
  /\ agenda' \in Seq(Frames)
  /\ Hand(agenda') = (IF op = "push" THEN {s} ELSE {}) \cup (f.set \ {s}) \cup Hand(Tail(agenda))
  /\ Apart(agenda) => Apart(agenda')
  /\ ArmFirst(agenda) => ArmFirst(agenda') /\ NoArm(agenda')
  /\ DeadBelow(agenda) => DeadBelow(agenda')
  /\ \A g \in Els(agenda') : \/ g = Frame(op, f.o, {s})
                             \/ g = Frame("attach", f.o, f.set \ {s})
                             \/ g \in Els(Tail(agenda))
  /\ Els(agenda) = {f} \cup Els(Tail(agenda))
  /\ Hand(agenda) = f.set \cup Hand(Tail(agenda))
  /\ Apart(agenda) => f.set \cap Hand(Tail(agenda)) = {}

LEMMA AttachEffect ==
  ASSUME TypeOK, Attach
  PROVE  \E f \in Frames, s \in Subs, op \in {"push", "answered"} : Turned(f, s, op)
<1>a. PICK f \in Frames : f = Head(agenda)
  BY HeadFrame DEF Attach, Running
<1>b. PICK s \in Head(agenda).set, op \in {"push", "answered"} :
        /\ agenda # <<>> /\ Head(agenda).op = "attach"
        /\ Head(agenda).o \in Objects /\ Head(agenda).set \subseteq Subs
        /\ agenda' = (<<Frame(op, Head(agenda).o, {s})>>
                      \o Each("attach", Head(agenda).o, Head(agenda).set \ {s})) \o Tail(agenda)
        /\ op = "push" => attached' = attached \cup {s} /\ dropped' = dropped
        /\ op = "answered" => attached' = attached /\ dropped' = dropped \cup {s}
  BY AttachShape
<1>c. /\ agenda # <<>> /\ f.op = "attach" /\ f.o \in Objects /\ f.set \subseteq Subs
      /\ s \in f.set /\ s \in Subs
      /\ agenda' = (<<Frame(op, f.o, {s})>> \o Each("attach", f.o, f.set \ {s})) \o Tail(agenda)
      /\ op = "push" => attached' = attached \cup {s} /\ dropped' = dropped
      /\ op = "answered" => attached' = attached /\ dropped' = dropped \cup {s}
  BY <1>a, <1>b
<1>1. /\ Tail(agenda) \in Seq(Frames) /\ Els(agenda) = {f} \cup Els(Tail(agenda))
      /\ Hand(agenda) = f.set \cup Hand(Tail(agenda))
  BY <1>a, <1>c, SplitStack DEF TypeOK, Holds
<1>2. /\ Apart(agenda) => Apart(Tail(agenda)) /\ f.set \cap Hand(Tail(agenda)) = {}
      /\ ArmFirst(agenda) => NoArm(Tail(agenda))
      /\ DeadBelow(agenda) => DeadBelow(Tail(agenda))
  BY <1>a, <1>c, TailBelow DEF TypeOK, Holds
<1>3. PICK W : W = <<Frame(op, f.o, {s})>>
  OBVIOUS
<1>4. /\ W \in Seq(Frames) /\ Els(W) = {Frame(op, f.o, {s})}
      /\ Hand(W) = (IF op = "push" THEN {s} ELSE {}) /\ Apart(W) /\ NoArm(W) /\ NoDead(W)
  <2>1. PICK g : g = Frame(op, f.o, {s})
    OBVIOUS
  <2>2. g \in Frames /\ g.op = op /\ g.set = {s}
    BY <1>c, <2>1 DEF Frame, Frames
  <2>3. W \in Seq(Frames) /\ Els(W) = {g} /\ DOMAIN W = {1}
    BY <1>3, <2>1, <2>2, ElsOne
  <2>4. Hand(W) = IF op = "push" THEN {s} ELSE {}
    BY <2>2, <2>3 DEF Hand, Holds
  <2>5. Apart(W) /\ NoArm(W) /\ NoDead(W)
    BY <2>2, <2>3 DEF Apart, NoArm, NoDead
  <2> QED
    BY <2>1, <2>3, <2>4, <2>5
<1>5. PICK S \in SUBSET Subs : S = f.set \ {s}
  BY <1>c
<1>6. PICK A : A = Each("attach", f.o, S)
  OBVIOUS
<1>7. /\ A \in Seq(Frames) /\ Els(A) \subseteq {Frame("attach", f.o, S)}
      /\ Hand(A) = S /\ Apart(A) /\ NoArm(A) /\ NoDead(A)
  BY <1>c, <1>6, EachHolds
<1>8. PICK F : F = W \o A
  OBVIOUS
<1>9. F \in Seq(Frames) /\ Els(F) = Els(W) \cup Els(A)
  BY <1>4, <1>7, <1>8, ElsConcat
<1>10. Hand(F) = Hand(W) \cup Hand(A)
  BY <1>4, <1>7, <1>8, HandConcat
<1>11. Apart(F)
  <2>1. Hand(W) \cap Hand(A) = {}
    BY <1>4, <1>5, <1>7
  <2> QED
    BY <1>4, <1>7, <1>8, <2>1, ApartConcat
<1>12. NoArm(F) /\ NoDead(F)
  BY <1>4, <1>7, <1>9 DEF NoArm, NoDead
<1>13. agenda' = F \o Tail(agenda)
  BY <1>c, <1>3, <1>5, <1>6, <1>8
<1>14. agenda' \in Seq(Frames) /\ Els(agenda') = Els(F) \cup Els(Tail(agenda))
  BY <1>1, <1>9, <1>13, ElsConcat
<1>15. Hand(agenda') = Hand(F) \cup Hand(Tail(agenda))
  BY <1>1, <1>9, <1>13, HandConcat
<1>16. ASSUME Apart(agenda) PROVE Apart(agenda')
  <2>1. Hand(F) \cap Hand(Tail(agenda)) = {}
    BY <1>c, <1>2, <1>4, <1>5, <1>7, <1>10, <1>16
  <2> QED
    BY <1>1, <1>2, <1>9, <1>11, <1>13, <1>16, <2>1, ApartConcat
<1>17. ASSUME ArmFirst(agenda) PROVE ArmFirst(agenda') /\ NoArm(agenda')
  <2>1. NoArm(agenda')
    BY <1>2, <1>12, <1>14, <1>17 DEF NoArm
  <2> QED
    BY <2>1 DEF NoArm, ArmFirst, Els
<1>18. ASSUME DeadBelow(agenda) PROVE DeadBelow(agenda')
  BY <1>1, <1>2, <1>9, <1>12, <1>13, <1>18, DeadBelowConcat
<1>19. ASSUME NEW g \in Els(agenda')
       PROVE  \/ g = Frame(op, f.o, {s}) \/ g = Frame("attach", f.o, f.set \ {s}) \/ g \in Els(Tail(agenda))
  BY <1>4, <1>5, <1>7, <1>9, <1>14
<1>20. Turned(f, s, op)
  BY <1>c, <1>1, <1>2, <1>4, <1>5, <1>7, <1>10, <1>14, <1>15, <1>16, <1>17, <1>18, <1>19 DEF Turned
<1> QED
  BY <1>c, <1>20

\* The subscription is pushed and its frame is over.
LEMMA PushEffect ==
  ASSUME TypeOK, Push
  PROVE  /\ agenda # <<>> /\ Head(agenda).op = "push" /\ Head(agenda) \in Els(agenda)
         /\ Head(agenda).set \subseteq Subs /\ Head(agenda).o \in Objects
         /\ agenda' = Tail(agenda) /\ agenda' \in Seq(Frames) /\ Els(agenda') \subseteq Els(agenda)
         /\ Hand(agenda) = Head(agenda).set \cup Hand(agenda')
         /\ Apart(agenda) => Apart(agenda') /\ Head(agenda).set \cap Hand(agenda') = {}
         /\ ArmFirst(agenda) => NoArm(agenda')
         /\ DeadBelow(agenda) => DeadBelow(agenda')
<1>1. agenda # <<>> /\ Head(agenda).op = "push" /\ agenda \in Seq(Frames)
  BY DEF Push, Running, TypeOK
<1>2. Tail(agenda) \in Seq(Frames)
  BY <1>1, SplitStack
<1>3. agenda' = Tail(agenda)
  <2>1. agenda' = <<>> \o Tail(agenda)
    BY DEF Push, Return
  <2> QED
    BY <1>2, <2>1, ConcatEmptySeq
<1>4. Holds(Head(agenda)) /\ Head(agenda).set \subseteq Subs /\ Head(agenda).o \in Objects
  BY <1>1, HeadFrame DEF Holds
<1> QED
  BY <1>1, <1>2, <1>3, <1>4, SplitStack, TailBelow

-----------------------------------------------------------------------------
(* The vectors and what is in hand.                                        *)

RegInv == TypeOK /\ Placed /\ Kept

LEMMA Empty ==
  /\ <<>> \in Seq(Frames) /\ Hand(<<>>) = {} /\ Apart(<<>>) /\ NoHold(<<>>) /\ NoArm(<<>>)
  /\ ArmFirst(<<>>) /\ DeadBelow(<<>>) /\ Els(<<>>) = {}
<1>1. Calm(<<>>) /\ Els(<<>>) = {} /\ <<>> \in Seq(Frames)
  BY ElsNone
<1>2. NoHold(<<>>) /\ NoArm(<<>>)
  BY <1>1, CalmIsArmFirst
<1> QED
  BY <1>1, <1>2, HandNoHold, BareBelow

LEMMA InitInv == Init => RegInv /\ Linked
<1> SUFFICES ASSUME Init PROVE RegInv /\ Linked
  OBVIOUS
<1>1. agenda = <<>> /\ armed = {} /\ entries = {} /\ held = {} /\ subscribed = {} /\ dropped = {}
  BY DEF Init
<1>2. TypeOK
  BY <1>1, Empty DEF Init, TypeOK
<1>3. Placed
  BY <1>1, Empty DEF Placed
<1>4. Kept
  BY <1>1, Empty DEF Kept
<1>5. Linked
  BY <1>1, <1>3, Empty DEF Linked, ArmedIsAttached
<1> QED
  BY <1>2, <1>3, <1>4, <1>5 DEF RegInv

\* Steps that leave the vectors alone, and steps of a loss.
LEMMA KeptSame ==
  ASSUME Kept, UNCHANGED <<subscribed, dropped, entries, armed, held>>,
         Hand(agenda') = Hand(agenda), Apart(agenda')
  PROVE  Kept'
BY DEF Kept

LEMMA KeptLost ==
  ASSUME Kept, NEW lost \in SUBSET armed, Lose(lost), UNCHANGED <<subscribed, dropped>>,
         Hand(agenda') = Hand(agenda), Apart(agenda')
  PROVE  Kept'
<1>1. PICK X, Y : /\ X \cup Y = lost /\ X \cap Y = {}
                  /\ armed' = armed \ lost /\ entries' = entries \cup X /\ held' = held \cup Y
  <2>1. PICK X : X = {s \in lost : ~Manual(ObjectOf[s])}
    OBVIOUS
  <2>2. PICK Y : Y = {s \in lost : Manual(ObjectOf[s])}
    OBVIOUS
  <2>3. X \cup Y = lost /\ X \cap Y = {}
    BY <2>1, <2>2
  <2> QED
    BY <2>1, <2>2, <2>3 DEF Lose
<1>2. entries' \cup armed' \cup held' = entries \cup armed \cup held
  BY <1>1
<1>3. entries' \cap armed' = {} /\ entries' \cap held' = {} /\ armed' \cap held' = {}
  BY <1>1 DEF Kept
<1> QED
  BY <1>2, <1>3 DEF Kept

LEMMA LoseType ==
  ASSUME TypeOK, NEW lost \in SUBSET armed, Lose(lost)
  PROVE  entries' \subseteq Subs /\ armed' \subseteq Subs /\ held' \subseteq Subs
BY DEF TypeOK, Lose

\* The turns and calls that move no subscription.
Turns ==
  \/ CallbackReturns \/ StartTimer \/ NotAcquired \/ NextName \/ ChaseIfPending
  \/ Wanted \/ Settle
  \/ \E o \in Objects : SetStatusCallback(o)

LEMMA TurnEffect ==
  ASSUME TypeOK, Turns
  PROVE  /\ UNCHANGED <<subscribed, dropped, entries, armed, held, attached, handle, restart, up>>
         /\ acquiring' \subseteq Objects
<1>0. acquiring \subseteq Objects
  BY DEF TypeOK
<1>1. CASE CallbackReturns
  BY <1>0, <1>1 DEF CallbackReturns, vectors, targets, transport
<1>2. CASE StartTimer
  BY <1>0, <1>2 DEF StartTimer, vectors, targets, transport
<1>3. CASE NotAcquired
  <2>1. Running("begin")
    BY <1>3 DEF NotAcquired
  <2>2. Head(agenda).o \in Objects
    BY <2>1, HeadFrame DEF Running
  <2> QED
    BY <1>0, <1>3, <2>2 DEF NotAcquired, StartAcquire, vectors, targets
<1>4. CASE NextName
  BY <1>0, <1>4 DEF NextName, vectors, targets, transport
<1>5. CASE ChaseIfPending
  BY <1>0, <1>5 DEF ChaseIfPending, vectors, targets, transport
<1>6. CASE Wanted
  BY <1>0, <1>6 DEF Wanted, vectors, targets, transport
<1>7. CASE Settle
  BY <1>0, <1>7 DEF Settle, vectors, targets, transport
<1>8. ASSUME NEW o \in Objects, SetStatusCallback(o)
      PROVE  /\ UNCHANGED <<subscribed, dropped, entries, armed, held, attached, handle, restart, up>>
             /\ acquiring' \subseteq Objects
  BY <1>0, <1>8 DEF SetStatusCallback, vectors, transport
<1> QED
  BY <1>1, <1>2, <1>3, <1>4, <1>5, <1>6, <1>7, <1>8 DEF Turns

LEMMA TurnStep == ASSUME RegInv, Turns PROVE RegInv'
<1>0. TypeOK /\ Placed /\ Kept
  BY DEF RegInv
<1>1. PICK F, G : Opens(F) /\ Rest(G) /\ agenda' = F \o G
  BY <1>0, OpeningShape DEF Turns
<1>2. /\ UNCHANGED <<subscribed, dropped, entries, armed, held, attached, handle, restart, up>>
      /\ acquiring' \subseteq Objects
  BY <1>0, TurnEffect
<1>3. Placed'
  BY <1>0, <1>1, <1>2, PlacedOpens
<1>4. agenda' \in Seq(Frames) /\ Hand(agenda') = Hand(agenda) /\ Apart(agenda')
  BY <1>0, <1>1, HandSame DEF Opens, Kept
<1>5. Kept'
  BY <1>0, <1>2, <1>4, KeptSame
<1>6. TypeOK'
  BY <1>0, <1>2, <1>4 DEF TypeOK
<1> QED
  BY <1>3, <1>5, <1>6 DEF RegInv

LEMMA AddStep == ASSUME RegInv, NEW s \in Subs, Add(s) PROVE RegInv'
<1>0. TypeOK /\ Placed /\ Kept
  BY DEF RegInv
<1>1. PICK F, G : Opens(F) /\ Rest(G) /\ agenda' = F \o G
  BY <1>0, OpeningShape
<1>2. /\ s \notin subscribed /\ subscribed' = subscribed \cup {s} /\ entries' = entries \cup {s}
      /\ UNCHANGED <<dropped, armed, held, attached, handle, acquiring, restart, up>>
  BY DEF Add, targets, transport
<1>3. Placed'
  BY <1>0, <1>1, <1>2, PlacedOpens
<1>4. agenda' \in Seq(Frames) /\ Hand(agenda') = Hand(agenda) /\ Apart(agenda')
  BY <1>0, <1>1, HandSame DEF Opens, Kept
<1>5. s \notin entries \cup armed \cup held \cup Hand(agenda)
  BY <1>0, <1>2 DEF Kept
<1>6. Kept'
  BY <1>0, <1>2, <1>4, <1>5 DEF Kept
<1>7. TypeOK'
  BY <1>0, <1>2, <1>4 DEF TypeOK
<1> QED
  BY <1>3, <1>6, <1>7 DEF RegInv

LEMMA CancelStep == ASSUME RegInv, NEW s \in Subs, Cancel(s) PROVE RegInv'
<1>0. TypeOK /\ Placed /\ Kept
  BY DEF RegInv
<1>1. /\ entries' = entries \ {s} /\ armed' = armed \ {s} /\ held' = held \ {s}
      /\ dropped' = dropped \cup {s}
      /\ UNCHANGED <<agenda, subscribed, attached, handle, acquiring, restart, up>>
  BY DEF Cancel, targets, transport
<1>2. Placed'
  BY <1>0, <1>1 DEF Placed
<1>3. Kept'
  BY <1>0, <1>1 DEF Kept
<1>4. TypeOK'
  BY <1>0, <1>1 DEF TypeOK
<1> QED
  BY <1>2, <1>3, <1>4 DEF RegInv

LEMMA PolicyStep ==
  ASSUME RegInv, NEW o \in Objects, NEW p \in {"Automatic", "Manual"}, SetRestartPolicy(o, p)
  PROVE  RegInv'
<1>0. TypeOK /\ Placed /\ Kept
  BY DEF RegInv
<1>1. /\ UNCHANGED <<agenda, subscribed, entries, armed, held, dropped, attached, handle, acquiring, up>>
      /\ restart' = [restart EXCEPT ![o] = p]
  BY DEF SetRestartPolicy, vectors, transport
<1>2. Placed'
  BY <1>0, <1>1 DEF Placed
<1>3. Kept'
  BY <1>0, <1>1 DEF Kept
<1>4. TypeOK'
  BY <1>0, <1>1 DEF TypeOK
<1> QED
  BY <1>2, <1>3, <1>4 DEF RegInv

LEMMA RearmStep == ASSUME RegInv, NEW o \in Objects, Rearm(o) PROVE RegInv'
<1>0. TypeOK /\ Placed /\ Kept
  BY DEF RegInv
<1>1. UNCHANGED <<subscribed, armed, dropped, attached, handle, acquiring, restart, up>>
  BY DEF Rearm, targets, transport
<1>2. CASE Held(o) = {}
  <2>1. UNCHANGED <<entries, held, agenda>>
    BY <1>2 DEF Rearm
  <2>2. Placed'
    BY <1>0, <1>1, <2>1 DEF Placed
  <2>3. Kept'
    BY <1>0, <1>1, <2>1 DEF Kept
  <2>4. TypeOK'
    BY <1>0, <1>1, <2>1 DEF TypeOK
  <2> QED
    BY <2>2, <2>3, <2>4 DEF RegInv
<1>3. CASE Held(o) # {}
  <2>1. PICK F, G : Opens(F) /\ Rest(G) /\ agenda' = F \o G
    BY <1>0, <1>3, OpeningShape
  <2>2. PICK H : H = Held(o) /\ H \subseteq held
    BY DEF Held
  <2>3. held' = held \ H /\ entries' = entries \cup H
    BY <1>3, <2>2 DEF Rearm
  <2>4. Placed'
    BY <1>0, <1>1, <2>1, PlacedOpens
  <2>5. agenda' \in Seq(Frames) /\ Hand(agenda') = Hand(agenda) /\ Apart(agenda')
    BY <1>0, <2>1, HandSame DEF Opens, Kept
  <2>6. Kept'
    <3>1. entries' \cup armed' \cup held' = entries \cup armed \cup held
      BY <1>1, <2>2, <2>3
    <3>2. entries' \cap armed' = {} /\ entries' \cap held' = {} /\ armed' \cap held' = {}
      BY <1>0, <1>1, <2>2, <2>3 DEF Kept
    <3> QED
      BY <1>0, <1>1, <2>5, <3>1, <3>2 DEF Kept
  <2>7. TypeOK'
    BY <1>0, <1>1, <2>2, <2>3, <2>5 DEF TypeOK
  <2> QED
    BY <2>4, <2>6, <2>7 DEF RegInv
<1> QED
  BY <1>2, <1>3

LEMMA ReconnectStep == ASSUME RegInv, Reconnect PROVE RegInv'
<1>0. TypeOK /\ Placed /\ Kept
  BY DEF RegInv
<1>1. Calm(Chase(armed)) /\ Rest(agenda) /\ agenda' = Chase(armed) \o agenda
  BY <1>0, ReconnectShape
<1>2. Placed'
  BY <1>0, <1>1, PlacedCalm
<1>3. agenda' \in Seq(Frames) /\ Hand(agenda') = Hand(agenda) /\ Apart(agenda')
  BY <1>0, <1>1, HandSame, CalmIsArmFirst DEF Kept
<1>4. /\ Lose(armed) /\ handle' = [x \in Objects |-> "none"] /\ attached' = {} /\ acquiring' = {}
      /\ UNCHANGED <<subscribed, dropped, restart, up>>
  BY DEF Reconnect, targets
<1>5. Kept'
  BY <1>0, <1>3, <1>4, KeptLost
<1>6. entries' \subseteq Subs /\ armed' \subseteq Subs /\ held' \subseteq Subs
  BY <1>0, <1>4, LoseType
<1>7. TypeOK'
  BY <1>0, <1>3, <1>4, <1>6 DEF TypeOK
<1> QED
  BY <1>2, <1>5, <1>7 DEF RegInv

LEMMA TickStep ==
  ASSUME RegInv, Tick
  PROVE  /\ RegInv' /\ NoHold(agenda') /\ NoArm(agenda')
         /\ UNCHANGED <<subscribed, dropped, entries, armed, held, attached, handle, acquiring, restart, up>>
<1>0. TypeOK /\ Placed /\ Kept
  BY DEF RegInv
<1>1. PICK F : NoHold(F) /\ NoArm(F) /\ agenda' = F \o agenda
  BY <1>0, TickShape
<1>2. Rest(agenda) /\ agenda = <<>>
  BY <1>0, TickShape
<1>3. UNCHANGED <<subscribed, dropped, entries, armed, held, attached, handle, acquiring, restart, up>>
  BY DEF Tick, vectors, targets, transport
<1>4. agenda' = F
  BY <1>1, <1>2, ConcatEmptySeq DEF NoHold
<1>5. Placed'
  BY <1>1, <1>4, PlacedBare
<1>6. agenda' \in Seq(Frames) /\ Hand(agenda') = Hand(agenda) /\ Apart(agenda')
  BY <1>0, <1>1, <1>2, HandSame DEF Kept
<1>7. Kept'
  BY <1>0, <1>3, <1>6, KeptSame
<1>8. TypeOK'
  BY <1>0, <1>3, <1>6 DEF TypeOK
<1> QED
  BY <1>1, <1>3, <1>4, <1>5, <1>7, <1>8 DEF RegInv

LEMMA RefusedStep ==
  ASSUME RegInv, NEW o \in Objects, AcquireRefused(o)
  PROVE  /\ RegInv' /\ NoHold(agenda') /\ NoArm(agenda') /\ UNCHANGED <<armed, attached, handle, up>>
<1>0. TypeOK /\ Placed /\ Kept
  BY DEF RegInv
<1>1. Calm(agenda') /\ agenda = <<>>
  BY <1>0, RefusedShape
<1>2. NoHold(agenda') /\ NoArm(agenda') /\ agenda' \in Seq(Frames)
  BY <1>1, CalmIsArmFirst DEF NoHold
<1>3. PICK M : M \subseteq entries /\ entries' = entries \ M /\ dropped' = dropped \cup M
  BY DEF AcquireRefused
<1>4. UNCHANGED <<subscribed, armed, held, attached, handle, restart, up>> /\ acquiring' \subseteq acquiring
  BY DEF AcquireRefused, targets
<1>5. Placed'
  BY <1>2, PlacedBare
<1>6. Hand(agenda') = {} /\ Apart(agenda') /\ Hand(agenda) = {}
  BY <1>1, <1>2, Empty, HandNoHold
<1>7. Kept'
  BY <1>0, <1>3, <1>4, <1>6 DEF Kept
<1>8. TypeOK'
  BY <1>0, <1>2, <1>3, <1>4 DEF TypeOK
<1> QED
  BY <1>2, <1>4, <1>5, <1>7, <1>8 DEF RegInv

LEMMA LivenessStep ==
  ASSUME RegInv, CheckLiveness
  PROVE  RegInv' /\ NoHold(agenda') /\ NoArm(agenda')
<1>0. TypeOK /\ Placed /\ Kept
  BY DEF RegInv
<1>1. PICK F : NoHold(F) /\ NoArm(F) /\ agenda' = F \o Tail(agenda)
  BY <1>0, LivenessShape
<1>2. agenda # <<>> /\ Head(agenda).op = "dead" /\ Rest(Tail(agenda)) /\ Head(agenda).set \subseteq Objects
  BY <1>0, LivenessShape, HeadFrame DEF Running
<1>3. agenda \in Seq(Frames) /\ ArmFirst(agenda) /\ DeadBelow(agenda)
  BY <1>0 DEF TypeOK, Placed
<1>4. NoHold(Tail(agenda)) /\ NoArm(Tail(agenda))
  BY <1>2, <1>3, TailBelow
<1>5. NoHold(agenda') /\ NoArm(agenda')
  <2>1. F \in Seq(Frames) /\ Tail(agenda) \in Seq(Frames)
    BY <1>1, <1>4 DEF NoHold
  <2>2. Els(agenda') = Els(F) \cup Els(Tail(agenda))
    BY <1>1, <2>1, ElsConcat
  <2>3. NoHold(agenda')
    BY <1>1, <1>4, CalmConcat
  <2> QED
    BY <1>1, <1>4, <2>2, <2>3 DEF NoArm
<1>6. Placed'
  BY <1>5, PlacedBare
<1>7. agenda' \in Seq(Frames) /\ Hand(agenda') = Hand(agenda) /\ Apart(agenda')
  BY <1>0, <1>1, <1>2, HandSame DEF Kept
<1>8. PICK o \in Objects :
        /\ handle' = [handle EXCEPT ![o] = "none"] /\ attached' = attached \ Of(o)
        /\ acquiring' = acquiring \ {o} /\ Lose(armed \cap Of(o))
  BY <1>2 DEF CheckLiveness
<1>9. UNCHANGED <<subscribed, dropped, restart, up>>
  BY DEF CheckLiveness, targets, transport
<1>10. PICK lost \in SUBSET armed : lost = armed \cap Of(o)
  OBVIOUS
<1>11. Kept'
  BY <1>0, <1>7, <1>8, <1>9, <1>10, KeptLost
<1>12. entries' \subseteq Subs /\ armed' \subseteq Subs /\ held' \subseteq Subs
  BY <1>0, <1>8, <1>10, LoseType
<1>13. TypeOK'
  BY <1>0, <1>7, <1>8, <1>9, <1>12 DEF TypeOK
<1> QED
  BY <1>5, <1>6, <1>11, <1>13 DEF RegInv

LEMMA ProviderStep ==
  ASSUME RegInv, NEW o \in Objects, ProviderGoes(o) \/ ProviderComes(o)
  PROVE  /\ RegInv' /\ agenda' = <<>> /\ UNCHANGED <<armed, attached>>
         /\ \A x \in Objects : handle[x] # "none" => handle'[x] # "none"
<1>0. TypeOK /\ Placed /\ Kept
  BY DEF RegInv
<1>1. agenda = <<>> /\ UNCHANGED <<agenda, subscribed, dropped, entries, armed, held, attached, acquiring, restart>>
  BY DEF ProviderGoes, ProviderComes, vectors, targets
<1>2. handle \in [Objects -> {"none", "valid", "stale"}] /\ up \in [Objects -> BOOLEAN]
  BY <1>0 DEF TypeOK
<1>3. \/ handle' = handle
      \/ handle[o] # "none" /\ \E h \in {"valid", "stale"} : handle' = [handle EXCEPT ![o] = h]
  <2>1. CASE ProviderGoes(o)
    <3>1. handle' = [handle EXCEPT ![o] = IF deferring /\ handle[o] = "valid" THEN "stale" ELSE handle[o]]
      BY <2>1 DEF ProviderGoes
    <3> QED
      BY <1>2, <3>1
  <2>2. CASE ProviderComes(o)
    BY <2>2 DEF ProviderComes
  <2> QED
    BY <2>1, <2>2
<1>4. handle' \in [Objects -> {"none", "valid", "stale"}] /\ \A x \in Objects : handle[x] # "none" => handle'[x] # "none"
  BY <1>2, <1>3
<1>5. up' \in [Objects -> BOOLEAN]
  BY <1>2 DEF ProviderGoes, ProviderComes
<1>6. Placed'
  BY <1>1, Empty, PlacedBare
<1>7. Kept'
  BY <1>0, <1>1 DEF Kept
<1>8. TypeOK'
  BY <1>0, <1>1, <1>4, <1>5 DEF TypeOK
<1> QED
  BY <1>1, <1>4, <1>6, <1>7, <1>8 DEF RegInv

LEMMA ArmStep ==
  ASSUME RegInv, Arm \/ AcquiredNow \/ \E o \in Objects : AcquireDelivered(o)
  PROVE  /\ RegInv'
         /\ \E o \in Objects, obj \in {"same", "valid", "stale"}, G \in {agenda, Tail(agenda)} :
              /\ Rest(G) /\ ArmAgainst(o, obj, G) /\ UNCHANGED up
              /\ obj = "same" => handle[o] = "valid"
              /\ obj = "valid" => up[o]
              /\ obj = "stale" => ~up[o] /\ agenda = <<>>
<1>0. TypeOK /\ Placed /\ Kept
  BY DEF RegInv
<1>1. PICK o \in Objects, obj \in {"same", "valid", "stale"}, G \in {agenda, Tail(agenda)} :
        /\ Rest(G) /\ ArmAgainst(o, obj, G) /\ UNCHANGED up
        /\ obj = "same" => handle[o] = "valid"
        /\ obj = "valid" => up[o]
        /\ obj = "stale" => ~up[o] /\ agenda = <<>>
  <2>1. CASE Arm
    <3>1. UNCHANGED up
      BY <2>1 DEF Arm, transport
    <3> QED
      BY <1>0, <2>1, <3>1, ArmIn
  <2>2. CASE AcquiredNow
    <3>1. UNCHANGED up
      BY <2>2 DEF AcquiredNow, transport
    <3> QED
      BY <1>0, <2>2, <3>1, AcquiredIn
  <2>3. ASSUME NEW x \in Objects, AcquireDelivered(x)
        PROVE  \E o \in Objects, obj \in {"same", "valid", "stale"}, G \in {agenda, Tail(agenda)} :
                 /\ Rest(G) /\ ArmAgainst(o, obj, G) /\ UNCHANGED up
                 /\ obj = "same" => handle[o] = "valid"
                 /\ obj = "valid" => up[o]
                 /\ obj = "stale" => ~up[o] /\ agenda = <<>>
    <3>1. UNCHANGED up
      BY <2>3 DEF AcquireDelivered
    <3> QED
      BY <1>0, <2>3, <3>1, DeliveredIn
  <2> QED
    BY <2>1, <2>2, <2>3
<1>2. UNCHANGED subscribed /\ acquiring' \subseteq acquiring
  BY DEF Arm, AcquiredNow, AcquireDelivered
<1>3. Placed'
  BY <1>0, <1>1, PlacedArm
<1>4. Kept'
  BY <1>0, <1>1, <1>2, ArmKept
<1>5. TypeOK'
  BY <1>0, <1>1, <1>2, ArmType
<1> QED
  BY <1>1, <1>3, <1>4, <1>5 DEF RegInv

LEMMA AttachStep == ASSUME RegInv, Attach PROVE RegInv' /\ (Linked => Linked')
<1>0. TypeOK /\ Placed /\ Kept
  BY DEF RegInv
<1>1. PICK f \in Frames, s \in Subs, op \in {"push", "answered"} : Turned(f, s, op)
  BY <1>0, AttachEffect
<1>2. PICK t : t = Tail(agenda)
  OBVIOUS
<1>3. /\ op = "push" => attached' = attached \cup {s} /\ dropped' = dropped
      /\ op = "answered" => attached' = attached /\ dropped' = dropped \cup {s}
  BY <1>1 DEF Turned
<1>4. /\ agenda' \in Seq(Frames)
      /\ Hand(agenda') = (IF op = "push" THEN {s} ELSE {}) \cup (f.set \ {s}) \cup Hand(t)
      /\ Apart(agenda')
      /\ ArmFirst(agenda') /\ NoArm(agenda') /\ DeadBelow(agenda')
      /\ \A g \in Els(agenda') : \/ g = Frame(op, f.o, {s})
                                 \/ g = Frame("attach", f.o, f.set \ {s})
                                 \/ g \in Els(t)
      /\ Els(agenda) = {f} \cup Els(t)
      /\ Hand(agenda) = f.set \cup Hand(t) /\ f.set \cap Hand(t) = {}
  BY <1>0, <1>1, <1>2 DEF Kept, Placed, Turned
<1>5. s \in f.set /\ f.o \in Objects /\ f.set \subseteq Subs /\ f.op = "attach"
  BY <1>1 DEF Turned
<1>6. UNCHANGED <<subscribed, entries, armed, held, handle, acquiring, restart, up>>
  BY DEF Attach, vectors, targets, transport
<1>7. Placed'
  BY <1>4 DEF Placed, NoArm
<1>8. Kept'
  <2>1. CASE op = "push"
    <3>1. Hand(agenda') = Hand(agenda) /\ dropped' = dropped
      BY <1>3, <1>4, <1>5, <2>1
    <3> QED
      BY <1>0, <1>4, <1>6, <3>1, KeptSame
  <2>2. CASE op = "answered"
    <3>1. Hand(agenda') = Hand(agenda) \ {s} /\ dropped' = dropped \cup {s}
      BY <1>3, <1>4, <1>5, <2>2
    <3> QED
      BY <1>0, <1>4, <1>6, <3>1 DEF Kept
  <2> QED
    BY <2>1, <2>2
<1>9. TypeOK'
  BY <1>0, <1>3, <1>4, <1>5, <1>6 DEF TypeOK
<1>10. ASSUME Linked PROVE Linked'
  <2>1. attached \subseteq attached' /\ (op = "push" => s \in attached')
    BY <1>3
  <2>2. ArmedIsAttached'
    BY <1>6, <1>10, <2>1 DEF Linked, ArmedIsAttached
  <2>3. /\ handle[f.o] # "none" /\ (handle[f.o] = "valid" \/ ~up[f.o])
        /\ \A x \in f.set : ObjectOf[x] = f.o
    BY <1>4, <1>5, <1>10 DEF Linked, FrameAttached, Holds
  <2>4. ASSUME NEW g \in Els(agenda') PROVE FrameAttached(g, handle', attached', up')
    <3>1. CASE g = Frame(op, f.o, {s})
      <4>1. g.op = op /\ g.o = f.o /\ g.set = {s}
        BY <3>1 DEF Frame
      <4> QED
        BY <1>5, <1>6, <2>1, <2>3, <4>1 DEF FrameAttached
    <3>2. CASE g = Frame("attach", f.o, f.set \ {s})
      <4>1. g.op = "attach" /\ g.o = f.o /\ g.set \subseteq f.set
        BY <3>2 DEF Frame
      <4> QED
        BY <1>6, <2>3, <4>1 DEF FrameAttached
    <3>3. CASE g \in Els(t)
      BY <1>4, <1>6, <1>10, <2>1, <3>3 DEF Linked, FrameAttached
    <3> QED
      BY <1>4, <3>1, <3>2, <3>3
  <2> QED
    BY <1>7, <2>2, <2>4 DEF Linked
<1> QED
  BY <1>7, <1>8, <1>9, <1>10 DEF RegInv

LEMMA PushStep == ASSUME RegInv, Push PROVE RegInv' /\ (Linked => Linked')
<1>0. TypeOK /\ Placed /\ Kept
  BY DEF RegInv
<1>1. PICK f : f = Head(agenda)
  OBVIOUS
<1>2. /\ f.op = "push" /\ f \in Els(agenda) /\ f.set \subseteq Subs /\ f.o \in Objects
      /\ agenda' \in Seq(Frames) /\ Els(agenda') \subseteq Els(agenda)
      /\ Hand(agenda) = f.set \cup Hand(agenda') /\ Apart(agenda') /\ f.set \cap Hand(agenda') = {}
      /\ NoArm(agenda') /\ DeadBelow(agenda')
  BY <1>0, <1>1, PushEffect DEF Kept, Placed
<1>3. /\ armed' = armed \cup f.set
      /\ UNCHANGED <<subscribed, dropped, entries, held, attached, handle, acquiring, restart, up>>
  BY <1>1 DEF Push, targets, transport
<1>4. Placed'
  <2>1. ArmFirst(agenda')
    BY <1>2 DEF NoArm, ArmFirst, Els
  <2> QED
    BY <1>2, <2>1 DEF Placed, NoArm
<1>5. Kept'
  BY <1>0, <1>2, <1>3 DEF Kept
<1>6. TypeOK'
  BY <1>0, <1>2, <1>3 DEF TypeOK
<1>7. ASSUME Linked PROVE Linked'
  <2>1. /\ handle[f.o] # "none"
        /\ \A s \in f.set : ObjectOf[s] = f.o /\ s \in attached
    BY <1>2, <1>7 DEF Linked, FrameAttached, Holds
  <2>2. ArmedIsAttached'
    BY <1>3, <1>7, <2>1 DEF Linked, ArmedIsAttached
  <2>3. \A g \in Els(agenda') : FrameAttached(g, handle', attached', up')
    BY <1>2, <1>3, <1>7 DEF Linked
  <2> QED
    BY <1>4, <2>2, <2>3 DEF Linked
<1> QED
  BY <1>4, <1>5, <1>6, <1>7 DEF RegInv

\* Every action preserves the registry's invariant.
LEMMA RegStep == RegInv /\ [Next]_vars => RegInv'
<1> SUFFICES ASSUME RegInv, [Next]_vars PROVE RegInv'
  OBVIOUS
<1>1. CASE Turns
  BY <1>1, TurnStep
<1>2. CASE Arm \/ AcquiredNow \/ \E o \in Objects : AcquireDelivered(o)
  BY <1>2, ArmStep
<1>3. CASE Attach
  BY <1>3, AttachStep
<1>4. CASE Push
  BY <1>4, PushStep
<1>5. CASE CheckLiveness
  BY <1>5, LivenessStep
<1>6. CASE \E s \in Subs : Add(s)
  BY <1>6, AddStep
<1>7. CASE \E s \in Subs : Cancel(s)
  BY <1>7, CancelStep
<1>8. CASE \E o \in Objects : Rearm(o)
  BY <1>8, RearmStep
<1>9. CASE \E o \in Objects, policy \in {"Automatic", "Manual"} : SetRestartPolicy(o, policy)
  BY <1>9, PolicyStep
<1>10. CASE Reconnect
  BY <1>10, ReconnectStep
<1>11. CASE \E o \in Objects : AcquireRefused(o)
  BY <1>11, RefusedStep
<1>12. CASE \E o \in Objects : ProviderGoes(o) \/ ProviderComes(o)
  BY <1>12, ProviderStep
<1>13. CASE Tick
  BY <1>13, TickStep
<1>14. CASE UNCHANGED vars
  BY <1>14 DEF vars, vectors, targets, transport, RegInv, TypeOK, Placed, Kept
<1> QED
  BY <1>1, <1>2, <1>3, <1>4, <1>5, <1>6, <1>7, <1>8, <1>9, <1>10, <1>11, <1>12, <1>13, <1>14
  DEF Next, Step, User, Transport, Turns

LEMMA LinkedStep ==
  ASSUME "reconnect" \notin Reentrant
  PROVE  RegInv /\ Linked /\ [Next]_vars => Linked'
<1> SUFFICES ASSUME RegInv, Linked, [Next]_vars PROVE Linked'
  OBVIOUS
<1>0. TypeOK /\ Placed /\ Kept
  BY DEF RegInv
<1>1. CASE Turns \/ (\E s \in Subs : Add(s)) \/ \E o \in Objects : Rearm(o) /\ Held(o) # {}
  <2>1. PICK F, G : Opens(F) /\ Rest(G) /\ agenda' = F \o G
    BY <1>0, <1>1, OpeningShape DEF Turns
  <2>2. UNCHANGED <<handle, attached, up, armed>>
    <3>1. CASE Turns
      BY <1>0, <3>1, TurnEffect
    <3>2. ASSUME NEW s \in Subs, Add(s) PROVE UNCHANGED <<handle, attached, up, armed>>
      BY <3>2 DEF Add, transport
    <3>3. ASSUME NEW o \in Objects, Rearm(o) PROVE UNCHANGED <<handle, attached, up, armed>>
      BY <3>3 DEF Rearm, transport
    <3> QED
      BY <1>1, <3>1, <3>2, <3>3
  <2> QED
    BY <1>0, <2>1, <2>2, LinkedOpens
<1>2. CASE Arm \/ AcquiredNow \/ \E o \in Objects : AcquireDelivered(o)
  BY <1>0, <1>2, ArmStep, ArmLinked
<1>3. CASE Attach
  BY <1>3, AttachStep
<1>4. CASE Push
  BY <1>4, PushStep
<1>5. CASE CheckLiveness
  <2>1. NoHold(agenda') /\ NoArm(agenda')
    BY <1>5, LivenessStep
  <2>2. agenda # <<>> /\ Head(agenda).set \subseteq Objects
    BY <1>0, <1>5, HeadFrame DEF CheckLiveness, Running
  <2>3. PICK o \in Objects :
          /\ handle' = [handle EXCEPT ![o] = "none"] /\ attached' = attached \ Of(o)
          /\ armed' = armed \ (armed \cap Of(o))
    BY <1>5, <2>2 DEF CheckLiveness, Lose
  <2>4. ASSUME NEW s \in armed' PROVE s \in attached' /\ handle'[ObjectOf[s]] # "none"
    <3>1. s \in armed /\ s \in Subs /\ ObjectOf[s] # o /\ ObjectOf[s] \in Objects
      BY <1>0, <2>3, SubsAssumption DEF TypeOK, Of
    <3>2. s \in attached /\ handle[ObjectOf[s]] # "none"
      BY <3>1 DEF Linked, ArmedIsAttached
    <3>3. handle'[ObjectOf[s]] = handle[ObjectOf[s]]
      BY <1>0, <2>3, <3>1 DEF TypeOK
    <3> QED
      BY <2>3, <3>1, <3>2, <3>3 DEF Of
  <2>5. ArmedIsAttached'
    BY <2>4 DEF ArmedIsAttached
  <2> QED
    BY <2>1, <2>5, LinkedBare
<1>6. CASE \/ \E s \in Subs : Cancel(s)
           \/ \E o \in Objects : Rearm(o) /\ Held(o) = {}
           \/ \E o \in Objects, policy \in {"Automatic", "Manual"} : SetRestartPolicy(o, policy)
           \/ UNCHANGED vars
  <2>1. ASSUME NEW s \in Subs, Cancel(s) PROVE Linked'
    BY <2>1, LinkedSame DEF Cancel, transport
  <2>2. ASSUME NEW o \in Objects, Rearm(o), Held(o) = {} PROVE Linked'
    BY <2>2, LinkedSame DEF Rearm, transport
  <2>3. ASSUME NEW o \in Objects, NEW policy \in {"Automatic", "Manual"}, SetRestartPolicy(o, policy)
        PROVE  Linked'
    BY <2>3, LinkedSame DEF SetRestartPolicy, vectors, transport
  <2>4. CASE UNCHANGED vars
    BY <2>4, LinkedSame DEF vars, vectors, transport
  <2> QED
    BY <1>6, <2>1, <2>2, <2>3, <2>4
<1>7. CASE Reconnect
  <2>1. agenda = <<>>
    BY <1>7 DEF Reconnect, MayCall
  <2>2. Calm(Chase(armed)) /\ agenda' = Chase(armed) \o agenda
    BY <1>0, <1>7, ReconnectShape
  <2>3. agenda' = Chase(armed)
    BY <2>1, <2>2, ConcatEmptySeq DEF Calm, NoHold
  <2>4. NoHold(agenda') /\ NoArm(agenda')
    BY <2>2, <2>3, CalmIsArmFirst
  <2>5. armed' = {}
    BY <1>7 DEF Reconnect, Lose
  <2>6. ArmedIsAttached'
    BY <2>5 DEF ArmedIsAttached
  <2> QED
    BY <2>4, <2>6, LinkedBare
<1>8. CASE Tick \/ \E o \in Objects : AcquireRefused(o)
  <2>1. NoHold(agenda') /\ NoArm(agenda') /\ UNCHANGED <<armed, attached, handle>>
    BY <1>8, TickStep, RefusedStep
  <2>2. ArmedIsAttached'
    BY <2>1 DEF Linked, ArmedIsAttached
  <2> QED
    BY <2>1, <2>2, LinkedBare
<1>9. CASE \E o \in Objects : ProviderGoes(o) \/ ProviderComes(o)
  <2>1. /\ agenda' = <<>> /\ UNCHANGED <<armed, attached>>
        /\ \A x \in Objects : handle[x] # "none" => handle'[x] # "none"
    BY <1>9, ProviderStep
  <2>2. \A s \in armed : s \in attached /\ handle[ObjectOf[s]] # "none" /\ ObjectOf[s] \in Objects
    BY <1>0, SubsAssumption DEF Linked, ArmedIsAttached, TypeOK
  <2>3. ArmedIsAttached'
    BY <2>1, <2>2 DEF ArmedIsAttached
  <2> QED
    BY <2>1, <2>3, Empty, LinkedBare
<1> QED
  BY <1>1, <1>2, <1>3, <1>4, <1>5, <1>6, <1>7, <1>8, <1>9
  DEF Next, Step, User, Transport, Turns

-----------------------------------------------------------------------------

LEMMA RegInvAlways == Spec => []RegInv
<1>1. Init => RegInv
  BY InitInv
<1> QED
  BY <1>1, RegStep, PTL DEF Spec

\* Only rearm() of an object with nothing held guts entries, and a gutted entry is
\* one of m_held.
LEMMA GuttedStep ==
  ASSUME gutted \subseteq held, [Next]_vars
  PROVE  /\ gutted' \subseteq held'
         /\ gutted' \subseteq gutted \/ \E o \in Objects : Rearm(o) /\ Held(o) = {}
<1>1. CASE UNCHANGED <<held, gutted>>
  BY <1>1
<1>2. ASSUME NEW lost, Lose(lost), UNCHANGED gutted PROVE gutted' \subseteq held' /\ gutted' \subseteq gutted
  BY <1>2 DEF Lose
<1>3. CASE Step
  <2>1. CASE CheckLiveness
    BY <1>2, <2>1 DEF CheckLiveness
  <2>2. CASE ~CheckLiveness
    BY <1>1, <1>3, <2>2 DEF Step, Arm, ArmAgainst, Attach, Push, CallbackReturns, StartTimer, AcquiredNow,
       NotAcquired, NextName, ChaseIfPending, Wanted, Settle, vectors
  <2> QED  BY <2>1, <2>2
<1>4. CASE Transport \/ Tick
  BY <1>1, <1>4 DEF Transport, Tick, AcquireDelivered, AcquireRefused, ArmAgainst, ProviderGoes, ProviderComes,
     vectors
<1>5. ASSUME NEW s \in Subs, Add(s) \/ Cancel(s) PROVE gutted' \subseteq held' /\ gutted' \subseteq gutted
  BY <1>5 DEF Add, Cancel
<1>6. ASSUME NEW o \in Objects, Rearm(o)
      PROVE  gutted' \subseteq held' /\ (gutted' \subseteq gutted \/ Held(o) = {})
  BY <1>6 DEF Rearm, Held
<1>7. ASSUME NEW o \in Objects, SetStatusCallback(o) PROVE UNCHANGED <<held, gutted>>
  BY <1>7 DEF SetStatusCallback, vectors
<1>8. ASSUME NEW o \in Objects, NEW policy, SetRestartPolicy(o, policy) PROVE UNCHANGED <<held, gutted>>
  BY <1>8 DEF SetRestartPolicy, vectors
<1>9. CASE Reconnect
  BY <1>2, <1>9 DEF Reconnect
<1>10. CASE UNCHANGED vars
  BY <1>1, <1>10 DEF vars, vectors
<1> QED  BY <1>1, <1>3, <1>4, <1>5, <1>6, <1>7, <1>8, <1>9, <1>10 DEF Next, User

\* The loops of the running armAgainst calls, as TLC sees them and as the proofs do.
LEMMA InHandIsHand == InHand = Hand(agenda)
<1>1. \A s : s \in InHand <=> \E i \in DOMAIN agenda : Holds(agenda[i]) /\ s \in agenda[i].set
  BY DEF InHand, Holds
<1>2. \A s : s \in Hand(agenda) <=> \E i \in DOMAIN agenda : Holds(agenda[i]) /\ s \in agenda[i].set
  BY DEF Hand, Els
<1> QED  BY <1>1, <1>2

\* LogosPendingSubscriptions doubles no subscription and forgets one only through rearm()
\* of an object with nothing held: any other that was added and not let go is whole, in
\* exactly one of m_entries, m_armed, m_held and the loop of a running armAgainst, for any
\* objects, policies, losses and reconnects, and whatever operations (reconnect() among
\* them) the callbacks call back into the registry.
THEOREM OnlyEmptyRearmForgetsAlways == Spec => []OnlyEmptyRearmForgets
<1>1. RegInv /\ gutted \subseteq held => OnlyEmptyRearmForgets
  BY InHandIsHand DEF RegInv, Kept, OnlyEmptyRearmForgets
<1>2. Init => gutted \subseteq held
  BY DEF Init
<1>3. gutted \subseteq held /\ [Next]_vars => (gutted \subseteq held)'
  BY GuttedStep
<1> QED
  BY <1>1, <1>2, <1>3, RegInvAlways, PTL DEF Spec

\* Every subscription that was added and not let go is whole, in m_entries, m_armed, m_held
\* or the loop of a running armAgainst.
NothingForgotten == subscribed \ dropped \subseteq entries \cup armed \cup (held \ gutted) \cup InHand

\* rearm() is called only for objects with something held.
CarefulRearms == \A o \in Objects : Rearm(o) => Held(o) # {}

\* A consumer, its callbacks included, that calls rearm() only for objects with something
\* held loses no subscription, whatever else it, its providers and its transport do.
THEOREM CarefulConsumerForgetsNothing == Spec /\ [][CarefulRearms]_vars => []NothingForgotten
<1>1. gutted = {} /\ RegInv => NothingForgotten
  BY InHandIsHand DEF RegInv, Kept, NothingForgotten
<1>2. Init => gutted = {}
  BY DEF Init
<1>3. gutted = {} /\ [Next]_vars /\ [CarefulRearms]_vars => (gutted = {})'
  <2> SUFFICES ASSUME gutted = {}, [Next]_vars, [CarefulRearms]_vars PROVE gutted' = {}
    OBVIOUS
  <2>1. CASE UNCHANGED vars
    BY <2>1 DEF vars, vectors
  <2>2. CASE CarefulRearms
    BY <2>2, GuttedStep DEF CarefulRearms
  <2> QED  BY <2>1, <2>2
<1> QED
  BY <1>1, <1>2, <1>3, RegInvAlways, PTL DEF Spec

\* A subscription in m_armed has its callback on the handle that m_handles has for its
\* object, whatever the callbacks call, unless one of them reconnects the very consumer
\* that is calling it: armAgainst would then go on with a handle that is gone.
THEOREM ArmedIsAttachedAlways ==
  ASSUME "reconnect" \notin Reentrant
  PROVE  Spec => []ArmedIsAttached
<1>1. Init => Linked
  BY InitInv
<1>2. RegInv /\ Linked /\ [Next]_vars => Linked'
  BY LinkedStep
<1>3. Linked => ArmedIsAttached
  BY DEF Linked
<1> QED
  BY <1>1, <1>2, <1>3, RegInvAlways, PTL DEF Spec

-----------------------------------------------------------------------------
(***************************************************************************)
(* RemoteAcquire, for any requests and any number of nested loops: only a  *)
(* request that waits may be left with a facade that was destroyed under   *)
(* it, and a cancelled one is told nothing. AcquireInv adds who owns each  *)
(* facade, and whose each nested loop is.                                  *)
(***************************************************************************)

\* The nested loops of requestObject.
Loops == [f : Requests, quit : BOOLEAN]

\* What each variable of RemoteAcquire holds.
AcquireTypeOK ==
  /\ connected \in BOOLEAN /\ node \in 0..MaxNodes
  /\ impl \in {"none", "waiting", "valid", "suspect", "mismatch"}
  /\ needing \subseteq Facades
  /\ owner \in [Facades -> {"unmade", "pending", "probe", "request", "handle", "freed"}]
  /\ of \in [Facades -> 0..MaxNodes]
  /\ scheduled \in [Waits -> {"no", "ok", "fail"}]
  /\ stack \in Seq(Loops)
  /\ told \in [Waits -> Nat] /\ cancelled \subseteq Waits

\* Each kind of acquire keeps its facades to itself.
OwnersByKind ==
  \A f \in Facades : /\ owner[f] = "pending" => f \in Waits
                     /\ owner[f] = "probe" => f \in Probes
                     /\ owner[f] = "request" => f \in Requests

\* A facade belongs to a node there has been, once it is made.
MadeOnNode ==
  \A f \in Facades : /\ owner[f] # "unmade" => of[f] # 0
                     /\ node # 0 => of[f] <= node

\* The implementation goes with its last facade, and its list with it; a list
\* names facades of the node there is.
ListOfThisNode ==
  /\ impl = "none" => needing = {} /\ ~Pinned(owner)
  /\ impl \in {"valid", "suspect"} => needing = {}
  /\ \A f \in needing : of[f] = node /\ owner[f] # "unmade"

\* While the class definition is awaited nothing has been posted for a wait on
\* this node, and no handle has been given out.
NothingGivenYet ==
  impl = "waiting" =>
    \A f \in Facades : of[f] = node => /\ owner[f] # "handle"
                                       /\ owner[f] = "pending" => scheduled[f] = "no"

\* The nested loops are those of requests that have been made.
LoopsOfRequests == \A i \in DOMAIN stack : owner[stack[i].f] # "unmade"

\* A cancelled wait is over.
CancelledIsOver == \A w \in cancelled : owner[w] = "freed"

AcquireInv ==
  /\ AcquireTypeOK /\ OwnersByKind /\ MadeOnNode /\ ListOfThisNode /\ NothingGivenYet
  /\ LoopsOfRequests /\ CancelledIsOver /\ OnlyRequestsDangle

-----------------------------------------------------------------------------
LEMMA AcquireInvInit == AcquireInit => AcquireInv
<1> SUFFICES ASSUME AcquireInit PROVE AcquireInv
  OBVIOUS
<1> USE AcquireAssumption DEF AcquireInit
<1>1. AcquireTypeOK
  <2>1. stack \in Seq(Loops)
    BY EmptySeq
  <2>2. node \in 0..MaxNodes /\ of \in [Facades -> 0..MaxNodes]
    OBVIOUS
  <2>3. owner \in [Facades -> {"unmade", "pending", "probe", "request", "handle", "freed"}]
    OBVIOUS
  <2>4. scheduled \in [Waits -> {"no", "ok", "fail"}] /\ told \in [Waits -> Nat]
    OBVIOUS
  <2> QED  BY <2>1, <2>2, <2>3, <2>4 DEF AcquireTypeOK
<1>2. OwnersByKind /\ MadeOnNode /\ ListOfThisNode /\ NothingGivenYet /\ CancelledIsOver
  BY DEF OwnersByKind, MadeOnNode, ListOfThisNode, NothingGivenYet, CancelledIsOver, Pinned
<1>3. OnlyRequestsDangle
  BY DEF OnlyRequestsDangle
<1>4. LoopsOfRequests
  BY EmptySeq DEF LoopsOfRequests
<1> QED  BY <1>1, <1>2, <1>3, <1>4 DEF AcquireInv

\* The facade of a nested loop is one.
LEMMA LoopFacade ==
  ASSUME stack \in Seq(Loops), NEW i \in DOMAIN stack
  PROVE  stack[i].f \in Requests /\ stack[i].f \in Facades
<1>1. stack[i] \in Loops
  BY ElementOfSeq, LenProperties
<1> QED  BY <1>1 DEF Facades, Loops

\* What the three ways to acquire have in common: the new facade is live, of this
\* node, and on the list while the class definition is awaited.
LEMMA AcquireKeeps ==
  ASSUME AcquireInv, Exists, NEW g \in Facades, owner[g] = "unmade", NEW who, Acquire(g, who),
         \/ who = "pending" /\ g \in Waits
         \/ who = "probe" /\ g \in Probes
         \/ who = "request" /\ g \in Requests
         \/ who = "handle" /\ impl = "valid",
         scheduled \in [Waits -> {"no", "ok", "fail"}],
         scheduled' \in [Waits -> {"no", "ok", "fail"}],
         \A w \in Waits : w # g => scheduled'[w] = scheduled[w],
         g \in Waits /\ impl # "valid" => scheduled'[g] = "no",
         UNCHANGED <<node, told, cancelled>>
  PROVE  /\ impl' \in {"none", "waiting", "valid", "suspect", "mismatch"} /\ needing' \subseteq Facades
         /\ owner' \in [Facades -> {"unmade", "pending", "probe", "request", "handle", "freed"}]
         /\ of' \in [Facades -> 0..MaxNodes]
         /\ OwnersByKind' /\ MadeOnNode' /\ ListOfThisNode' /\ NothingGivenYet'
         /\ CancelledIsOver' /\ OnlyRequestsDangle'
<1> USE DEF Acquire, AcquireInv, AcquireTypeOK, Exists
<1>1. /\ impl' \in {"none", "waiting", "valid", "suspect", "mismatch"} /\ needing' \subseteq Facades
      /\ owner' \in [Facades -> {"unmade", "pending", "probe", "request", "handle", "freed"}]
      /\ of' \in [Facades -> 0..MaxNodes]
  OBVIOUS
<1>2. OwnersByKind'
  BY DEF OwnersByKind
<1>3. MadeOnNode'
  BY DEF MadeOnNode
<1>4. ListOfThisNode'
  BY DEF ListOfThisNode, Pinned
<1>5. NothingGivenYet'
  BY DEF NothingGivenYet, ListOfThisNode, Pinned, OwnersByKind
<1>6. CancelledIsOver'
  BY DEF CancelledIsOver, Facades
<1>7. OnlyRequestsDangle'
  BY DEF OnlyRequestsDangle, ListOfThisNode
<1> QED  BY <1>1, <1>2, <1>3, <1>4, <1>5, <1>6, <1>7

\* What the steps that change the owner of one facade have in common: Deliver,
\* RequestReturns and Release.  A facade is freed off the list, or is a request.
LEMMA OwnerKeeps ==
  ASSUME AcquireInv, NEW g \in Facades, owner[g] # "unmade",
         NEW who \in {"handle", "freed"}, owner' = [owner EXCEPT ![g] = who],
         owner[g] = "freed" => g \in Requests /\ (who = "handle" => impl = "valid"),
         ImplKept(owner'),
         who = "handle" => impl # "waiting" \/ of[g] # node,
         who = "freed" => g \in Requests \/ impl # "waiting" \/ of[g] # node,
         scheduled' \in [Waits -> {"no", "ok", "fail"}],
         \A w \in Waits : w # g => scheduled'[w] = scheduled[w],
         UNCHANGED <<node, of, cancelled>>
  PROVE  /\ impl' \in {"none", "waiting", "valid", "suspect", "mismatch"} /\ needing' \subseteq Facades
         /\ owner' \in [Facades -> {"unmade", "pending", "probe", "request", "handle", "freed"}]
         /\ OwnersByKind' /\ MadeOnNode' /\ ListOfThisNode' /\ NothingGivenYet'
         /\ CancelledIsOver' /\ OnlyRequestsDangle'
<1> USE DEF AcquireInv, AcquireTypeOK
<1>1. /\ impl' \in {"none", "waiting", "valid", "suspect", "mismatch"} /\ needing' \subseteq Facades
      /\ owner' \in [Facades -> {"unmade", "pending", "probe", "request", "handle", "freed"}]
  BY DEF ImplKept, qtro
<1>2. OwnersByKind'
  BY DEF OwnersByKind
<1>3. MadeOnNode'
  BY DEF MadeOnNode
<1>4. ListOfThisNode'
  <2>1. Pinned(owner') = Pinned(owner)'
    BY DEF Pinned
  <2>2. CASE Pinned(owner')
    <3>1. impl' = impl /\ needing' = needing
      BY <2>2 DEF ImplKept, qtro
    <3> QED  BY <2>1, <2>2, <3>1 DEF ListOfThisNode, Pinned
  <2>3. CASE ~Pinned(owner')
    <3>1. impl' = "none" /\ needing' = {}
      BY <2>3 DEF ImplKept, qtro
    <3> QED  BY <2>1, <2>3, <3>1 DEF ListOfThisNode
  <2> QED  BY <2>2, <2>3
<1>5. impl' = "waiting" => impl = "waiting" /\ needing' = needing
  BY DEF ImplKept, qtro
<1>6. NothingGivenYet'
  BY <1>5 DEF NothingGivenYet, OwnersByKind
<1>7. CancelledIsOver'
  BY AcquireAssumption DEF CancelledIsOver, Facades
<1>8. OnlyRequestsDangle'
  BY <1>5 DEF OnlyRequestsDangle, ListOfThisNode
<1> QED  BY <1>1, <1>2, <1>3, <1>4, <1>6, <1>7, <1>8

-----------------------------------------------------------------------------
LEMMA AcquireInvNext == AcquireInv /\ [AcquireNext]_acquireVars => AcquireInv'
<1> SUFFICES ASSUME AcquireInv, [AcquireNext]_acquireVars PROVE AcquireInv'
  OBVIOUS
<1> USE AcquireAssumption
<1>a. AcquireTypeOK
  BY DEF AcquireInv
<1>1. CASE ClassDefinition
  <2> USE <1>1 DEF ClassDefinition, connection, AcquireInv
  <2>1. AcquireTypeOK'
    BY DEF AcquireTypeOK, Scheduled
  <2>2. OwnersByKind' /\ MadeOnNode' /\ LoopsOfRequests' /\ CancelledIsOver'
    BY DEF OwnersByKind, MadeOnNode, LoopsOfRequests, CancelledIsOver
  <2>3. ListOfThisNode'
    BY DEF ListOfThisNode
  <2>4. NothingGivenYet' /\ OnlyRequestsDangle'
    BY DEF NothingGivenYet, OnlyRequestsDangle
  <2> QED  BY <2>1, <2>2, <2>3, <2>4
<1>2. CASE SourceDrops
  <2> USE <1>2 DEF SourceDrops, connection, facades, history, AcquireInv
  <2>1. AcquireTypeOK'
    BY DEF AcquireTypeOK
  <2>2. OwnersByKind' /\ MadeOnNode' /\ LoopsOfRequests' /\ CancelledIsOver'
    BY DEF OwnersByKind, MadeOnNode, LoopsOfRequests, CancelledIsOver
  <2>3. ListOfThisNode'
    BY DEF ListOfThisNode
  <2>4. NothingGivenYet' /\ OnlyRequestsDangle'
    BY DEF NothingGivenYet, OnlyRequestsDangle
  <2> QED  BY <2>1, <2>2, <2>3, <2>4
<1>3. CASE SourceReturns
  <2> USE <1>3 DEF SourceReturns, connection, history, AcquireInv
  <2>1. AcquireTypeOK'
    BY DEF AcquireTypeOK, Scheduled
  <2>2. OwnersByKind' /\ MadeOnNode' /\ LoopsOfRequests' /\ CancelledIsOver'
    BY DEF OwnersByKind, MadeOnNode, LoopsOfRequests, CancelledIsOver
  <2>3. ListOfThisNode'
    BY DEF ListOfThisNode
  <2>4. NothingGivenYet' /\ OnlyRequestsDangle'
    BY DEF NothingGivenYet, OnlyRequestsDangle
  <2> QED  BY <2>1, <2>2, <2>3, <2>4
<1>4. CASE SignatureMismatch
  <2> USE <1>4 DEF SignatureMismatch, connection, history, AcquireInv
  <2>1. AcquireTypeOK'
    BY DEF AcquireTypeOK, Scheduled
  <2>2. OwnersByKind' /\ MadeOnNode' /\ LoopsOfRequests' /\ CancelledIsOver'
    BY DEF OwnersByKind, MadeOnNode, LoopsOfRequests, CancelledIsOver
  <2>3. ListOfThisNode'
    BY DEF ListOfThisNode
  <2>4. NothingGivenYet' /\ OnlyRequestsDangle'
    BY DEF NothingGivenYet, OnlyRequestsDangle
  <2> QED  BY <2>1, <2>2, <2>3, <2>4
<1>5. CASE ConnectToHost
  BY <1>5 DEF ConnectToHost, AcquireInv, AcquireTypeOK, OwnersByKind, MadeOnNode, ListOfThisNode,
       Pinned, NothingGivenYet, LoopsOfRequests, CancelledIsOver, OnlyRequestsDangle, qtro, facades,
       history
<1>6. ASSUME Exists, Discard, UNCHANGED <<connected, of, stack, told>>,
             node' = 0 \/ (node' = node + 1 /\ node' \in 0..MaxNodes)
      PROVE  AcquireInv'
  <2> USE <1>6 DEF Discard, Exists, AcquireInv
  <2>0. \A f \in Facades : owner'[f] = IF owner[f] \in {"pending", "probe"} THEN "freed" ELSE owner[f]
    BY DEF Discarded
  <2>1. AcquireTypeOK'
    <3>1. owner' \in [Facades -> {"unmade", "pending", "probe", "request", "handle", "freed"}]
      BY DEF AcquireTypeOK
    <3>2. scheduled' \in [Waits -> {"no", "ok", "fail"}]
      BY DEF AcquireTypeOK
    <3>3. node' \in 0..MaxNodes
      OBVIOUS
    <3> QED  BY <3>1, <3>2, <3>3 DEF AcquireTypeOK
  <2>2. OwnersByKind'
    BY <2>0 DEF OwnersByKind
  <2>3. MadeOnNode'
    <3>1. CASE node' = 0
      BY <2>0, <3>1 DEF MadeOnNode
    <3>2. CASE node' = node + 1
      <4>1. \A f \in Facades : of[f] \in Nat /\ of[f] <= node /\ of'[f] = of[f]
        BY <1>a DEF AcquireTypeOK, MadeOnNode
      <4>2. node \in Nat
        BY <1>a DEF AcquireTypeOK
      <4>3. \A f \in Facades : of'[f] <= node'
        BY <4>1, <4>2, <3>2
      <4> QED  BY <2>0, <4>1, <4>3 DEF MadeOnNode
    <3> QED  BY <3>1, <3>2
  <2>4. ListOfThisNode'
    BY <2>0 DEF ListOfThisNode, MadeOnNode, AcquireTypeOK, Pinned
  <2>5. NothingGivenYet' /\ OnlyRequestsDangle'
    BY DEF NothingGivenYet, OnlyRequestsDangle
  <2>6. CancelledIsOver'
    BY <2>0 DEF CancelledIsOver, Discarded, Facades, AcquireTypeOK
  <2>7. LoopsOfRequests'
    <3>1. \A i \in DOMAIN stack : stack[i].f \in Facades
      BY <1>a, LoopFacade DEF AcquireTypeOK
    <3> QED  BY <2>0, <3>1 DEF LoopsOfRequests
  <2> QED  BY <2>1, <2>2, <2>3, <2>4, <2>5, <2>6, <2>7
<1>7. CASE ReconnectNode
  BY <1>6, <1>7, <1>a DEF ReconnectNode, AcquireTypeOK
<1>8. CASE Destroy
  BY <1>6, <1>8 DEF Destroy
<1>9. CASE TryAcquireNow
  <2>1. ASSUME NEW p \in Parked, Valid(p), owner' = [owner EXCEPT ![p] = "handle"],
               UNCHANGED <<of, qtro, connection, scheduled, stack, history>>
        PROVE  AcquireInv'
    <3> USE <2>1 DEF Parked, Valid, AcquireInv, qtro, connection, history
    <3>1. p \in Facades
      BY DEF Facades
    <3>2. AcquireTypeOK' /\ OwnersByKind' /\ MadeOnNode'
      BY <3>1 DEF AcquireTypeOK, OwnersByKind, MadeOnNode
    <3>3. ListOfThisNode'
      BY <3>1 DEF ListOfThisNode, AcquireTypeOK
    <3>4. NothingGivenYet' /\ OnlyRequestsDangle'
      BY DEF NothingGivenYet, OnlyRequestsDangle
    <3>5. CancelledIsOver'
      BY <3>1 DEF CancelledIsOver, AcquireTypeOK, Facades
    <3>6. LoopsOfRequests'
      <4>1. \A i \in DOMAIN stack : stack[i].f \in Facades
        BY <1>a, LoopFacade DEF AcquireTypeOK
      <4> QED  BY <3>1, <4>1 DEF LoopsOfRequests, AcquireTypeOK
    <3> QED  BY <3>2, <3>3, <3>4, <3>5, <3>6
  <2>2. ASSUME NEW p \in Probes, owner[p] = "unmade", Exists,
               Acquire(p, IF impl = "valid" THEN "handle" ELSE "probe"),
               UNCHANGED <<connection, scheduled, stack, history>>
        PROVE  AcquireInv'
    <3> PICK who : who = IF impl = "valid" THEN "handle" ELSE "probe"
      OBVIOUS
    <3>1. /\ p \in Facades /\ (p \in Waits => FALSE)
          /\ Acquire(p, who)
      BY <2>2 DEF Facades, Probes
    <3>2. /\ impl' \in {"none", "waiting", "valid", "suspect", "mismatch"} /\ needing' \subseteq Facades
          /\ owner' \in [Facades -> {"unmade", "pending", "probe", "request", "handle", "freed"}]
          /\ of' \in [Facades -> 0..MaxNodes]
          /\ OwnersByKind' /\ MadeOnNode' /\ ListOfThisNode' /\ NothingGivenYet'
          /\ CancelledIsOver' /\ OnlyRequestsDangle'
      BY <2>2, <3>1, <1>a, AcquireKeeps DEF connection, history, AcquireTypeOK
    <3>3. LoopsOfRequests'
      <4>1. \A i \in DOMAIN stack : stack[i].f \in Facades
        BY <1>a, LoopFacade DEF AcquireTypeOK
      <4> QED  BY <2>2, <3>1, <4>1 DEF LoopsOfRequests, AcquireInv, AcquireTypeOK, Acquire
    <3> QED  BY <2>2, <3>2, <3>3, <1>a DEF AcquireInv, AcquireTypeOK, connection, history
  <2> QED  BY <1>9, <2>1, <2>2 DEF TryAcquireNow
<1>10. CASE RequestReturns
  <2> USE <1>10 DEF RequestReturns
  <2>1. PICK n \in Nat : n = Len(stack)
    BY <1>a, LenProperties DEF AcquireTypeOK
  <2>2. n \in DOMAIN stack /\ n > 0
    BY <1>a, <2>1, EmptySeq, LenProperties DEF AcquireTypeOK
  <2>3. PICK r \in Requests : r = stack[n].f
    BY <1>a, <2>2, LoopFacade DEF AcquireTypeOK
  <2>4. PICK who \in {"handle", "freed"} : who = IF Valid(r) THEN "handle" ELSE "freed"
    OBVIOUS
  <2>5. owner' = [owner EXCEPT ![r] = who]
    BY <2>1, <2>3, <2>4
  <2>6. /\ stack' \in Seq(Loops)
        /\ \A i \in DOMAIN stack' : i \in DOMAIN stack /\ stack'[i] = stack[i]
    <3>1. \A i \in 1..(n - 1) : stack[i] \in Loops /\ i \in DOMAIN stack
      BY <1>a, <2>1, <2>2, ElementOfSeq, LenProperties DEF AcquireTypeOK
    <3>2. stack' = SubSeq(stack, 1, n - 1)
      BY <2>1
    <3>3. /\ stack' \in Seq(Loops) /\ Len(stack') = n - 1
          /\ \A i \in 1..(n - 1) : stack'[i] = stack[i]
      BY <2>2, <3>1, <3>2, SubSeqProperties
    <3>4. DOMAIN stack' = 1..(n - 1)
      BY <3>3, LenProperties
    <3> QED  BY <3>1, <3>3, <3>4
  <2>7. r \in Facades /\ owner[r] # "unmade"
    BY <2>2, <2>3 DEF AcquireInv, LoopsOfRequests, Facades
  <2>8. /\ impl' \in {"none", "waiting", "valid", "suspect", "mismatch"} /\ needing' \subseteq Facades
        /\ owner' \in [Facades -> {"unmade", "pending", "probe", "request", "handle", "freed"}]
        /\ OwnersByKind' /\ MadeOnNode' /\ ListOfThisNode' /\ NothingGivenYet'
        /\ CancelledIsOver' /\ OnlyRequestsDangle'
    <3>1. who = "handle" => impl = "valid"
      BY <2>4 DEF Valid
    <3> QED  BY <1>a, <2>5, <2>7, <3>1, OwnerKeeps DEF connection, history, AcquireTypeOK
  <2>9. LoopsOfRequests'
    <3>1. \A i \in DOMAIN stack : stack[i].f \in Facades
      BY <1>a, LoopFacade DEF AcquireTypeOK
    <3> QED  BY <2>5, <2>6, <2>7, <3>1, <1>a DEF LoopsOfRequests, AcquireInv, AcquireTypeOK
  <2> QED  BY <2>6, <2>8, <2>9, <1>a DEF AcquireInv, AcquireTypeOK, connection, history
<1>11. ASSUME NEW w \in Waits, RequestObjectWhenAvailable(w) PROVE AcquireInv'
  <2> USE <1>11 DEF RequestObjectWhenAvailable
  <2>1. w \in Facades
    BY DEF Facades
  <2>2. /\ scheduled' \in [Waits -> {"no", "ok", "fail"}]
        /\ \A v \in Waits : v # w => scheduled'[v] = scheduled[v]
        /\ impl # "valid" => scheduled'[w] = "no"
    BY <1>a DEF AcquireTypeOK
  <2>3. /\ impl' \in {"none", "waiting", "valid", "suspect", "mismatch"} /\ needing' \subseteq Facades
        /\ owner' \in [Facades -> {"unmade", "pending", "probe", "request", "handle", "freed"}]
        /\ of' \in [Facades -> 0..MaxNodes]
        /\ OwnersByKind' /\ MadeOnNode' /\ ListOfThisNode' /\ NothingGivenYet'
        /\ CancelledIsOver' /\ OnlyRequestsDangle'
    BY <2>1, <2>2, <1>a, AcquireKeeps DEF connection, history, AcquireTypeOK
  <2>4. LoopsOfRequests'
    <3>1. \A i \in DOMAIN stack : stack[i].f \in Facades
      BY <1>a, LoopFacade DEF AcquireTypeOK
    <3> QED  BY <2>1, <3>1 DEF LoopsOfRequests, AcquireInv, AcquireTypeOK, Acquire
  <2> QED  BY <2>2, <2>3, <2>4, <1>a DEF AcquireInv, AcquireTypeOK, connection, history
<1>12. ASSUME NEW w \in Waits, Deliver(w) PROVE AcquireInv'
  <2> USE <1>12 DEF Deliver
  <2>1. w \in Facades
    BY DEF Facades
  <2>2. /\ scheduled' \in [Waits -> {"no", "ok", "fail"}] /\ told' \in [Waits -> Nat]
        /\ \A v \in Waits : v # w => scheduled'[v] = scheduled[v]
    BY <1>a DEF AcquireTypeOK
  <2>3. PICK who \in {"handle", "freed"} : who = IF scheduled[w] = "ok" THEN "handle" ELSE "freed"
    OBVIOUS
  <2>4. impl # "waiting" \/ of[w] # node
    BY <2>1 DEF AcquireInv, NothingGivenYet
  <2>5. /\ impl' \in {"none", "waiting", "valid", "suspect", "mismatch"} /\ needing' \subseteq Facades
        /\ owner' \in [Facades -> {"unmade", "pending", "probe", "request", "handle", "freed"}]
        /\ OwnersByKind' /\ MadeOnNode' /\ ListOfThisNode' /\ NothingGivenYet'
        /\ CancelledIsOver' /\ OnlyRequestsDangle'
    <3>1. owner' = [owner EXCEPT ![w] = who] /\ owner[w] = "pending" /\ UNCHANGED <<node, of, cancelled>>
      BY <2>3 DEF connection
    <3> QED  BY <2>1, <2>2, <2>4, <3>1, OwnerKeeps
  <2>6. LoopsOfRequests'
    <3>1. \A i \in DOMAIN stack : stack[i].f \in Facades
      BY <1>a, LoopFacade DEF AcquireTypeOK
    <3> QED  BY <2>1, <3>1 DEF LoopsOfRequests, AcquireInv, AcquireTypeOK
  <2> QED  BY <2>2, <2>5, <2>6, <1>a DEF AcquireInv, AcquireTypeOK, connection
<1>13. ASSUME NEW r \in Requests, RequestObject(r) PROVE AcquireInv'
  <2> USE <1>13 DEF RequestObject
  <2>1. r \in Facades /\ r \notin Waits
    BY DEF Facades
  <2>2. /\ impl' \in {"none", "waiting", "valid", "suspect", "mismatch"} /\ needing' \subseteq Facades
        /\ owner' \in [Facades -> {"unmade", "pending", "probe", "request", "handle", "freed"}]
        /\ of' \in [Facades -> 0..MaxNodes]
        /\ OwnersByKind' /\ MadeOnNode' /\ ListOfThisNode' /\ NothingGivenYet'
        /\ CancelledIsOver' /\ OnlyRequestsDangle'
    BY <2>1, <1>a, AcquireKeeps DEF connection, history, AcquireTypeOK
  <2>3. PICK frame \in Loops : frame = [f |-> r, quit |-> FALSE]
    BY DEF Loops
  <2>4. /\ stack' \in Seq(Loops)
        /\ \A i \in DOMAIN stack' : stack'[i] = frame \/ (i \in DOMAIN stack /\ stack'[i] = stack[i])
    <3>1. stack' = Append(stack, frame)
      BY <2>3
    <3>2. stack \in Seq(Loops)
      BY <1>a DEF AcquireTypeOK
    <3>3. /\ stack' \in Seq(Loops) /\ Len(stack') = Len(stack) + 1
          /\ \A i \in 1..Len(stack) : stack'[i] = stack[i]
          /\ stack'[Len(stack) + 1] = frame
      BY <3>1, <3>2, AppendProperties
    <3>4. DOMAIN stack' = 1..Len(stack') /\ DOMAIN stack = 1..Len(stack) /\ Len(stack) \in Nat
      BY <3>2, <3>3, LenProperties
    <3>5. PICK n \in Nat : n = Len(stack)
      BY <3>4
    <3>6. \A i \in 1..(n + 1) : i = n + 1 \/ i \in 1..n
      OBVIOUS
    <3>7. DOMAIN stack' = 1..(n + 1) /\ DOMAIN stack = 1..n
      BY <3>3, <3>4, <3>5
    <3> QED  BY <3>3, <3>5, <3>6, <3>7
  <2>5. LoopsOfRequests'
    <3>1. \A i \in DOMAIN stack : stack[i].f \in Facades
      BY <1>a, LoopFacade DEF AcquireTypeOK
    <3>2. \A f \in Facades : owner'[f] = IF f = r THEN "request" ELSE owner[f]
      BY <1>a DEF Acquire, AcquireTypeOK
    <3>3. frame.f = r
      BY <2>3
    <3> QED  BY <2>1, <2>4, <3>1, <3>2, <3>3 DEF LoopsOfRequests, AcquireInv
  <2> QED  BY <2>2, <2>4, <2>5, <1>a DEF AcquireInv, AcquireTypeOK, connection, history
<1>14. ASSUME NEW i \in DOMAIN stack, QuitWait(i) PROVE AcquireInv'
  <2>1. stack[i] \in Loops
    BY <1>a, ElementOfSeq, LenProperties DEF AcquireTypeOK
  <2>2. PICK frame \in Loops : frame = [stack[i] EXCEPT !.quit = TRUE]
    BY <2>1 DEF Loops
  <2>3. stack' = [stack EXCEPT ![i] = frame] /\ frame.f = stack[i].f
    BY <1>14, <2>1, <2>2 DEF Loops, QuitWait
  <2>4. stack' \in Seq(Loops) /\ DOMAIN stack' = DOMAIN stack
    <3>1. stack \in Seq(Loops)
      BY <1>a DEF AcquireTypeOK
    <3>2. i \in 1..Len(stack)
      BY <3>1, LenProperties
    <3>3. stack' \in Seq(Loops)
      BY <2>3, <3>1, <3>2, ExceptSeq
    <3> QED  BY <2>3, <3>3
  <2>5. UNCHANGED <<connected, node, impl, needing, owner, of, scheduled, told, cancelled>>
    BY <1>14 DEF QuitWait, connection, qtro, facades, history
  <2>6. LoopsOfRequests'
    BY <2>3, <2>4, <2>5 DEF LoopsOfRequests, AcquireInv
  <2> QED  BY <2>4, <2>5, <2>6, <1>a DEF AcquireInv, AcquireTypeOK, OwnersByKind, MadeOnNode,
                ListOfThisNode, Pinned, NothingGivenYet, CancelledIsOver, OnlyRequestsDangle
<1>15. ASSUME NEW f \in Facades, Release(f) PROVE AcquireInv'
  <2> USE <1>15 DEF Release
  <2>1. impl # "waiting" \/ of[f] # node
    BY DEF AcquireInv, NothingGivenYet
  <2>2. /\ impl' \in {"none", "waiting", "valid", "suspect", "mismatch"} /\ needing' \subseteq Facades
        /\ owner' \in [Facades -> {"unmade", "pending", "probe", "request", "handle", "freed"}]
        /\ OwnersByKind' /\ MadeOnNode' /\ ListOfThisNode' /\ NothingGivenYet'
        /\ CancelledIsOver' /\ OnlyRequestsDangle'
    BY <2>1, <1>a, OwnerKeeps DEF connection, history, AcquireTypeOK
  <2>3. LoopsOfRequests'
    <3>1. \A i \in DOMAIN stack : stack[i].f \in Facades
      BY <1>a, LoopFacade DEF AcquireTypeOK
    <3> QED  BY <3>1 DEF LoopsOfRequests, AcquireInv, AcquireTypeOK
  <2> QED  BY <2>2, <2>3, <1>a DEF AcquireInv, AcquireTypeOK, connection, history
<1>16. CASE UNCHANGED acquireVars
  BY <1>16 DEF acquireVars, connection, qtro, facades, history, AcquireInv, AcquireTypeOK, OwnersByKind,
       MadeOnNode, ListOfThisNode, Pinned, NothingGivenYet, LoopsOfRequests, CancelledIsOver,
       OnlyRequestsDangle
<1> QED
  BY <1>1, <1>2, <1>3, <1>4, <1>5, <1>7, <1>8, <1>9, <1>10, <1>11, <1>12, <1>13, <1>14, <1>15, <1>16
     DEF AcquireNext

\* No parked probe, pending acquire or released handle leaves a pointer behind
\* in the list that the class definition follows (requestObjectWhenAvailable,
\* tryAcquireNow and the handles of remote_transport.cpp).
THEOREM ListedFacadesAlive == AcquireSpec => []OnlyRequestsDangle
<1>1. AcquireInv => OnlyRequestsDangle
  BY DEF AcquireInv
<1> QED  BY <1>1, AcquireInvInit, AcquireInvNext, PTL DEF AcquireSpec

\* A wait that a reconnect or the destructor cancelled is never told anything
\* (PendingAcquire's posted delivery dies with it).
THEOREM CancelledNeverTold == AcquireSpec => CancelledIsSilent
<1>1. ASSUME AcquireInv, [AcquireNext]_acquireVars
      PROVE  [\A w \in cancelled : told'[w] = told[w]]_acquireVars
  <2> SUFFICES ASSUME AcquireNext, NEW w \in cancelled PROVE told'[w] = told[w]
    BY <1>1
  <2>1. w \in Waits /\ owner[w] = "freed" /\ told \in [Waits -> Nat]
    BY <1>1 DEF AcquireInv, AcquireTypeOK, CancelledIsOver
  <2>2. ASSUME NEW v \in Waits, Deliver(v) PROVE told'[w] = told[w]
    BY <2>1, <2>2 DEF Deliver
  <2>3. CASE \E v \in Waits : Deliver(v)
    BY <2>2, <2>3
  <2>4. CASE ~\E v \in Waits : Deliver(v)
    <3>1. told' = told
      BY <2>4 DEF AcquireNext, ClassDefinition, SourceDrops, SourceReturns, SignatureMismatch,
           ConnectToHost, ReconnectNode, Destroy, TryAcquireNow, RequestReturns,
           RequestObjectWhenAvailable, RequestObject, QuitWait, Release, history
    <3> QED  BY <3>1
  <2> QED  BY <2>3, <2>4
<1> QED  BY <1>1, AcquireInvInit, AcquireInvNext, PTL DEF AcquireSpec, CancelledIsSilent
=============================================================================
