-------------------------- MODULE ConnectionProofs --------------------------
(***************************************************************************)
(* The two connections a message travels on: the framed byte stream        *)
(* (RpcConnection) and the channel of a web page (WebTransport).           *)
(*                                                                         *)
(* RpcConnection, for any number of frames, of writing and of stopping     *)
(* threads: the wire carries the frames in the order they were posted, one *)
(* async_write at a time, a working connection goes neither mute nor deaf, *)
(* and FrameReader returns the frames of the peer, however they are cut.   *)
(***************************************************************************)
EXTENDS RpcConnection, WebTransport, SequenceTheorems, TLAPS

-----------------------------------------------------------------------------
(* The strand.  The handlers carry arguments of several types, so that the *)
(* strand is only said to be a sequence.                                   *)

IsSeq(s) == s \in Seq({s[i] : i \in DOMAIN s})

\* Where a handler of this kind is queued; that one is; that no second one is.
At(s, kind) == {i \in DOMAIN s : s[i].kind = kind}
Has(s, kind) == At(s, kind) # {}
One(s, kind) == \A i, j \in At(s, kind) : i = j

TypeOK ==
  /\ started \in BOOLEAN /\ stopped \in BOOLEAN
  /\ stopper \in [Stoppers -> {"idle", "close", "returned"}]
  /\ writer \in [Outgoing -> {"idle", "post", "returned"}]
  /\ IsSeq(strand)
  /\ running \in {"none", "doWrite", "frames"}
  /\ writing \in BOOLEAN
  /\ writeQueue \in Seq(Outgoing) /\ writeOps \in Seq(Outgoing)
  /\ onWire \in Seq(Outgoing) /\ posted \in Seq(Outgoing)

\* One write at a time: about to be issued, under way or completed, it is the
\* first of the queue, and m_writing is up.  While the connection works the flag
\* is up exactly as long as there is one, or its error is on its way.
WriteInv ==
  /\ Len(writeOps) <= 1 /\ One(strand, "written")
  /\ writeOps # <<>> => /\ ~Has(strand, "written") /\ running # "doWrite"
                        /\ writeOps = <<Head(writeQueue)>>
                        /\ writing /\ writeQueue # <<>>
  /\ Has(strand, "written") => running # "doWrite" /\ writing /\ writeQueue # <<>>
  /\ running = "doWrite" => writing /\ writeQueue # <<>>
  /\ ~stopped =>
       IF writing
       THEN writeOps # <<>> \/ running = "doWrite" \/ Has(strand, "written") \/ Has(strand, "error")
       ELSE writeQueue = <<>>

\* One read at a time, in the same way.
ReadInv ==
  /\ reading \in {0, 1} /\ One(strand, "start") /\ One(strand, "read")
  /\ reading = 1 => running # "frames" /\ ~Has(strand, "start") /\ ~Has(strand, "read")
  /\ running = "frames" => ~Has(strand, "start") /\ ~Has(strand, "read")
  /\ Has(strand, "start") => ~Has(strand, "read")
  /\ ~started => /\ reading = 0 /\ running # "frames"
                 /\ ~Has(strand, "start") /\ ~Has(strand, "read")
  /\ ~stopped /\ started =>
       \/ reading = 1 \/ running = "frames"
       \/ Has(strand, "start") \/ Has(strand, "read") \/ Has(strand, "error")

\* The frames queued on the strand s are those posted after the first n, in the
\* order of q.
Lined(s, q, n) ==
  \E p \in [At(s, "frame") -> (n + 1) .. Len(q)] :
    /\ \A i \in At(s, "frame") : s[i].arg = <<q[p[i]]>>
    /\ \A i, j \in At(s, "frame") : i < j => p[i] < p[j]
    /\ \A a \in (n + 1) .. Len(q) : \E i \in At(s, "frame") : p[i] = a

\* How many frames have left the queue: a written frame stays at its head until
\* the handler of the completion has run.
Gone(s, w) == IF Has(s, "written") THEN Len(w) - 1 ELSE Len(w)

\* The wire is the beginning of what was posted, the queue what comes next and,
\* while nothing is dropped, the strand the rest.
OrderInv ==
  /\ Len(onWire) <= Len(posted)
  /\ \A i \in 1 .. Len(onWire) : onWire[i] = posted[i]
  /\ Has(strand, "written") => Len(onWire) >= 1
  /\ Gone(strand, onWire) + Len(writeQueue) <= Len(posted)
  /\ \A j \in 1 .. Len(writeQueue) : writeQueue[j] = posted[Gone(strand, onWire) + j]
  /\ ~stopped => Lined(strand, posted, Gone(strand, onWire) + Len(writeQueue))

ConnInv == TypeOK /\ WriteInv /\ ReadInv /\ OrderInv

-----------------------------------------------------------------------------
(* What posting a handler and running the next one do to the strand.       *)

\* Whatever is a sequence of some type is one in the sense of IsSeq.
LEMMA SeqIsSeq == ASSUME NEW T, NEW s \in Seq(T) PROVE IsSeq(s)
<1> DEFINE R == {s[i] : i \in DOMAIN s}
<1>1. Len(s) \in Nat /\ s = [i \in 1 .. Len(s) |-> s[i]] /\ DOMAIN s = 1 .. Len(s)
  BY LenProperties
<1>2. \A i \in 1 .. Len(s) : s[i] \in R
  BY <1>1
<1>3. [i \in 1 .. Len(s) |-> s[i]] \in Seq(R)
  BY <1>1, <1>2, IsASeq
<1> QED
  BY <1>1, <1>3 DEF IsSeq

\* A posted handler is the last of the strand, and the only new one.
LEMMA PostShape ==
  ASSUME NEW s, IsSeq(s), NEW x
  PROVE  /\ IsSeq(Append(s, x))
         /\ Len(s) \in Nat /\ DOMAIN s = 1 .. Len(s)
         /\ Len(Append(s, x)) = Len(s) + 1
         /\ DOMAIN Append(s, x) = 1 .. (Len(s) + 1)
         /\ \A i \in 1 .. Len(s) : Append(s, x)[i] = s[i]
         /\ Append(s, x)[Len(s) + 1] = x
<1> DEFINE T == {s[i] : i \in DOMAIN s} \cup {x}
<1>1. s \in Seq({s[i] : i \in DOMAIN s})
  BY DEF IsSeq
<1>2. Len(s) \in Nat /\ DOMAIN s = 1 .. Len(s) /\ s = [i \in 1 .. Len(s) |-> s[i]]
  BY <1>1, LenProperties
<1>3. \A i \in 1 .. Len(s) : s[i] \in T
  BY <1>2
<1>4. s \in Seq(T)
  BY <1>2, <1>3, IsASeq
<1>5. x \in T
  OBVIOUS
<1> HIDE DEF T
<1>6. /\ Append(s, x) \in Seq(T)
      /\ Len(Append(s, x)) = Len(s) + 1
      /\ \A i \in 1 .. Len(s) : Append(s, x)[i] = s[i]
      /\ Append(s, x)[Len(s) + 1] = x
  BY <1>4, <1>5, AppendProperties
<1>7. DOMAIN Append(s, x) = 1 .. (Len(s) + 1)
  BY <1>6, LenProperties
<1> QED
  BY <1>2, <1>6, <1>7, SeqIsSeq

\* Posting touches the handlers of its own kind only.
LEMMA PostAt ==
  ASSUME NEW s, IsSeq(s), NEW kind, NEW arg
  PROVE  /\ At(Append(s, Task(kind, arg)), kind) = At(s, kind) \cup {Len(s) + 1}
         /\ \A k : k # kind => At(Append(s, Task(kind, arg)), k) = At(s, k)
<1>1. PICK t : t = Append(s, Task(kind, arg))
  OBVIOUS
<1>2. /\ Len(s) \in Nat /\ DOMAIN s = 1 .. Len(s) /\ DOMAIN t = 1 .. (Len(s) + 1)
      /\ \A i \in 1 .. Len(s) : t[i] = s[i]
      /\ t[Len(s) + 1].kind = kind
  BY <1>1, PostShape DEF Task
<1> QED
  BY <1>1, <1>2 DEF At

LEMMA PostHas ==
  ASSUME NEW s, IsSeq(s), NEW kind, NEW arg
  PROVE  /\ IsSeq(Append(s, Task(kind, arg)))
         /\ Has(Append(s, Task(kind, arg)), kind)
         /\ ~Has(s, kind) => One(Append(s, Task(kind, arg)), kind)
         /\ \A k : k # kind => /\ Has(Append(s, Task(kind, arg)), k) <=> Has(s, k)
                               /\ One(Append(s, Task(kind, arg)), k) <=> One(s, k)
<1>1. PICK t : t = Append(s, Task(kind, arg))
  OBVIOUS
<1>2. /\ At(t, kind) = At(s, kind) \cup {Len(s) + 1}
      /\ \A k : k # kind => At(t, k) = At(s, k)
  BY <1>1, PostAt
<1>3. /\ Has(t, kind)
      /\ ~Has(s, kind) => One(t, kind)
  BY <1>2 DEF Has, One
<1>4. \A k : k # kind => (Has(t, k) <=> Has(s, k)) /\ (One(t, k) <=> One(s, k))
  BY <1>2 DEF Has, One
<1>5. IsSeq(t)
  BY <1>1, PostShape
<1> QED
  BY <1>1, <1>3, <1>4, <1>5

\* Running the first handler moves the others up by one.
LEMMA TailShape ==
  ASSUME NEW s, IsSeq(s), s # <<>>
  PROVE  /\ IsSeq(Tail(s))
         /\ Len(s) \in Nat /\ Len(s) >= 1 /\ DOMAIN s = 1 .. Len(s)
         /\ DOMAIN Tail(s) = 1 .. (Len(s) - 1)
         /\ \A i \in 1 .. (Len(s) - 1) : Tail(s)[i] = s[i + 1]
         /\ Head(s) = s[1]
<1> DEFINE T == {s[i] : i \in DOMAIN s}
<1>1. s \in Seq(T)
  BY DEF IsSeq
<1> HIDE DEF T
<1>2. Len(s) \in Nat /\ DOMAIN s = 1 .. Len(s) /\ Len(s) # 0
  BY <1>1, LenProperties, EmptySeq
<1>3. /\ Tail(s) \in Seq(T) /\ Len(Tail(s)) = Len(s) - 1
      /\ \A i \in 1 .. Len(Tail(s)) : Tail(s)[i] = s[i + 1]
      /\ Head(s) = s[1]
  BY <1>1, HeadTailProperties
<1>4. DOMAIN Tail(s) = 1 .. (Len(s) - 1)
  BY <1>3, LenProperties
<1>5. IsSeq(Tail(s))
  BY <1>3, SeqIsSeq
<1>6. Len(s) >= 1
  BY <1>2
<1> QED
  BY <1>2, <1>3, <1>4, <1>5, <1>6

LEMMA TailAt ==
  ASSUME NEW s, IsSeq(s), s # <<>>, NEW k
  PROVE  /\ \A i \in At(s, k) : i \in Nat /\ i >= 1
         /\ \A i \in At(Tail(s), k) : i \in Nat /\ i >= 1 /\ i + 1 \in At(s, k)
         /\ \A i \in At(s, k) : i # 1 => i - 1 \in At(Tail(s), k)
         /\ 1 \in At(s, k) <=> Head(s).kind = k
BY TailShape DEF At

LEMMA TailHas ==
  ASSUME NEW s, IsSeq(s), s # <<>>
  PROVE  /\ IsSeq(Tail(s))
         /\ Has(s, Head(s).kind)
         /\ One(s, Head(s).kind) => ~Has(Tail(s), Head(s).kind)
         /\ \A k : k # Head(s).kind => (Has(Tail(s), k) <=> Has(s, k))
         /\ \A k : One(s, k) => One(Tail(s), k)
<1>1. IsSeq(Tail(s))
  BY TailShape
<1>2. Has(s, Head(s).kind)
  BY TailAt DEF Has
<1>3. ASSUME One(s, Head(s).kind) PROVE ~Has(Tail(s), Head(s).kind)
  <2> SUFFICES ASSUME NEW i \in At(Tail(s), Head(s).kind) PROVE FALSE
    BY DEF Has
  <2>1. i \in Nat /\ i >= 1 /\ i + 1 \in At(s, Head(s).kind) /\ 1 \in At(s, Head(s).kind)
    BY TailAt
  <2> QED
    BY <1>3, <2>1 DEF One
<1>4. ASSUME NEW k, k # Head(s).kind PROVE Has(Tail(s), k) <=> Has(s, k)
  <2>1. /\ \A i \in At(s, k) : i # 1 => i - 1 \in At(Tail(s), k)
        /\ \A i \in At(Tail(s), k) : i + 1 \in At(s, k)
        /\ 1 \notin At(s, k)
    BY <1>4, TailAt
  <2> QED
    BY <2>1 DEF Has
<1>5. ASSUME NEW k, One(s, k) PROVE One(Tail(s), k)
  <2> SUFFICES ASSUME NEW i \in At(Tail(s), k), NEW j \in At(Tail(s), k) PROVE i = j
    BY DEF One
  <2>1. i \in Nat /\ j \in Nat /\ i + 1 \in At(s, k) /\ j + 1 \in At(s, k)
    BY TailAt
  <2>2. i + 1 = j + 1
    BY <1>5, <2>1 DEF One
  <2> QED
    BY <2>1, <2>2
<1> QED
  BY <1>1, <1>2, <1>3, <1>4, <1>5

-----------------------------------------------------------------------------
(* The frames on the strand stay lined up with the history.                *)

LEMMA LinedBy ==
  ASSUME NEW s, NEW q, NEW n, NEW p \in [At(s, "frame") -> (n + 1) .. Len(q)],
         \A i \in At(s, "frame") : s[i].arg = <<q[p[i]]>>,
         \A i, j \in At(s, "frame") : i < j => p[i] < p[j],
         \A a \in (n + 1) .. Len(q) : \E i \in At(s, "frame") : p[i] = a
  PROVE  Lined(s, q, n)
BY DEF Lined

LEMMA LinedPost ==
  ASSUME NEW s, IsSeq(s), NEW q, NEW n, NEW kind, kind # "frame", NEW arg, Lined(s, q, n)
  PROVE  Lined(Append(s, Task(kind, arg)), q, n)
<1>1. PICK t : t = Append(s, Task(kind, arg))
  OBVIOUS
<1>2. At(t, "frame") = At(s, "frame")
  BY <1>1, PostAt
<1>3. \A i \in At(s, "frame") : t[i] = s[i]
  BY <1>1, PostShape DEF At
<1>4. PICK p \in [At(s, "frame") -> (n + 1) .. Len(q)] :
        /\ \A i \in At(s, "frame") : s[i].arg = <<q[p[i]]>>
        /\ \A i, j \in At(s, "frame") : i < j => p[i] < p[j]
        /\ \A a \in (n + 1) .. Len(q) : \E i \in At(s, "frame") : p[i] = a
  BY DEF Lined
<1>5. \A i \in At(s, "frame") : t[i].arg = <<q[p[i]]>>
  BY <1>3, <1>4
<1>6. Lined(t, q, n)
  BY <1>2, <1>4, <1>5, LinedBy
<1> QED
  BY <1>1, <1>6

LEMMA LinedPostFrame ==
  ASSUME NEW S, NEW s, IsSeq(s), NEW q \in Seq(S), NEW n \in Nat, n <= Len(q),
         NEW f \in S, Lined(s, q, n)
  PROVE  Lined(Append(s, Task("frame", <<f>>)), Append(q, f), n)
<1>1. PICK t : t = Append(s, Task("frame", <<f>>))
  OBVIOUS
<1>2. PICK r : r = Append(q, f)
  OBVIOUS
<1>3. PICK F : F = At(s, "frame")
  OBVIOUS
<1>4. PICK L : L = Len(s) + 1
  OBVIOUS
<1>5. /\ At(t, "frame") = F \cup {L}
      /\ L \in Nat /\ \A i \in F : i \in Nat /\ i < L /\ t[i] = s[i]
      /\ t[L].arg = <<f>>
  <2>1. At(t, "frame") = F \cup {L}
    BY <1>1, <1>3, <1>4, PostAt
  <2>2. /\ Len(s) \in Nat /\ DOMAIN s = 1 .. Len(s)
        /\ \A i \in 1 .. Len(s) : t[i] = s[i]
        /\ t[L] = Task("frame", <<f>>)
    BY <1>1, <1>4, PostShape
  <2>3. \A i \in F : i \in 1 .. Len(s)
    BY <1>3, <2>2 DEF At
  <2>4. t[L].arg = <<f>>
    BY <2>2 DEF Task
  <2> QED
    BY <1>4, <2>1, <2>2, <2>3, <2>4
<1>6. /\ Len(q) \in Nat /\ Len(r) = Len(q) + 1 /\ r[Len(q) + 1] = f
      /\ \A i \in 1 .. Len(q) : r[i] = q[i]
  BY <1>2, AppendProperties, LenProperties
<1>7. PICK p \in [F -> (n + 1) .. Len(q)] :
        /\ \A i \in F : s[i].arg = <<q[p[i]]>>
        /\ \A i, j \in F : i < j => p[i] < p[j]
        /\ \A a \in (n + 1) .. Len(q) : \E i \in F : p[i] = a
  BY <1>3 DEF Lined
<1>8. PICK g : g = [i \in F \cup {L} |-> IF i = L THEN Len(q) + 1 ELSE p[i]]
  OBVIOUS
<1>9. /\ g[L] = Len(q) + 1
      /\ \A i \in F : g[i] = p[i] /\ g[i] \in (n + 1) .. Len(q)
  BY <1>5, <1>7, <1>8
<1>10. g \in [F \cup {L} -> (n + 1) .. Len(r)]
  BY <1>6, <1>8, <1>9
<1>11. \A i \in F \cup {L} : t[i].arg = <<r[g[i]]>>
  <2>1. t[L].arg = <<r[g[L]]>>
    BY <1>5, <1>6, <1>9
  <2>2. ASSUME NEW i \in F PROVE t[i].arg = <<r[g[i]]>>
    <3>1. g[i] \in 1 .. Len(q)
      BY <1>6, <1>9
    <3>2. r[g[i]] = q[p[i]]
      BY <1>6, <1>9, <3>1
    <3> QED
      BY <1>5, <1>7, <3>2
  <2> QED
    BY <2>1, <2>2
<1>12. \A i, j \in F \cup {L} : i < j => g[i] < g[j]
  <2> SUFFICES ASSUME NEW i \in F \cup {L}, NEW j \in F \cup {L}, i < j
               PROVE  g[i] < g[j]
    OBVIOUS
  <2>1. i \in F
    BY <1>5
  <2>2. CASE j = L
    BY <1>6, <1>9, <2>1, <2>2
  <2>3. CASE j \in F
    BY <1>7, <1>9, <2>1, <2>3
  <2> QED
    BY <2>2, <2>3
<1>13. \A a \in (n + 1) .. Len(r) : \E i \in F \cup {L} : g[i] = a
  <2> SUFFICES ASSUME NEW a \in (n + 1) .. Len(r) PROVE \E i \in F \cup {L} : g[i] = a
    OBVIOUS
  <2>1. CASE a = Len(q) + 1
    BY <1>9, <2>1
  <2>2. CASE a # Len(q) + 1
    <3>1. a \in (n + 1) .. Len(q)
      BY <1>6, <2>2
    <3>2. PICK i \in F : p[i] = a
      BY <1>7, <3>1
    <3> QED
      BY <1>9, <3>2
  <2> QED
    BY <2>1, <2>2
<1>14. Lined(t, r, n)
  BY <1>5, <1>10, <1>11, <1>12, <1>13, LinedBy
<1> QED
  BY <1>1, <1>2, <1>14

LEMMA LinedTail ==
  ASSUME NEW s, IsSeq(s), s # <<>>, Head(s).kind # "frame",
         NEW q, NEW n, Lined(s, q, n)
  PROVE  Lined(Tail(s), q, n)
<1>1. PICK t : t = Tail(s)
  OBVIOUS
<1>2. PICK F : F = At(s, "frame")
  OBVIOUS
<1>3. PICK G : G = At(t, "frame")
  OBVIOUS
<1>4. /\ \A i \in G : i \in Nat /\ i + 1 \in F /\ t[i] = s[i + 1]
      /\ \A i \in F : i \in Nat /\ i - 1 \in G
  <2>1. /\ \A i \in G : i \in Nat /\ i >= 1 /\ i + 1 \in F
        /\ \A i \in F : i # 1 => i - 1 \in G
        /\ 1 \notin F
        /\ \A i \in F : i \in Nat
    BY <1>1, <1>2, <1>3, TailAt
  <2>2. \A i \in G : t[i] = s[i + 1]
    BY <1>1, <1>3, TailShape DEF At
  <2> QED
    BY <2>1, <2>2
<1>5. PICK p \in [F -> (n + 1) .. Len(q)] :
        /\ \A i \in F : s[i].arg = <<q[p[i]]>>
        /\ \A i, j \in F : i < j => p[i] < p[j]
        /\ \A a \in (n + 1) .. Len(q) : \E i \in F : p[i] = a
  BY <1>2 DEF Lined
<1>6. PICK g : g = [i \in G |-> p[i + 1]]
  OBVIOUS
<1>7. g \in [G -> (n + 1) .. Len(q)]
  BY <1>4, <1>5, <1>6
<1>8. \A i \in G : t[i].arg = <<q[g[i]]>>
  BY <1>4, <1>5, <1>6
<1>9. \A i, j \in G : i < j => g[i] < g[j]
  BY <1>4, <1>5, <1>6
<1>10. ASSUME NEW a \in (n + 1) .. Len(q) PROVE \E i \in G : g[i] = a
  <2>1. PICK i \in F : p[i] = a
    BY <1>5
  <2>2. i - 1 \in G /\ g[i - 1] = a
    BY <1>4, <1>6, <2>1
  <2> QED
    BY <2>2
<1>11. Lined(t, q, n)
  BY <1>3, <1>7, <1>8, <1>9, <1>10 DEF Lined
<1> QED
  BY <1>1, <1>11

\* A frame that is taken off the strand is the next one of the history.
LEMMA LinedTailFrame ==
  ASSUME NEW s, IsSeq(s), s # <<>>, Head(s).kind = "frame",
         NEW S, NEW q \in Seq(S), NEW n \in Nat, Lined(s, q, n)
  PROVE  /\ Lined(Tail(s), q, n + 1)
         /\ n + 1 \in 1 .. Len(q)
         /\ Head(s).arg = <<q[n + 1]>>
<1>1. PICK t : t = Tail(s)
  OBVIOUS
<1>2. PICK F : F = At(s, "frame")
  OBVIOUS
<1>3. PICK G : G = At(t, "frame")
  OBVIOUS
<1>4. /\ \A i \in G : i \in Nat /\ i >= 1 /\ i + 1 \in F /\ t[i] = s[i + 1]
      /\ \A i \in F : i \in Nat /\ i >= 1 /\ (i # 1 => i - 1 \in G)
      /\ 1 \in F
  <2>1. /\ \A i \in G : i \in Nat /\ i >= 1 /\ i + 1 \in F
        /\ \A i \in F : i # 1 => i - 1 \in G
        /\ 1 \in F
        /\ \A i \in F : i \in Nat /\ i >= 1
    BY <1>1, <1>2, <1>3, TailAt
  <2>2. \A i \in G : t[i] = s[i + 1]
    BY <1>1, <1>3, TailShape DEF At
  <2> QED
    BY <2>1, <2>2
<1>5. PICK p \in [F -> (n + 1) .. Len(q)] :
        /\ \A i \in F : s[i].arg = <<q[p[i]]>>
        /\ \A i, j \in F : i < j => p[i] < p[j]
        /\ \A a \in (n + 1) .. Len(q) : \E i \in F : p[i] = a
  BY <1>2 DEF Lined
<1>6. Len(q) \in Nat
  BY LenProperties
<1>7. p[1] = n + 1 /\ n + 1 \in 1 .. Len(q)
  <2>1. p[1] \in (n + 1) .. Len(q)
    BY <1>4, <1>5
  <2>2. n + 1 \in (n + 1) .. Len(q)
    BY <1>6, <2>1
  <2>3. PICK i \in F : p[i] = n + 1
    BY <1>5, <2>2
  <2>4. i = 1 \/ 1 < i
    BY <1>4
  <2>5. 1 < i => p[1] < p[i]
    BY <1>4, <1>5
  <2> QED
    BY <1>6, <2>1, <2>2, <2>3, <2>4, <2>5
<1>8. PICK g : g = [i \in G |-> p[i + 1]]
  OBVIOUS
<1>9. \A i \in G : g[i] \in (n + 2) .. Len(q)
  <2> SUFFICES ASSUME NEW i \in G PROVE g[i] \in (n + 2) .. Len(q)
    OBVIOUS
  <2>1. i + 1 \in F /\ 1 < i + 1
    BY <1>4
  <2>2. p[1] < p[i + 1] /\ p[i + 1] \in (n + 1) .. Len(q)
    BY <1>4, <1>5, <2>1
  <2> QED
    BY <1>6, <1>7, <1>8, <2>2
<1>10. g \in [G -> (n + 2) .. Len(q)]
  BY <1>8, <1>9
<1>11. \A i \in G : t[i].arg = <<q[g[i]]>>
  BY <1>4, <1>5, <1>8
<1>12. \A i, j \in G : i < j => g[i] < g[j]
  BY <1>4, <1>5, <1>8
<1>13. ASSUME NEW a \in (n + 2) .. Len(q) PROVE \E i \in G : g[i] = a
  <2>1. a \in (n + 1) .. Len(q) /\ a # n + 1
    BY <1>6
  <2>2. PICK i \in F : p[i] = a
    BY <1>5, <2>1
  <2>3. i # 1
    BY <1>7, <2>1, <2>2
  <2>4. i - 1 \in G /\ g[i - 1] = a
    BY <1>4, <1>8, <2>2, <2>3
  <2> QED
    BY <2>4
<1>14. (n + 1) + 1 = n + 2
  OBVIOUS
<1>15. Lined(t, q, n + 1)
  BY <1>3, <1>10, <1>11, <1>12, <1>13, <1>14, LinedBy
<1>16. Head(s).arg = <<q[n + 1]>>
  BY <1>2, <1>4, <1>5, <1>7, TailShape
<1> QED
  BY <1>1, <1>7, <1>15, <1>16

-----------------------------------------------------------------------------
(* The invariant is inductive.                                             *)

LEMMA PostStep ==
  ASSUME TypeOK, NEW kind, NEW arg, Post(kind, arg)
  PROVE  /\ IsSeq(strand')
         /\ Has(strand', kind)
         /\ ~Has(strand, kind) => One(strand', kind)
         /\ \A k : k # kind => /\ Has(strand', k) <=> Has(strand, k)
                               /\ One(strand', k) <=> One(strand, k)
BY PostHas DEF TypeOK, Post

LEMMA RunStep ==
  ASSUME TypeOK, NEW kind, Run(kind)
  PROVE  /\ running = "none" /\ strand # <<>> /\ Head(strand).kind = kind
         /\ IsSeq(strand')
         /\ Has(strand, kind)
         /\ One(strand, kind) => ~Has(strand', kind)
         /\ \A k : k # kind => (Has(strand', k) <=> Has(strand, k))
         /\ \A k : One(strand, k) => One(strand', k)
BY TailHas DEF TypeOK, Run

\* Of a single write under way, none is left when it ends.
LEMMA OnlyOne ==
  ASSUME TypeOK, Len(writeOps) <= 1, NEW k \in 1 .. Len(writeOps)
  PROVE  /\ k = 1 /\ writeOps # <<>> /\ writeOps[k] = writeOps[1]
         /\ RemoveAt(writeOps, k) = <<>>
<1>1. writeOps \in Seq(Outgoing) /\ Len(writeOps) \in Nat
  BY LenProperties DEF TypeOK
<1>2. k = 1 /\ Len(writeOps) = 1 /\ writeOps # <<>>
  <2>1. Len(writeOps) = 1 /\ k = 1
    <3>1. PICK n \in Nat : n = Len(writeOps)
      BY <1>1
    <3>2. k \in 1 .. n /\ n <= 1
      BY <3>1
    <3>3. n = 1 /\ k = 1
      BY <3>2
    <3> QED
      BY <3>1, <3>3
  <2>2. Len(<<>>) = 0
    BY EmptySeq
  <2> QED
    BY <2>1, <2>2
<1>3. SubSeq(writeOps, 1, 0) = <<>> /\ SubSeq(writeOps, 2, 1) = <<>>
  BY <1>1, SubSeqEmpty
<1>4. SubSeq(writeOps, 1, k - 1) = <<>> /\ SubSeq(writeOps, k + 1, Len(writeOps)) = <<>>
  BY <1>2, <1>3
<1>5. <<>> \o <<>> = <<>>
  BY EmptySeq, ConcatEmptySeq
<1> QED
  BY <1>2, <1>4, <1>5 DEF RemoveAt

\* How many of the posted frames have left the strand, while the connection works.
Taken == Gone(strand, onWire) + Len(writeQueue)

LEMMA TakenType ==
  ASSUME TypeOK, OrderInv
  PROVE  /\ Gone(strand, onWire) \in Nat /\ Taken \in Nat /\ Taken <= Len(posted)
         /\ Len(posted) \in Nat /\ Len(writeQueue) \in Nat /\ Len(onWire) \in Nat
<1>1. Len(posted) \in Nat /\ Len(writeQueue) \in Nat /\ Len(onWire) \in Nat
  BY LenProperties DEF TypeOK
<1>2. Gone(strand, onWire) \in Nat
  BY <1>1 DEF OrderInv, Gone
<1> QED
  BY <1>1, <1>2 DEF OrderInv, Taken

\* The frame whose handler runs is the next one that was posted.
LEMMA FrameNext ==
  ASSUME ConnInv, ~stopped, Run("frame")
  PROVE  /\ Taken + 1 \in 1 .. Len(posted)
         /\ posted[Taken + 1] \in Outgoing
         /\ writeQueue \o Head(strand).arg = Append(writeQueue, posted[Taken + 1])
         /\ Lined(strand', posted, Taken + 1)
<1> USE DEF ConnInv
<1>1. IsSeq(strand) /\ strand # <<>> /\ Head(strand).kind = "frame" /\ strand' = Tail(strand)
  BY DEF TypeOK, Run
<1>2. Lined(strand, posted, Taken) /\ posted \in Seq(Outgoing) /\ Taken \in Nat
  BY TakenType DEF OrderInv, Taken, TypeOK
<1>3. /\ Taken + 1 \in 1 .. Len(posted)
      /\ Head(strand).arg = <<posted[Taken + 1]>>
      /\ Lined(Tail(strand), posted, Taken + 1)
  BY <1>1, <1>2, LinedTailFrame
<1>4. posted[Taken + 1] \in Outgoing
  BY <1>2, <1>3, ElementOfSeq
<1>5. PICK f \in Outgoing : f = posted[Taken + 1]
  BY <1>4
<1>6. writeQueue \o <<f>> = Append(writeQueue, f)
  BY AppendIsConcat DEF TypeOK
<1> QED
  BY <1>1, <1>3, <1>4, <1>5, <1>6

LEMMA AppendHead ==
  ASSUME NEW S, NEW s \in Seq(S), NEW x \in S
  PROVE  Append(s, x) # <<>> /\ (s # <<>> => Head(Append(s, x)) = Head(s))
<1>1. Len(s) \in Nat /\ (s # <<>> => Len(s) # 0) /\ Len(<<>>) = 0
  BY LenProperties, EmptySeq
<1>2. /\ Append(s, x) \in Seq(S) /\ Len(Append(s, x)) = Len(s) + 1
      /\ \A i \in 1 .. Len(s) : Append(s, x)[i] = s[i]
  BY AppendProperties
<1>3. Append(s, x) # <<>>
  BY <1>1, <1>2
<1>4. ASSUME s # <<>> PROVE Head(Append(s, x)) = Head(s)
  <2>1. Head(Append(s, x)) = Append(s, x)[1] /\ Head(s) = s[1]
    BY <1>2, <1>3, <1>4, HeadTailProperties
  <2> QED
    BY <1>1, <1>2, <1>4, <2>1
<1> QED
  BY <1>3, <1>4

\* The ends of a queue that is not empty.
LEMMA QueueEnds ==
  ASSUME TypeOK, writeQueue # <<>>
  PROVE  /\ Head(writeQueue) \in Outgoing /\ Head(writeQueue) = writeQueue[1]
         /\ Tail(writeQueue) \in Seq(Outgoing)
         /\ Len(writeQueue) \in Nat /\ Len(writeQueue) >= 1
         /\ Len(Tail(writeQueue)) = Len(writeQueue) - 1
         /\ \A i \in 1 .. (Len(writeQueue) - 1) : Tail(writeQueue)[i] = writeQueue[i + 1]
         /\ Len(writeQueue) = 1 <=> Tail(writeQueue) = <<>>
<1>1. writeQueue \in Seq(Outgoing)
  BY DEF TypeOK
<1>2. /\ Head(writeQueue) \in Outgoing /\ Head(writeQueue) = writeQueue[1]
      /\ Tail(writeQueue) \in Seq(Outgoing)
      /\ Len(Tail(writeQueue)) = Len(writeQueue) - 1
      /\ \A i \in 1 .. Len(Tail(writeQueue)) : Tail(writeQueue)[i] = writeQueue[i + 1]
  BY <1>1, HeadTailProperties
<1>3. Len(writeQueue) \in Nat /\ Len(writeQueue) # 0
  BY <1>1, LenProperties, EmptySeq
<1>4. Len(Tail(writeQueue)) = 0 <=> Tail(writeQueue) = <<>>
  BY <1>2, EmptySeq
<1> QED
  BY <1>2, <1>3, <1>4

LEMMA InitInv == Init => ConnInv
<1> SUFFICES ASSUME Init PROVE ConnInv
  OBVIOUS
<1>1. strand = <<>> /\ onWire = <<>> /\ posted = <<>> /\ writeQueue = <<>> /\ writeOps = <<>>
  BY DEF Init
<1>2. <<>> \in Seq(Outgoing) /\ Len(<<>>) = 0 /\ DOMAIN <<>> = {}
  BY EmptySeq, LenProperties
<1>3. IsSeq(strand) /\ \A k : At(strand, k) = {}
  BY <1>1, <1>2, SeqIsSeq DEF At
<1>4. \A k : ~Has(strand, k) /\ One(strand, k)
  BY <1>3 DEF Has, One
<1>5. TypeOK
  BY <1>1, <1>2, <1>3 DEF Init, TypeOK
<1>6. WriteInv /\ ReadInv
  BY <1>1, <1>2, <1>4 DEF Init, WriteInv, ReadInv
<1>7. Gone(strand, onWire) = 0
  BY <1>1, <1>2, <1>4 DEF Gone
<1>8. Lined(strand, posted, 0)
  <2>1. PICK p : p = [i \in At(strand, "frame") |-> 1]
    OBVIOUS
  <2>2. (0 + 1) .. Len(posted) = {}
    BY <1>1, <1>2
  <2>3. p \in [At(strand, "frame") -> (0 + 1) .. Len(posted)]
    BY <1>3, <2>1
  <2> QED
    BY <1>3, <2>2, <2>3, LinedBy
<1>9. OrderInv
  BY <1>1, <1>2, <1>4, <1>7, <1>8 DEF OrderInv
<1> QED
  BY <1>5, <1>6, <1>9 DEF ConnInv

LEMMA TypeStep == ASSUME ConnInv, [Next]_vars PROVE TypeOK'
<1> USE DEF ConnInv
<1>1. ASSUME Start PROVE TypeOK'
  BY <1>1, PostStep DEF Start, TypeOK, vars, life, outVars, inVars
<1>2. ASSUME NEW f \in Outgoing, WriteFrame(f) PROVE TypeOK'
  BY <1>2 DEF WriteFrame, TypeOK, vars, life, outVars, inVars
<1>3. ASSUME NEW f \in Outgoing, PostFrame(f) PROVE TypeOK'
  BY <1>3, PostStep DEF PostFrame, TypeOK, vars, life, outVars, inVars
<1>4. ASSUME NEW t \in Stoppers, Stop(t) PROVE TypeOK'
  BY <1>4 DEF Stop, TypeOK, vars, life, outVars, inVars
<1>5. ASSUME NEW t \in Stoppers, CloseStreamOnStrand(t) PROVE TypeOK'
  BY <1>5, PostStep DEF CloseStreamOnStrand, TypeOK, vars, life, outVars, inVars
<1>6. ASSUME ReadSome PROVE TypeOK'
  BY <1>6, PostStep DEF ReadSome, TypeOK, vars, life, outVars, inVars
<1>7. ASSUME ReadError PROVE TypeOK'
  BY <1>7, PostStep DEF ReadError, TypeOK, vars, life, outVars, inVars
<1>8. ASSUME NEW k \in 1 .. Len(writeOps), WriteDone(k) PROVE TypeOK'
  <2>1. RemoveAt(writeOps, k) = <<>> /\ <<>> \in Seq(Outgoing)
    BY OnlyOne, EmptySeq DEF WriteInv
  <2>2. onWire' \in Seq(Outgoing)
    BY <1>8, AppendProperties DEF WriteDone, TypeOK
  <2> QED
    BY <1>8, <2>1, <2>2, PostStep DEF WriteDone, TypeOK, life, outVars, inVars
<1>9. ASSUME NEW k \in 1 .. Len(writeOps), WriteError(k) PROVE TypeOK'
  <2>1. RemoveAt(writeOps, k) = <<>> /\ <<>> \in Seq(Outgoing)
    BY OnlyOne, EmptySeq DEF WriteInv
  <2> QED
    BY <1>9, <2>1, PostStep DEF WriteError, TypeOK, life, outVars, inVars
<1>10. ASSUME RunStart PROVE TypeOK'
  BY <1>10, RunStep DEF RunStart, TypeOK, vars, life, outVars, inVars, DoRead
<1>11. ASSUME RunClose PROVE TypeOK'
  BY <1>11, RunStep DEF RunClose, TypeOK, vars, life, outVars, inVars
<1>12. ASSUME RunError PROVE TypeOK'
  BY <1>12, RunStep DEF RunError, TypeOK, vars, life, outVars, inVars, FailOnStrand
<1>13. ASSUME RunFrame PROVE TypeOK'
  <2>1. CASE stopped
    BY <1>13, <2>1, RunStep DEF RunFrame, TypeOK, life, outVars, inVars
  <2>2. CASE ~stopped
    <3>1. Run("frame")
      BY <1>13 DEF RunFrame
    <3>2. writeQueue' = Append(writeQueue, posted[Taken + 1])
      BY <1>13, <2>2, <3>1, FrameNext DEF RunFrame
    <3>3. writeQueue' \in Seq(Outgoing)
      BY <2>2, <3>1, <3>2, FrameNext, AppendProperties DEF TypeOK
    <3> QED
      BY <1>13, <2>2, <3>1, <3>3, RunStep DEF RunFrame, TypeOK, life, outVars, inVars
  <2> QED
    BY <2>1, <2>2
<1>14. ASSUME RunWritten PROVE TypeOK'
  <2>1. writeQueue # <<>>
    BY <1>14, RunStep DEF RunWritten, WriteInv
  <2> QED
    BY <1>14, <2>1, QueueEnds, RunStep DEF RunWritten, TypeOK, life, outVars, inVars
<1>15. ASSUME RunRead PROVE TypeOK'
  BY <1>15, RunStep DEF RunRead, TypeOK, vars, life, outVars, inVars
<1>16. ASSUME DoWrite PROVE TypeOK'
  <2>1. Head(writeQueue) \in Outgoing
    BY <1>16, QueueEnds DEF DoWrite, WriteInv
  <2>2. Append(writeOps, Head(writeQueue)) \in Seq(Outgoing)
    BY <2>1, AppendProperties DEF TypeOK
  <2> QED
    BY <1>16, <2>2 DEF DoWrite, TypeOK, life, outVars, inVars
<1>17. ASSUME NextFrame PROVE TypeOK'
  BY <1>17 DEF NextFrame, TypeOK, vars, life, outVars, inVars, FailOnStrand
<1>18. ASSUME NeedMore PROVE TypeOK'
  BY <1>18 DEF NeedMore, TypeOK, vars, life, outVars, inVars, DoRead
<1>19. ASSUME FramingError PROVE TypeOK'
  BY <1>19 DEF FramingError, TypeOK, vars, life, outVars, inVars, FailOnStrand
<1>20. CASE UNCHANGED vars
  BY <1>20 DEF TypeOK, vars, life, outVars, inVars
<1>21. ASSUME PeerSends PROVE TypeOK'
  BY <1>21 DEF PeerSends, TypeOK, life, outVars
<1> QED
  BY <1>1, <1>2, <1>3, <1>4, <1>5, <1>6, <1>7, <1>8, <1>9, <1>10, <1>11, <1>12, <1>13, <1>14, <1>15,
     <1>16, <1>17, <1>18, <1>19, <1>20, <1>21 DEF Next, StrandStep

LEMMA WriteStep == ASSUME ConnInv, [Next]_vars PROVE WriteInv'
<1> USE DEF ConnInv
<1>1. ASSUME Start PROVE WriteInv'
  BY <1>1, PostStep DEF Start, WriteInv, vars, life, outVars, inVars
<1>2. ASSUME NEW f \in Outgoing, WriteFrame(f) PROVE WriteInv'
  BY <1>2 DEF WriteFrame, WriteInv, vars, life, outVars, inVars
<1>3. ASSUME NEW f \in Outgoing, PostFrame(f) PROVE WriteInv'
  BY <1>3, PostStep DEF PostFrame, WriteInv, vars, life, outVars, inVars
<1>4. ASSUME NEW t \in Stoppers, Stop(t) PROVE WriteInv'
  BY <1>4 DEF Stop, WriteInv, vars, life, outVars, inVars
<1>5. ASSUME NEW t \in Stoppers, CloseStreamOnStrand(t) PROVE WriteInv'
  BY <1>5, PostStep DEF CloseStreamOnStrand, WriteInv, vars, life, outVars, inVars
<1>6. ASSUME ReadSome PROVE WriteInv'
  BY <1>6, PostStep DEF ReadSome, WriteInv, vars, life, outVars, inVars
<1>7. ASSUME ReadError PROVE WriteInv'
  BY <1>7, PostStep DEF ReadError, WriteInv, vars, life, outVars, inVars
<1>8. ASSUME NEW k \in 1 .. Len(writeOps), WriteDone(k) PROVE WriteInv'
  BY <1>8, PostStep, OnlyOne DEF WriteDone, WriteInv, vars, life, outVars, inVars
<1>9. ASSUME NEW k \in 1 .. Len(writeOps), WriteError(k) PROVE WriteInv'
  BY <1>9, PostStep, OnlyOne DEF WriteError, WriteInv, vars, life, outVars, inVars
<1>10. ASSUME RunStart PROVE WriteInv'
  BY <1>10, RunStep DEF RunStart, WriteInv, vars, life, outVars, inVars, DoRead
<1>11. ASSUME RunClose PROVE WriteInv'
  BY <1>11, RunStep DEF RunClose, WriteInv, vars, life, outVars, inVars
<1>12. ASSUME RunError PROVE WriteInv'
  BY <1>12, RunStep DEF RunError, WriteInv, vars, life, outVars, inVars, FailOnStrand
<1>13. ASSUME RunFrame PROVE WriteInv'
  <2>1. Run("frame")
    BY <1>13 DEF RunFrame
  <2>2. CASE stopped
    BY <1>13, <2>1, <2>2, RunStep DEF RunFrame, WriteInv, life, outVars, inVars
  <2>3. CASE ~stopped
    <3>1. PICK f \in Outgoing : writeQueue' = Append(writeQueue, f)
      BY <1>13, <2>1, <2>3, FrameNext DEF RunFrame
    <3>2. writeQueue' # <<>> /\ (writeQueue # <<>> => Head(writeQueue') = Head(writeQueue))
      BY <3>1, AppendHead DEF TypeOK
    <3> QED
      BY <1>13, <2>1, <2>3, <3>2, RunStep DEF RunFrame, WriteInv, life, outVars, inVars
  <2> QED
    BY <2>2, <2>3
<1>14. ASSUME RunWritten PROVE WriteInv'
  <2>1. Run("written") /\ Has(strand, "written")
    BY <1>14, RunStep DEF RunWritten
  <2>2. writeQueue # <<>>
    BY <2>1 DEF WriteInv
  <2>3. Len(writeQueue) = 1 <=> Tail(writeQueue) = <<>>
    BY <2>2, QueueEnds
  <2> QED
    BY <1>14, <2>1, <2>3, RunStep DEF RunWritten, WriteInv, life, outVars, inVars
<1>15. ASSUME RunRead PROVE WriteInv'
  BY <1>15, RunStep DEF RunRead, WriteInv, vars, life, outVars, inVars
<1>16. ASSUME DoWrite PROVE WriteInv'
  <2>1. PICK f \in Outgoing : f = Head(writeQueue)
    BY <1>16, QueueEnds DEF DoWrite, WriteInv
  <2>2. CASE stopped
    BY <1>16, <2>2 DEF DoWrite, WriteInv, life, outVars, inVars
  <2>3. CASE ~stopped
    <3>1. writeOps = <<>> /\ writeOps' = Append(writeOps, f)
      BY <1>16, <2>1, <2>3 DEF DoWrite, WriteInv
    <3>2. writeOps' = <<f>> /\ Len(<<f>>) = 1 /\ <<f>> # <<>>
      BY <3>1
    <3> QED
      BY <1>16, <2>1, <2>3, <3>2 DEF DoWrite, WriteInv, life, outVars, inVars
  <2> QED
    BY <2>2, <2>3
<1>17. ASSUME NextFrame PROVE WriteInv'
  BY <1>17 DEF NextFrame, WriteInv, vars, life, outVars, inVars, FailOnStrand
<1>18. ASSUME NeedMore PROVE WriteInv'
  BY <1>18 DEF NeedMore, WriteInv, vars, life, outVars, inVars, DoRead
<1>19. ASSUME FramingError PROVE WriteInv'
  BY <1>19 DEF FramingError, WriteInv, vars, life, outVars, inVars, FailOnStrand
<1>20. CASE UNCHANGED vars
  BY <1>20 DEF WriteInv, vars, life, outVars, inVars
<1>21. ASSUME PeerSends PROVE WriteInv'
  BY <1>21 DEF PeerSends, WriteInv, life, outVars
<1> QED
  BY <1>1, <1>2, <1>3, <1>4, <1>5, <1>6, <1>7, <1>8, <1>9, <1>10, <1>11, <1>12, <1>13, <1>14, <1>15,
     <1>16, <1>17, <1>18, <1>19, <1>20, <1>21 DEF Next, StrandStep

LEMMA ReadStep == ASSUME ConnInv, [Next]_vars PROVE ReadInv'
<1> USE DEF ConnInv
<1>1. ASSUME Start PROVE ReadInv'
  BY <1>1, PostStep DEF Start, ReadInv, vars, life, outVars, inVars
<1>2. ASSUME NEW f \in Outgoing, WriteFrame(f) PROVE ReadInv'
  BY <1>2 DEF WriteFrame, ReadInv, vars, life, outVars, inVars
<1>3. ASSUME NEW f \in Outgoing, PostFrame(f) PROVE ReadInv'
  BY <1>3, PostStep DEF PostFrame, ReadInv, vars, life, outVars, inVars
<1>4. ASSUME NEW t \in Stoppers, Stop(t) PROVE ReadInv'
  BY <1>4 DEF Stop, ReadInv, vars, life, outVars, inVars
<1>5. ASSUME NEW t \in Stoppers, CloseStreamOnStrand(t) PROVE ReadInv'
  BY <1>5, PostStep DEF CloseStreamOnStrand, ReadInv, vars, life, outVars, inVars
<1>6. ASSUME ReadSome PROVE ReadInv'
  BY <1>6, PostStep DEF ReadSome, ReadInv, vars, life, outVars, inVars
<1>7. ASSUME ReadError PROVE ReadInv'
  BY <1>7, PostStep DEF ReadError, ReadInv, vars, life, outVars, inVars
<1>8. ASSUME NEW k \in 1 .. Len(writeOps), WriteDone(k) PROVE ReadInv'
  BY <1>8, PostStep, OnlyOne DEF WriteDone, ReadInv, vars, life, outVars, inVars
<1>9. ASSUME NEW k \in 1 .. Len(writeOps), WriteError(k) PROVE ReadInv'
  BY <1>9, PostStep, OnlyOne DEF WriteError, ReadInv, vars, life, outVars, inVars
<1>10. ASSUME RunStart PROVE ReadInv'
  BY <1>10, RunStep DEF RunStart, ReadInv, vars, life, outVars, inVars, DoRead
<1>11. ASSUME RunClose PROVE ReadInv'
  BY <1>11, RunStep DEF RunClose, ReadInv, vars, life, outVars, inVars
<1>12. ASSUME RunError PROVE ReadInv'
  BY <1>12, RunStep DEF RunError, ReadInv, vars, life, outVars, inVars, FailOnStrand
<1>13. ASSUME RunFrame PROVE ReadInv'
  BY <1>13, RunStep DEF RunFrame, ReadInv, vars, life, outVars, inVars
<1>14. ASSUME RunWritten PROVE ReadInv'
  BY <1>14, RunStep DEF RunWritten, ReadInv, vars, life, outVars, inVars
<1>15. ASSUME RunRead PROVE ReadInv'
  BY <1>15, RunStep DEF RunRead, ReadInv, vars, life, outVars, inVars
<1>16. ASSUME DoWrite PROVE ReadInv'
  BY <1>16 DEF DoWrite, ReadInv, vars, life, outVars, inVars
<1>17. ASSUME NextFrame PROVE ReadInv'
  BY <1>17 DEF NextFrame, ReadInv, vars, life, outVars, inVars, FailOnStrand
<1>18. ASSUME NeedMore PROVE ReadInv'
  BY <1>18 DEF NeedMore, ReadInv, vars, life, outVars, inVars, DoRead
<1>19. ASSUME FramingError PROVE ReadInv'
  BY <1>19 DEF FramingError, ReadInv, vars, life, outVars, inVars, FailOnStrand
<1>20. CASE UNCHANGED vars
  BY <1>20 DEF ReadInv, vars, life, outVars, inVars
<1>21. ASSUME PeerSends PROVE ReadInv'
  BY <1>21 DEF PeerSends, ReadInv, life, outVars
<1> QED
  BY <1>1, <1>2, <1>3, <1>4, <1>5, <1>6, <1>7, <1>8, <1>9, <1>10, <1>11, <1>12, <1>13, <1>14, <1>15,
     <1>16, <1>17, <1>18, <1>19, <1>20, <1>21 DEF Next, StrandStep

\* A step that leaves queue, wire and history alone, and takes no completion of a
\* write off the strand or puts one on it.
LEMMA OrderSame ==
  ASSUME ConnInv, UNCHANGED <<writeQueue, onWire, posted>>, stopped => stopped',
         Has(strand', "written") <=> Has(strand, "written"),
         ~stopped' => Lined(strand', posted, Taken)
  PROVE  OrderInv'
<1>1. Gone(strand', onWire') = Gone(strand, onWire)
  BY DEF Gone
<1> QED
  BY <1>1 DEF ConnInv, OrderInv, Taken

LEMMA LinedNow == ASSUME ConnInv, ~stopped PROVE Lined(strand, posted, Taken)
BY DEF ConnInv, OrderInv, Taken

LEMMA PostLined ==
  ASSUME ConnInv, NEW kind, kind # "frame", NEW arg, Post(kind, arg)
  PROVE  ~stopped => Lined(strand', posted, Taken)
<1> SUFFICES ASSUME ~stopped PROVE Lined(strand', posted, Taken)
  OBVIOUS
<1>1. IsSeq(strand) /\ strand' = Append(strand, Task(kind, arg))
  BY DEF ConnInv, TypeOK, Post
<1> QED
  BY <1>1, LinedNow, LinedPost

LEMMA RunLined ==
  ASSUME ConnInv, NEW kind, kind # "frame", Run(kind)
  PROVE  ~stopped => Lined(strand', posted, Taken)
<1> SUFFICES ASSUME ~stopped PROVE Lined(strand', posted, Taken)
  OBVIOUS
<1>1. IsSeq(strand) /\ strand # <<>> /\ Head(strand).kind = kind /\ strand' = Tail(strand)
  BY DEF ConnInv, TypeOK, Run
<1> QED
  BY <1>1, LinedNow, LinedTail

LEMMA OrderStep == ASSUME ConnInv, [Next]_vars PROVE OrderInv'
<1> USE DEF ConnInv
<1>1. ASSUME Start PROVE OrderInv'
  <2>1. Has(strand', "written") <=> Has(strand, "written")
    BY <1>1, PostStep DEF Start, life, outVars, inVars
  <2>2. ~stopped' => Lined(strand', posted, Taken)
    BY <1>1, PostStep, PostLined, LinedNow DEF Start, life, outVars, inVars, TypeOK
  <2> QED
    BY <1>1, <2>1, <2>2, OrderSame DEF Start, life, outVars, inVars, TypeOK
<1>2. ASSUME NEW f \in Outgoing, WriteFrame(f) PROVE OrderInv'
  <2>1. Has(strand', "written") <=> Has(strand, "written")
    BY <1>2 DEF WriteFrame, life, outVars, inVars
  <2>2. ~stopped' => Lined(strand', posted, Taken)
    BY <1>2, LinedNow DEF WriteFrame, life, outVars, inVars, TypeOK
  <2> QED
    BY <1>2, <2>1, <2>2, OrderSame DEF WriteFrame, life, outVars, inVars, TypeOK
<1>3. ASSUME NEW f \in Outgoing, PostFrame(f) PROVE OrderInv'
  <2>1. /\ Post("frame", <<f>>) /\ posted' = Append(posted, f)
        /\ UNCHANGED <<writeQueue, onWire, stopped>>
    BY <1>3 DEF PostFrame, life
  <2>2. IsSeq(strand) /\ posted \in Seq(Outgoing)
    BY DEF TypeOK
  <2>3. /\ Len(posted') = Len(posted) + 1
        /\ \A i \in 1 .. Len(posted) : posted'[i] = posted[i]
    BY <2>1, <2>2, AppendProperties
  <2>4. Gone(strand', onWire') = Gone(strand, onWire)
    BY <2>1, PostStep DEF Gone
  <2>5. ~stopped => Lined(strand', posted', Taken)
    BY <2>1, <2>2, LinedNow, LinedPostFrame, TakenType DEF Post
  <2>6. Taken' = Taken
    BY <2>1, <2>4 DEF Taken
  <2>7. Has(strand', "written") <=> Has(strand, "written")
    BY <2>1, PostStep
  <2>8. \A i \in 1 .. Len(onWire) : onWire[i] = posted'[i]
    BY <2>3, TakenType DEF OrderInv
  <2>9. \A j \in 1 .. Len(writeQueue) : writeQueue[j] = posted'[Gone(strand, onWire) + j]
    BY <2>3, TakenType DEF OrderInv, Taken
  <2>10. Len(onWire) <= Len(posted') /\ Taken <= Len(posted')
    BY <2>3, TakenType DEF OrderInv
  <2> QED
    BY <2>1, <2>4, <2>5, <2>6, <2>7, <2>8, <2>9, <2>10 DEF OrderInv, Taken
<1>4. ASSUME NEW t \in Stoppers, Stop(t) PROVE OrderInv'
  <2>1. Has(strand', "written") <=> Has(strand, "written")
    BY <1>4 DEF Stop, life, outVars, inVars
  <2>2. ~stopped' => Lined(strand', posted, Taken)
    BY <1>4, LinedNow DEF Stop, life, outVars, inVars, TypeOK
  <2> QED
    BY <1>4, <2>1, <2>2, OrderSame DEF Stop, life, outVars, inVars, TypeOK
<1>5. ASSUME NEW t \in Stoppers, CloseStreamOnStrand(t) PROVE OrderInv'
  <2>1. Has(strand', "written") <=> Has(strand, "written")
    BY <1>5, PostStep DEF CloseStreamOnStrand, life, outVars, inVars
  <2>2. ~stopped' => Lined(strand', posted, Taken)
    BY <1>5, PostStep, PostLined DEF CloseStreamOnStrand, life, outVars, inVars, TypeOK
  <2> QED
    BY <1>5, <2>1, <2>2, OrderSame DEF CloseStreamOnStrand, life, outVars, inVars, TypeOK
<1>6. ASSUME ReadSome PROVE OrderInv'
  <2>1. PICK arg : Post("read", arg)
    BY <1>6 DEF ReadSome
  <2>2. Has(strand', "written") <=> Has(strand, "written")
    BY <2>1, PostStep
  <2>3. ~stopped => Lined(strand', posted, Taken)
    BY <2>1, PostLined
  <2> QED
    BY <1>6, <2>2, <2>3, OrderSame DEF ReadSome, life, outVars, inVars
<1>7. ASSUME ReadError PROVE OrderInv'
  <2>1. Has(strand', "written") <=> Has(strand, "written")
    BY <1>7, PostStep DEF ReadError, life, outVars, inVars
  <2>2. ~stopped' => Lined(strand', posted, Taken)
    BY <1>7, PostStep, PostLined DEF ReadError, life, outVars, inVars, TypeOK
  <2> QED
    BY <1>7, <2>1, <2>2, OrderSame DEF ReadError, life, outVars, inVars, TypeOK
<1>8. ASSUME NEW k \in 1 .. Len(writeOps), WriteDone(k) PROVE OrderInv'
  <2>1. /\ Post("written", <<>>) /\ onWire' = Append(onWire, writeOps[k])
        /\ UNCHANGED <<writeQueue, posted, stopped>>
    BY <1>8 DEF WriteDone, life
  <2>2. writeOps # <<>> /\ writeOps[k] = writeOps[1]
    BY OnlyOne DEF WriteInv
  <2>3. writeQueue # <<>> /\ writeOps[1] = writeQueue[1] /\ ~Has(strand, "written")
    BY <2>2, QueueEnds DEF WriteInv
  <2>4. Len(writeQueue) \in Nat /\ Len(writeQueue) >= 1 /\ writeQueue[1] \in Outgoing
    BY <2>3, QueueEnds
  <2>5. Gone(strand, onWire) = Len(onWire) /\ Len(onWire) \in Nat /\ Len(posted) \in Nat
    BY <2>3, TakenType DEF Gone
  <2>6. /\ Len(onWire') = Len(onWire) + 1
        /\ \A i \in 1 .. Len(onWire) : onWire'[i] = onWire[i]
        /\ onWire'[Len(onWire) + 1] = writeQueue[1]
    BY <2>1, <2>2, <2>3, <2>4, AppendProperties DEF TypeOK
  <2>7. Has(strand', "written")
    BY <2>1, PostStep
  <2>8. Gone(strand', onWire') = Len(onWire)
    BY <2>5, <2>6, <2>7 DEF Gone
  <2>9. writeQueue[1] = posted[Len(onWire) + 1] /\ Len(onWire) + Len(writeQueue) <= Len(posted)
    BY <2>4, <2>5 DEF OrderInv
  <2>10. Len(onWire') <= Len(posted)
    BY <2>4, <2>5, <2>6, <2>9
  <2>11. \A i \in 1 .. Len(onWire') : onWire'[i] = posted[i]
    <3> SUFFICES ASSUME NEW i \in 1 .. Len(onWire') PROVE onWire'[i] = posted[i]
      OBVIOUS
    <3>1. CASE i = Len(onWire) + 1
      BY <2>6, <2>9, <3>1
    <3>2. CASE i \in 1 .. Len(onWire)
      BY <2>6, <3>2 DEF OrderInv
    <3> QED
      BY <2>5, <2>6, <3>1, <3>2
  <2>12. ~stopped => Lined(strand', posted, Len(onWire) + Len(writeQueue))
    BY <2>1, <2>5, PostLined DEF Taken
  <2>13. Len(onWire') >= 1
    BY <2>5, <2>6
  <2>14. \A j \in 1 .. Len(writeQueue) : writeQueue[j] = posted[Len(onWire) + j]
    BY <2>5 DEF OrderInv
  <2> QED
    BY <2>1, <2>8, <2>9, <2>10, <2>11, <2>12, <2>13, <2>14 DEF OrderInv
<1>9. ASSUME NEW k \in 1 .. Len(writeOps), WriteError(k) PROVE OrderInv'
  <2>1. Has(strand', "written") <=> Has(strand, "written")
    BY <1>9, PostStep DEF WriteError, life, outVars, inVars
  <2>2. ~stopped' => Lined(strand', posted, Taken)
    BY <1>9, PostStep, PostLined DEF WriteError, life, outVars, inVars, TypeOK
  <2> QED
    BY <1>9, <2>1, <2>2, OrderSame DEF WriteError, life, outVars, inVars, TypeOK
<1>10. ASSUME RunStart PROVE OrderInv'
  <2>1. Has(strand', "written") <=> Has(strand, "written")
    BY <1>10, RunStep DEF RunStart, life, outVars, inVars
  <2>2. ~stopped' => Lined(strand', posted, Taken)
    BY <1>10, RunStep, RunLined DEF RunStart, life, outVars, inVars, TypeOK
  <2> QED
    BY <1>10, <2>1, <2>2, OrderSame DEF RunStart, life, outVars, inVars, TypeOK
<1>11. ASSUME RunClose PROVE OrderInv'
  <2>1. Has(strand', "written") <=> Has(strand, "written")
    BY <1>11, RunStep DEF RunClose, life, outVars, inVars
  <2>2. ~stopped' => Lined(strand', posted, Taken)
    BY <1>11, RunStep, RunLined DEF RunClose, life, outVars, inVars, TypeOK
  <2> QED
    BY <1>11, <2>1, <2>2, OrderSame DEF RunClose, life, outVars, inVars, TypeOK
<1>12. ASSUME RunError PROVE OrderInv'
  <2>1. Has(strand', "written") <=> Has(strand, "written")
    BY <1>12, RunStep DEF RunError, life, outVars, inVars, FailOnStrand
  <2>2. ~stopped' => Lined(strand', posted, Taken)
    BY <1>12, RunStep, RunLined DEF RunError, life, outVars, inVars, FailOnStrand, TypeOK
  <2> QED
    BY <1>12, <2>1, <2>2, OrderSame DEF RunError, life, outVars, inVars, FailOnStrand, TypeOK
<1>13. ASSUME RunFrame PROVE OrderInv'
  <2>1. /\ Run("frame") /\ UNCHANGED <<onWire, posted, stopped>>
    BY <1>13 DEF RunFrame, life
  <2>2. Has(strand', "written") <=> Has(strand, "written")
    BY <2>1, RunStep
  <2>3. CASE stopped
    BY <1>13, <2>1, <2>2, <2>3, OrderSame DEF RunFrame
  <2>4. CASE ~stopped
    <3>1. /\ Taken + 1 \in 1 .. Len(posted) /\ posted[Taken + 1] \in Outgoing
          /\ writeQueue' = Append(writeQueue, posted[Taken + 1])
          /\ Lined(strand', posted, Taken + 1)
      BY <1>13, <2>1, <2>4, FrameNext DEF RunFrame
    <3>2. /\ Len(writeQueue') = Len(writeQueue) + 1
          /\ \A i \in 1 .. Len(writeQueue) : writeQueue'[i] = writeQueue[i]
          /\ writeQueue'[Len(writeQueue) + 1] = posted[Taken + 1]
      BY <3>1, AppendProperties DEF TypeOK
    <3>3. Gone(strand', onWire') = Gone(strand, onWire)
      BY <2>1, <2>2 DEF Gone
    <3>4. /\ Gone(strand, onWire) \in Nat /\ Len(writeQueue) \in Nat /\ Len(posted) \in Nat
          /\ Taken = Gone(strand, onWire) + Len(writeQueue)
      BY TakenType DEF Taken
    <3>5. Gone(strand, onWire) + Len(writeQueue') = Taken + 1 /\ Taken + 1 <= Len(posted)
      BY <3>1, <3>2, <3>4
    <3>6. \A j \in 1 .. Len(writeQueue') : writeQueue'[j] = posted[Gone(strand, onWire) + j]
      <4> SUFFICES ASSUME NEW j \in 1 .. Len(writeQueue')
                   PROVE  writeQueue'[j] = posted[Gone(strand, onWire) + j]
        OBVIOUS
      <4>1. CASE j = Len(writeQueue) + 1
        <5>1. Gone(strand, onWire) + j = Taken + 1
          BY <3>4, <4>1
        <5> QED
          BY <3>2, <4>1, <5>1
      <4>2. CASE j \in 1 .. Len(writeQueue)
        BY <3>2, <4>2 DEF OrderInv
      <4> QED
        BY <3>2, <3>4, <4>1, <4>2
    <3> QED
      BY <2>1, <2>2, <3>1, <3>3, <3>5, <3>6 DEF OrderInv
  <2> QED
    BY <2>3, <2>4
<1>14. ASSUME RunWritten PROVE OrderInv'
  <2>1. /\ Run("written") /\ writeQueue' = Tail(writeQueue)
        /\ UNCHANGED <<onWire, posted, stopped>>
    BY <1>14 DEF RunWritten, life
  <2>2. Has(strand, "written") /\ ~Has(strand', "written") /\ writeQueue # <<>>
    BY <2>1, RunStep DEF WriteInv
  <2>3. /\ Len(writeQueue) \in Nat /\ Len(writeQueue) >= 1 /\ Len(writeQueue') = Len(writeQueue) - 1
        /\ \A i \in 1 .. Len(writeQueue') : writeQueue'[i] = writeQueue[i + 1]
    BY <2>1, <2>2, QueueEnds
  <2>4. Gone(strand, onWire) = Len(onWire) - 1 /\ Gone(strand', onWire') = Len(onWire)
    BY <2>1, <2>2 DEF Gone
  <2>5. Len(onWire) \in Nat /\ Len(posted) \in Nat
    BY TakenType
  <2>6. Gone(strand', onWire') + Len(writeQueue') = Taken
    BY <2>3, <2>4, <2>5 DEF Taken
  <2>7. \A j \in 1 .. Len(writeQueue') : writeQueue'[j] = posted[Len(onWire) + j]
    <3> SUFFICES ASSUME NEW j \in 1 .. Len(writeQueue')
                 PROVE  writeQueue'[j] = posted[Len(onWire) + j]
      OBVIOUS
    <3>1. j + 1 \in 1 .. Len(writeQueue) /\ (Len(onWire) - 1) + (j + 1) = Len(onWire) + j
      BY <2>3, <2>5
    <3>2. writeQueue[j + 1] = posted[(Len(onWire) - 1) + (j + 1)]
      BY <2>4, <3>1 DEF OrderInv
    <3> QED
      BY <2>3, <3>1, <3>2
  <2>8. ~stopped => Lined(strand', posted, Taken)
    BY <2>1, RunLined
  <2>9. Taken <= Len(posted)
    BY TakenType
  <2> QED
    BY <2>1, <2>2, <2>4, <2>6, <2>7, <2>8, <2>9 DEF OrderInv
<1>15. ASSUME RunRead PROVE OrderInv'
  <2>1. Has(strand', "written") <=> Has(strand, "written")
    BY <1>15, RunStep DEF RunRead, life, outVars, inVars
  <2>2. ~stopped' => Lined(strand', posted, Taken)
    BY <1>15, RunStep, RunLined DEF RunRead, life, outVars, inVars, TypeOK
  <2> QED
    BY <1>15, <2>1, <2>2, OrderSame DEF RunRead, life, outVars, inVars, TypeOK
<1>16. ASSUME DoWrite PROVE OrderInv'
  <2>1. Has(strand', "written") <=> Has(strand, "written")
    BY <1>16 DEF DoWrite, life, outVars, inVars
  <2>2. ~stopped' => Lined(strand', posted, Taken)
    BY <1>16, LinedNow DEF DoWrite, life, outVars, inVars, TypeOK
  <2> QED
    BY <1>16, <2>1, <2>2, OrderSame DEF DoWrite, life, outVars, inVars, TypeOK
<1>17. ASSUME NextFrame PROVE OrderInv'
  <2>1. Has(strand', "written") <=> Has(strand, "written")
    BY <1>17 DEF NextFrame, life, outVars, inVars, FailOnStrand
  <2>2. ~stopped' => Lined(strand', posted, Taken)
    BY <1>17, LinedNow DEF NextFrame, life, outVars, inVars, FailOnStrand, TypeOK
  <2> QED
    BY <1>17, <2>1, <2>2, OrderSame DEF NextFrame, life, outVars, inVars, FailOnStrand, TypeOK
<1>18. ASSUME NeedMore PROVE OrderInv'
  <2>1. Has(strand', "written") <=> Has(strand, "written")
    BY <1>18 DEF NeedMore, life, outVars, inVars
  <2>2. ~stopped' => Lined(strand', posted, Taken)
    BY <1>18, LinedNow DEF NeedMore, life, outVars, inVars, TypeOK
  <2> QED
    BY <1>18, <2>1, <2>2, OrderSame DEF NeedMore, life, outVars, inVars, TypeOK
<1>19. ASSUME FramingError PROVE OrderInv'
  <2>1. Has(strand', "written") <=> Has(strand, "written")
    BY <1>19 DEF FramingError, life, outVars, inVars, FailOnStrand
  <2>2. ~stopped' => Lined(strand', posted, Taken)
    BY <1>19, LinedNow DEF FramingError, life, outVars, inVars, FailOnStrand, TypeOK
  <2> QED
    BY <1>19, <2>1, <2>2, OrderSame DEF FramingError, life, outVars, inVars, FailOnStrand, TypeOK
<1>20. CASE UNCHANGED vars
  BY <1>20 DEF OrderInv, vars, life, outVars, inVars, Gone
<1>21. ASSUME PeerSends PROVE OrderInv'
  BY <1>21 DEF PeerSends, OrderInv, life, outVars, Gone
<1> QED
  BY <1>1, <1>2, <1>3, <1>4, <1>5, <1>6, <1>7, <1>8, <1>9, <1>10, <1>11, <1>12, <1>13, <1>14, <1>15,
     <1>16, <1>17, <1>18, <1>19, <1>20, <1>21 DEF Next, StrandStep

LEMMA ConnStep == ConnInv /\ [Next]_vars => ConnInv'
BY TypeStep, WriteStep, ReadStep, OrderStep DEF ConnInv

LEMMA ConnInvAlways == Spec => []ConnInv
BY InitInv, ConnStep, PTL DEF Spec

-----------------------------------------------------------------------------
(* What follows for the connection.                                        *)

\* writeFrame and doWrite: the frames on the wire are the first of those that were
\* posted, in their order, and no two async_writes are under way at once, for any
\* number of threads that write and stop.
THEOREM WireInOrderAlways == Spec => []WireInOrder
<1>1. ASSUME ConnInv PROVE WireInOrder
  <2> USE <1>1 DEF ConnInv
  <2>1. /\ onWire \in Seq(Outgoing) /\ posted \in Seq(Outgoing)
        /\ Len(onWire) \in Nat /\ Len(posted) \in Nat /\ Len(onWire) <= Len(posted)
    BY TakenType DEF TypeOK, OrderInv
  <2>2. SubSeq(onWire, 1, Len(onWire)) = SubSeq(posted, 1, Len(onWire))
    <3>1. SubSeq(onWire, 1, Len(onWire)) = [i \in 1 .. Len(onWire) |-> onWire[i]]
      BY <2>1
    <3>2. SubSeq(posted, 1, Len(onWire)) = [i \in 1 .. Len(onWire) |-> posted[i]]
      BY <2>1
    <3> QED
      BY <3>1, <3>2 DEF OrderInv
  <2>3. IsPrefix(onWire, posted)
    BY <2>1, <2>2 DEF IsPrefix
  <2>4. \A kind : Queued(kind) = At(strand, kind)
    BY DEF Queued, At
  <2> QED
    BY <2>3, <2>4 DEF WireInOrder, WriteInv, Has, One
<1> QED
  BY <1>1, ConnInvAlways, PTL

\* m_writing and doRead: as long as nobody stopped the connection, a queued frame is
\* being written and the next read is under way or about to be, or the error that
\* will stop the connection is queued.
THEOREM NeverStallsAlways == Spec => []NeverStalls
<1>1. ASSUME ConnInv PROVE NeverStalls
  <2> USE <1>1 DEF ConnInv
  <2>1. \A kind : Queued(kind) = At(strand, kind)
    BY DEF Queued, At
  <2>2. Len(writeOps) \in Nat /\ (writeOps # <<>> => Len(writeOps) # 0)
    BY LenProperties, EmptySeq DEF TypeOK
  <2>3. writeOps # <<>> => Len(writeOps) = 1
    BY <2>2 DEF WriteInv
  <2> QED
    BY <2>1, <2>3 DEF NeverStalls, WriteInv, ReadInv, Has
<1> QED
  BY <1>1, ConnInvAlways, PTL

-----------------------------------------------------------------------------
(* The bytes of the peer: which sequence is where in which other one.      *)

Octets == Nat

\* The sequence s is in t, from behind its first p elements.
Within(s, t, p) == p + Len(s) <= Len(t) /\ \A i \in 1 .. Len(s) : s[i] = t[p + i]

LEMMA Concat ==
  ASSUME NEW S, NEW s \in Seq(S), NEW t \in Seq(S), NEW m, m = Len(s), NEW n, n = Len(t), NEW x, x = s \o t
  PROVE  /\ x \in Seq(S) /\ Len(x) = m + n /\ m \in Nat /\ n \in Nat
         /\ \A i \in 1 .. m : x[i] = s[i]
         /\ \A i \in 1 .. n : x[m + i] = t[i]
<1>1. m \in Nat /\ n \in Nat
  BY LenProperties
<1>2. /\ x \in Seq(S) /\ Len(x) = m + n
      /\ \A i \in 1 .. m + n : x[i] = IF i <= m THEN s[i] ELSE t[i - m]
  BY ConcatProperties
<1>3. \A i \in 1 .. m : i \in 1 .. m + n /\ i <= m
  BY <1>1
<1>4. \A i \in 1 .. n : m + i \in 1 .. m + n /\ ~(m + i <= m) /\ m + i - m = i
  BY <1>1
<1>5. \A i \in 1 .. m : x[i] = s[i]
  BY <1>2, <1>3
<1>6. \A i \in 1 .. n : x[m + i] = t[i]
  BY <1>2, <1>4
<1> QED  BY <1>1, <1>2, <1>5, <1>6

\* Where a sequence is stays so when the other one grows ...
LEMMA WithinLonger ==
  ASSUME NEW S, NEW s \in Seq(S), NEW t \in Seq(S), NEW w \in Seq(S), NEW p \in Nat, Within(s, t, p)
  PROVE  Within(s, t \o w, p)
<1>1. PICK x : x = t \o w
  OBVIOUS
<1>2. PICK l \in Nat, m \in Nat, n \in Nat : l = Len(s) /\ m = Len(t) /\ n = Len(w)
  BY LenProperties
<1>3. Len(x) = m + n /\ \A i \in 1 .. m : x[i] = t[i]
  BY <1>1, <1>2, Concat
<1>4. p + l <= m /\ \A i \in 1 .. l : s[i] = t[p + i]
  BY <1>2 DEF Within
<1>5. p + l <= m + n /\ \A i \in 1 .. l : p + i \in 1 .. m
  BY <1>4
<1>6. p + Len(s) <= Len(x) /\ \A i \in 1 .. Len(s) : s[i] = x[p + i]
  BY <1>2, <1>3, <1>4, <1>5
<1> QED  BY <1>1, <1>6 DEF Within

\* ... and what is at its end grows with it.
LEMMA WithinEnd ==
  ASSUME NEW S, NEW s \in Seq(S), NEW t \in Seq(S), NEW w \in Seq(S), NEW p \in Nat, Within(s, t, p),
         p + Len(s) = Len(t)
  PROVE  Within(s \o w, t \o w, p) /\ p + Len(s \o w) = Len(t \o w)
<1>1. PICK x, y : x = t \o w /\ y = s \o w
  OBVIOUS
<1>2. PICK l \in Nat, m \in Nat, n \in Nat : l = Len(s) /\ m = Len(t) /\ n = Len(w)
  BY LenProperties
<1>3. Len(x) = m + n /\ (\A i \in 1 .. m : x[i] = t[i]) /\ \A i \in 1 .. n : x[m + i] = w[i]
  BY <1>1, <1>2, Concat
<1>4. Len(y) = l + n /\ (\A i \in 1 .. l : y[i] = s[i]) /\ \A i \in 1 .. n : y[l + i] = w[i]
  BY <1>1, <1>2, Concat
<1>5. p + l = m /\ \A i \in 1 .. l : s[i] = t[p + i]
  BY <1>2 DEF Within
<1>6. p + (l + n) = m + n
  BY <1>5
<1>7. ASSUME NEW i \in 1 .. l + n PROVE y[i] = x[p + i]
  <2>1. CASE i <= l
    <3>1. i \in 1 .. l /\ p + i \in 1 .. m
      BY <1>5, <2>1
    <3> QED  BY <3>1, <1>3, <1>4, <1>5
  <2>2. CASE ~(i <= l)
    <3>1. PICK d \in Nat : d = i - l
      BY <2>2
    <3>2. d \in 1 .. n /\ l + d = i /\ m + d = p + i
      BY <3>1, <2>2, <1>5
    <3> QED  BY <3>2, <1>3, <1>4
  <2> QED  BY <2>1, <2>2
<1>8. p + Len(y) = Len(x) /\ Len(x) \in Nat /\ \A i \in 1 .. Len(y) : y[i] = x[p + i]
  BY <1>3, <1>4, <1>6, <1>7
<1>9. p + Len(y) <= Len(x)
  BY <1>8
<1> QED  BY <1>1, <1>8, <1>9 DEF Within

\* Two neighbours are one.
LEMMA WithinJoin ==
  ASSUME NEW S, NEW s \in Seq(S), NEW r \in Seq(S), NEW t \in Seq(S), NEW p \in Nat,
         Within(s, t, p), Within(r, t, p + Len(s))
  PROVE  Within(s \o r, t, p) /\ Len(s \o r) = Len(s) + Len(r)
<1>1. PICK y : y = s \o r
  OBVIOUS
<1>2. PICK l \in Nat, m \in Nat, n \in Nat : l = Len(s) /\ m = Len(t) /\ n = Len(r)
  BY LenProperties
<1>3. Len(y) = l + n /\ (\A i \in 1 .. l : y[i] = s[i]) /\ \A i \in 1 .. n : y[l + i] = r[i]
  BY <1>1, <1>2, Concat
<1>4. /\ \A i \in 1 .. l : s[i] = t[p + i]
      /\ p + l + n <= m /\ \A i \in 1 .. n : r[i] = t[p + l + i]
  BY <1>2 DEF Within
<1>5. p + (l + n) <= m
  BY <1>4
<1>6. ASSUME NEW i \in 1 .. l + n PROVE y[i] = t[p + i]
  <2>1. CASE i <= l
    <3>1. i \in 1 .. l
      BY <2>1
    <3> QED  BY <3>1, <1>3, <1>4
  <2>2. CASE ~(i <= l)
    <3>1. PICK d \in Nat : d = i - l
      BY <2>2
    <3>2. d \in 1 .. n /\ l + d = i /\ p + l + d = p + i
      BY <3>1, <2>2
    <3> QED  BY <3>2, <1>3, <1>4
  <2> QED  BY <2>1, <2>2
<1> QED  BY <1>1, <1>2, <1>3, <1>5, <1>6 DEF Within

\* What is cut at n stays where it was.
LEMMA WithinCut ==
  ASSUME NEW S, NEW s \in Seq(S), NEW t \in Seq(S), NEW p \in Nat, Within(s, t, p), NEW n \in Nat, n <= Len(s)
  PROVE  /\ SubSeq(s, 1, n) \in Seq(S) /\ Len(SubSeq(s, 1, n)) = n
         /\ SubSeq(s, n + 1, Len(s)) \in Seq(S) /\ Len(SubSeq(s, n + 1, Len(s))) = Len(s) - n
         /\ Within(SubSeq(s, 1, n), t, p) /\ Within(SubSeq(s, n + 1, Len(s)), t, p + n)
<1>1. PICK x, y : x = SubSeq(s, 1, n) /\ y = SubSeq(s, n + 1, Len(s))
  OBVIOUS
<1>2. PICK l \in Nat, m \in Nat : l = Len(s) /\ m = Len(t)
  BY LenProperties
<1>3. n <= l /\ p + l <= m /\ \A i \in 1 .. l : s[i] \in S /\ s[i] = t[p + i]
  BY <1>2, ElementOfSeq DEF Within
<1>4. /\ 1 \in Int /\ n \in Int /\ n + 1 \in Int /\ l \in Int
      /\ \A i \in 1 .. n : i \in 1 .. l
      /\ \A i \in n + 1 .. l : i \in 1 .. l
  BY <1>3
<1>5. /\ x \in Seq(S) /\ Len(x) = IF 1 <= n THEN n - 1 + 1 ELSE 0
      /\ \A i \in 1 .. n - 1 + 1 : x[i] = s[1 + i - 1]
  BY <1>1, <1>3, <1>4, SubSeqProperties
<1>6. /\ y \in Seq(S) /\ Len(y) = IF n + 1 <= l THEN l - (n + 1) + 1 ELSE 0
      /\ \A i \in 1 .. l - (n + 1) + 1 : y[i] = s[n + 1 + i - 1]
  BY <1>1, <1>2, <1>3, <1>4, SubSeqProperties
<1>7. Len(x) = n /\ Len(y) = l - n /\ n - 1 + 1 = n /\ l - (n + 1) + 1 = l - n
  <2>1. /\ n - 1 + 1 = n /\ l - (n + 1) + 1 = l - n
        /\ (IF 1 <= n THEN n - 1 + 1 ELSE 0) = n
        /\ (IF n + 1 <= l THEN l - (n + 1) + 1 ELSE 0) = l - n
    <3>1. n <= l
      BY <1>3
    <3> QED  BY <3>1
  <2> QED  BY <2>1, <1>5, <1>6
<1>8. ASSUME NEW i \in 1 .. n PROVE x[i] = t[p + i]
  <2>1. 1 + i - 1 = i /\ i \in 1 .. l
    BY <1>3
  <2> QED  BY <2>1, <1>3, <1>5, <1>7
<1>9. ASSUME NEW i \in 1 .. l - n PROVE y[i] = t[p + n + i]
  <2>1. n + 1 + i - 1 = n + i /\ n + i \in 1 .. l /\ p + (n + i) = p + n + i
    BY <1>3
  <2> QED  BY <2>1, <1>3, <1>6, <1>7
<1>10. p + n <= m /\ p + n + (l - n) <= m
  BY <1>3
<1>11. Within(x, t, p)
  BY <1>2, <1>7, <1>8, <1>10 DEF Within
<1>12. Within(y, t, p + n)
  BY <1>2, <1>7, <1>9, <1>10 DEF Within
<1> QED  BY <1>1, <1>2, <1>5, <1>6, <1>7, <1>11, <1>12

-----------------------------------------------------------------------------
(* A frame of the peer.                                                    *)

LEMMA BodyType ==
  ASSUME NEW j \in 1 .. Len(BodyLen)
  PROVE  /\ BodyLen[j] \in Nat /\ Bytes(j) \in Seq(Octets) /\ Len(Bytes(j)) = 2 + BodyLen[j]
         /\ Bytes(j)[1] = 0 /\ Bytes(j)[2] = BodyLen[j]
         /\ \A i \in 1 .. BodyLen[j] : Bytes(j)[2 + i] = j
         /\ Body(j) \in Seq(Octets) /\ Len(Body(j)) = BodyLen[j] /\ \A i \in 1 .. BodyLen[j] : Body(j)[i] = j
<1>1. PICK n \in Nat : n = BodyLen[j]
  BY FramesAssumption, ElementOfSeq
<1>2. j \in Nat
  BY FramesAssumption, LenProperties
<1>3. PICK h, b, w : h = Header(n) /\ b = Body(j) /\ w = Bytes(j)
  OBVIOUS
<1>4. w = h \o b
  BY <1>1, <1>3 DEF Bytes
<1>5. h \in Seq(Octets) /\ Len(h) = 2 /\ h[1] = 0 /\ h[2] = n
  BY <1>1, <1>3 DEF Header, Octets
<1>6. b = [i \in 1 .. n |-> j]
  BY <1>1, <1>3 DEF Body
<1>7. b \in Seq(Octets) /\ Len(b) = n /\ \A i \in 1 .. n : b[i] = j
  BY <1>1, <1>2, <1>6 DEF Octets
<1>8. /\ w \in Seq(Octets) /\ Len(w) = 2 + n
      /\ \A i \in 1 .. 2 : w[i] = h[i]
      /\ \A i \in 1 .. n : w[2 + i] = b[i]
  <2>0. h \in Seq(Octets) /\ b \in Seq(Octets)
    BY <1>5, <1>7
  <2>1. /\ w \in Seq(Octets) /\ Len(w) = Len(h) + Len(b)
        /\ \A i \in 1 .. Len(h) : w[i] = h[i]
        /\ \A i \in 1 .. Len(b) : w[Len(h) + i] = b[i]
    BY <1>4, <2>0, Concat
  <2> QED  BY <2>1, <1>5, <1>7
<1>9. w[1] = 0 /\ w[2] = n
  BY <1>5, <1>8
<1> QED  BY <1>1, <1>3, <1>7, <1>8, <1>9

\* The first a frames of the peer as one sequence of bytes, in which frame j ends
\* at off[j].
Laid(a, all, off) ==
  /\ all \in Seq(Octets) /\ off \in [0 .. a -> Nat] /\ off[a] = Len(all)
  /\ \A j \in 1 .. a : off[j] = off[j-1] + 2 + BodyLen[j] /\ Within(Bytes(j), all, off[j-1])

LEMMA LaidNext ==
  ASSUME NEW a \in Nat, a + 1 \in 1 .. Len(BodyLen), NEW all, NEW off, Laid(a, all, off)
  PROVE  \E o : Laid(a + 1, all \o Bytes(a + 1), o) /\ \A j \in 0 .. a : o[j] = off[j]
<1>0. PICK n \in Nat : n = a + 1
  OBVIOUS
<1>1. PICK w, u : n = a + 1 /\ w = Bytes(n) /\ u = all \o w
  BY <1>0
<1>2. n \in 1 .. Len(BodyLen) /\ n - 1 = a /\ n # 0 /\ a \in 0 .. a
  BY <1>1
<1>3. PICK b \in Nat : b = BodyLen[n]
  BY <1>2, BodyType
<1>4. w \in Seq(Octets) /\ Len(w) = 2 + b
  BY <1>1, <1>2, <1>3, BodyType
<1>5. /\ all \in Seq(Octets) /\ off \in [0 .. a -> Nat] /\ off[a] = Len(all)
      /\ \A j \in 1 .. a : off[j] = off[j-1] + 2 + BodyLen[j] /\ Within(Bytes(j), all, off[j-1])
  BY DEF Laid
<1>6. PICK m \in Nat : m = Len(all)
  BY <1>5, LenProperties
<1>7. u \in Seq(Octets) /\ Len(u) = m + (2 + b) /\ \A i \in 1 .. 2 + b : u[m + i] = w[i]
  <2>1. /\ u \in Seq(Octets) /\ Len(u) = Len(all) + Len(w)
        /\ \A i \in 1 .. Len(w) : u[Len(all) + i] = w[i]
    BY <1>1, <1>4, <1>5, Concat
  <2> QED  BY <2>1, <1>4, <1>6
<1>8. PICK o : o = [j \in 0 .. n |-> IF j = n THEN m + (2 + b) ELSE off[j]]
  OBVIOUS
<1>9. \A j \in 0 .. a : j \in 0 .. n /\ j # n
  BY <1>1
<1>10. \A j \in 0 .. n : j # n => j \in 0 .. a
  BY <1>1
<1>11. n \in 0 .. n /\ m + (2 + b) \in Nat
  BY <1>1
<1>12. o \in [0 .. n -> Nat] /\ o[n] = m + (2 + b) /\ \A j \in 0 .. a : o[j] = off[j]
  BY <1>5, <1>8, <1>9, <1>10, <1>11
<1>13. o[n - 1] = m
  BY <1>2, <1>5, <1>6, <1>12
<1>14. Within(w, u, m)
  <2>1. m + (2 + b) <= m + (2 + b)
    OBVIOUS
  <2> QED  BY <1>4, <1>7, <2>1 DEF Within
<1>15. ASSUME NEW j \in 1 .. n PROVE o[j] = o[j-1] + 2 + BodyLen[j] /\ Within(Bytes(j), u, o[j-1])
  <2>1. CASE j = n
    <3>1. m + (2 + b) = m + 2 + b
      OBVIOUS
    <3> QED  BY <2>1, <3>1, <1>1, <1>3, <1>12, <1>13, <1>14
  <2>2. CASE j # n
    <3>1. j \in 1 .. a /\ j \in 0 .. a /\ j - 1 \in 0 .. a
      BY <1>1, <2>2
    <3>2. o[j] = off[j] /\ o[j-1] = off[j-1] /\ off[j-1] \in Nat
      BY <1>5, <1>12, <3>1
    <3>3. off[j] = off[j-1] + 2 + BodyLen[j] /\ Within(Bytes(j), all, off[j-1])
      BY <1>5, <3>1
    <3>4. j \in 1 .. Len(BodyLen)
      <4>1. Len(BodyLen) \in Nat
        BY FramesAssumption, LenProperties
      <4> QED  BY <4>1, <3>1, <1>1, <1>2
    <3>5. Bytes(j) \in Seq(Octets)
      BY <3>4, BodyType
    <3>6. Within(Bytes(j), u, off[j-1])
      BY <1>1, <1>4, <1>5, <3>2, <3>3, <3>5, WithinLonger
    <3> QED  BY <3>2, <3>3, <3>6
  <2> QED  BY <2>1, <2>2
<1>16. Laid(n, u, o)
  BY <1>7, <1>12, <1>15 DEF Laid
<1> QED  BY <1>1, <1>12, <1>16

-----------------------------------------------------------------------------
(* The bytes of a connection: the buffer begins where a frame of the peer   *)
(* does, what a read brought comes next, and what is unread is the end.     *)

\* What the reads that completed have brought.
Reads(s) == {s[k].arg : k \in At(s, "read")}

\* Where the bytes are that the connection holds, when the buffer begins at base; a
\* stopped connection may have dropped some that it read.
Placed(all, base) ==
  /\ Within(buf, all, base)
  /\ \E p \in Nat :
       /\ Within(inbound, all, p) /\ p + Len(inbound) = Len(all)
       /\ ~stopped /\ Reads(strand) = {} => base + Len(buf) = p
       /\ ~stopped => \A r \in Reads(strand) : /\ r \in Seq(Octets) /\ base + Len(buf) + Len(r) = p
                                               /\ Within(r, all, base + Len(buf))

BytesTyped ==
  /\ arriving \in 0 .. Len(BodyLen) /\ buf \in Seq(Octets) /\ inbound \in Seq(Octets)
  /\ extracted \in Seq(Seq(Octets)) /\ Len(extracted) <= arriving

StreamInv ==
  /\ BytesTyped /\ FramesReassembled
  /\ \E all, off : Laid(arriving, all, off) /\ Placed(all, off[Len(extracted)])

LEMMA ReadsPost ==
  ASSUME TypeOK, NEW kind, kind # "read", NEW arg, Post(kind, arg)
  PROVE  Reads(strand') = Reads(strand)
<1>1. IsSeq(strand) /\ strand' = Append(strand, Task(kind, arg))
  BY DEF TypeOK, Post
<1>2. At(strand', "read") = At(strand, "read")
  BY <1>1, PostAt
<1>3. \A k \in At(strand, "read") : strand'[k] = strand[k]
  BY <1>1, PostShape DEF At
<1> QED  BY <1>2, <1>3 DEF Reads

LEMMA ReadsRun ==
  ASSUME TypeOK, NEW kind, kind # "read", Run(kind)
  PROVE  Reads(strand') = Reads(strand)
<1>1. IsSeq(strand) /\ strand # <<>> /\ Head(strand).kind = kind /\ strand' = Tail(strand)
  BY DEF TypeOK, Run
<1>2. /\ \A i \in At(strand', "read") : i \in Nat /\ i >= 1 /\ i + 1 \in At(strand, "read")
      /\ \A i \in At(strand, "read") : i \in Nat /\ i >= 1 /\ i # 1 /\ i - 1 \in At(strand', "read")
  BY <1>1, TailAt
<1>3. \A i \in At(strand', "read") : strand'[i] = strand[i + 1]
  BY <1>1, TailShape DEF At
<1>4. \A i \in At(strand, "read") : strand'[i - 1] = strand[i]
  <2>1. \A i \in At(strand, "read") : strand'[i - 1] = strand[(i - 1) + 1] /\ (i - 1) + 1 = i
    BY <1>2, <1>3
  <2> QED  BY <2>1
<1> QED  BY <1>2, <1>3, <1>4 DEF Reads

\* A step that neither sends, reads nor extracts.
LEMMA StreamSame ==
  ASSUME StreamInv, UNCHANGED <<arriving, inbound, buf, extracted>>, Reads(strand') = Reads(strand),
         stopped => stopped'
  PROVE  StreamInv'
<1>1. PICK all, off : Laid(arriving, all, off) /\ Placed(all, off[Len(extracted)])
  BY DEF StreamInv
<1>2. Laid(arriving, all, off)'
  BY <1>1 DEF Laid
<1>3. Placed(all, off[Len(extracted)])'
  BY <1>1 DEF Placed
<1>4. BytesTyped' /\ FramesReassembled'
  BY DEF StreamInv, BytesTyped, FramesReassembled
<1> QED  BY <1>2, <1>3, <1>4 DEF StreamInv

LEMMA StreamTypes ==
  ASSUME StreamInv, NEW all, NEW off, Laid(arriving, all, off), Placed(all, off[Len(extracted)])
  PROVE  /\ arriving \in Nat /\ Len(extracted) \in Nat /\ Len(extracted) \in 0 .. arriving
         /\ off[Len(extracted)] \in Nat /\ all \in Seq(Octets) /\ Len(all) \in Nat
         /\ Len(buf) \in Nat /\ Len(inbound) \in Nat
<1>1. Len(extracted) \in Nat /\ Len(buf) \in Nat /\ Len(inbound) \in Nat /\ Len(BodyLen) \in Nat
  BY LenProperties, FramesAssumption DEF StreamInv, BytesTyped
<1>2. arriving \in Nat /\ Len(extracted) \in 0 .. arriving
  BY <1>1 DEF StreamInv, BytesTyped
<1> QED  BY <1>1, <1>2, LenProperties DEF Laid

\* PeerSends lays the next frame behind the others.
LEMMA StreamSends == ASSUME StreamInv, PeerSends PROVE StreamInv'
<1>1. PICK all, off : Laid(arriving, all, off) /\ Placed(all, off[Len(extracted)])
  BY DEF StreamInv
<1>2. /\ arriving \in Nat /\ Len(extracted) \in Nat /\ Len(extracted) \in 0 .. arriving
      /\ off[Len(extracted)] \in Nat /\ all \in Seq(Octets) /\ Len(BodyLen) \in Nat
  BY <1>1, StreamTypes, FramesAssumption, LenProperties
<1>3. PICK w : w = Bytes(arriving + 1)
  OBVIOUS
<1>4. /\ arriving < Len(BodyLen) /\ arriving' = arriving + 1 /\ inbound' = inbound \o w
      /\ UNCHANGED <<buf, extracted, strand, stopped>>
  BY <1>3 DEF PeerSends, life
<1>5. arriving + 1 \in 1 .. Len(BodyLen)
  BY <1>2, <1>4
<1>6. w \in Seq(Octets)
  BY <1>3, <1>5, BodyType
<1>7. PICK o : Laid(arriving + 1, all \o w, o) /\ \A j \in 0 .. arriving : o[j] = off[j]
  BY <1>1, <1>2, <1>3, <1>5, LaidNext
<1>8. PICK base \in Nat : base = off[Len(extracted)] /\ base = o[Len(extracted)]
  BY <1>2, <1>7
<1>9. buf \in Seq(Octets) /\ inbound \in Seq(Octets) /\ inbound \o w \in Seq(Octets)
  BY <1>6, ConcatProperties DEF StreamInv, BytesTyped
<1>10. Within(buf, all \o w, base)
  BY <1>1, <1>2, <1>6, <1>8, <1>9, WithinLonger DEF Placed
<1>11. PICK p \in Nat :
         /\ Within(inbound, all, p) /\ p + Len(inbound) = Len(all)
         /\ ~stopped /\ Reads(strand) = {} => base + Len(buf) = p
         /\ ~stopped => \A r \in Reads(strand) : /\ r \in Seq(Octets) /\ base + Len(buf) + Len(r) = p
                                                 /\ Within(r, all, base + Len(buf))
  BY <1>1, <1>8 DEF Placed
<1>12. Within(inbound \o w, all \o w, p) /\ p + Len(inbound \o w) = Len(all \o w)
  BY <1>2, <1>6, <1>9, <1>11, WithinEnd
<1>13. base + Len(buf) \in Nat
  BY <1>9, LenProperties
<1>14. ASSUME ~stopped, NEW r \in Reads(strand) PROVE Within(r, all \o w, base + Len(buf))
  <2>1. r \in Seq(Octets) /\ Within(r, all, base + Len(buf))
    BY <1>11, <1>14
  <2> QED  BY <2>1, <1>2, <1>6, <1>13, WithinLonger
<1>15. Placed(all \o w, o[Len(extracted)])'
  BY <1>4, <1>8, <1>10, <1>11, <1>12, <1>14 DEF Placed
<1>16. Laid(arriving, all \o w, o)'
  BY <1>4, <1>7 DEF Laid
<1>17. BytesTyped'
  <2>1. arriving' \in 0 .. Len(BodyLen) /\ Len(extracted) <= arriving'
    BY <1>2, <1>4, <1>5
  <2> QED  BY <2>1, <1>4, <1>9 DEF StreamInv, BytesTyped
<1>18. FramesReassembled'
  BY <1>4 DEF StreamInv, FramesReassembled
<1> QED  BY <1>15, <1>16, <1>17, <1>18 DEF StreamInv

\* No read has completed, or the one that has.
LEMMA NoReads == ASSUME NEW s, ~Has(s, "read") PROVE Reads(s) = {}
BY DEF Reads, Has

\* ReadSome takes the bytes of the read from the front of the unread ones, when no
\* other read is in the strand.
LEMMA StreamReadSome == ASSUME StreamInv, ConnInv, ReadSome PROVE StreamInv'
<1>1. PICK all, off : Laid(arriving, all, off) /\ Placed(all, off[Len(extracted)])
  BY DEF StreamInv
<1>2. PICK n \in 1 .. Len(inbound) :
        /\ Post("read", SubSeq(inbound, 1, n))
        /\ inbound' = SubSeq(inbound, n + 1, Len(inbound))
  BY DEF ReadSome
<1>3. reading > 0 /\ UNCHANGED <<arriving, buf, extracted, stopped>>
  BY DEF ReadSome, life
<1>4. ~Has(strand, "read") /\ IsSeq(strand)
  BY <1>3 DEF ConnInv, ReadInv, TypeOK
<1>5. PICK r : r = SubSeq(inbound, 1, n)
  OBVIOUS
<1>6. Reads(strand) = {}
  BY <1>4, NoReads
<1>7. Reads(strand') = {r}
  <2>1. strand' = Append(strand, Task("read", r))
    BY <1>2, <1>5 DEF Post
  <2>2. At(strand', "read") = At(strand, "read") \cup {Len(strand) + 1}
    BY <1>4, <2>1, PostAt
  <2>3. At(strand, "read") = {}
    BY <1>4 DEF Has
  <2>4. strand'[Len(strand) + 1] = Task("read", r)
    BY <1>4, <2>1, PostShape
  <2>5. strand'[Len(strand) + 1].arg = r
    BY <2>4 DEF Task
  <2> QED  BY <2>2, <2>3, <2>5 DEF Reads
<1>8. PICK base : base = off[Len(extracted)]
  OBVIOUS
<1>9. base \in Nat /\ all \in Seq(Octets) /\ Len(buf) \in Nat /\ Len(inbound) \in Nat /\ inbound \in Seq(Octets)
  BY <1>1, <1>8, StreamTypes DEF StreamInv, BytesTyped
<1>10. PICK p \in Nat :
         /\ Within(inbound, all, p) /\ p + Len(inbound) = Len(all)
         /\ ~stopped => base + Len(buf) = p
  BY <1>1, <1>6, <1>8 DEF Placed
<1>11. n \in Nat /\ n <= Len(inbound)
  BY <1>9
<1>12. /\ r \in Seq(Octets) /\ Len(r) = n
       /\ inbound' \in Seq(Octets) /\ Len(inbound') = Len(inbound) - n
       /\ Within(r, all, p) /\ Within(inbound', all, p + n)
  BY <1>2, <1>5, <1>9, <1>10, <1>11, WithinCut
<1>13. PICK q \in Nat : q = p + n
  BY <1>11
<1>14. q + Len(inbound') = Len(all)
  <2>1. q + (Len(inbound) - n) = p + Len(inbound)
    BY <1>9, <1>11, <1>13
  <2> QED  BY <2>1, <1>10, <1>12
<1>15. Placed(all, off[Len(extracted)])'
  <2>1. Within(buf, all, base)
    BY <1>1, <1>8 DEF Placed
  <2>2. ~stopped => Within(r, all, base + Len(buf))
    BY <1>10, <1>12
  <2>3. ~stopped => base + Len(buf) + Len(r) = q
    BY <1>10, <1>12, <1>13
  <2>4. Within(inbound', all, q)
    BY <1>12, <1>13
  <2> QED  BY <2>1, <2>2, <2>3, <2>4, <1>3, <1>7, <1>8, <1>12, <1>14 DEF Placed
<1>16. Laid(arriving, all, off)'
  BY <1>1, <1>3 DEF Laid
<1>17. BytesTyped' /\ FramesReassembled'
  BY <1>3, <1>12 DEF StreamInv, BytesTyped, FramesReassembled
<1> QED  BY <1>15, <1>16, <1>17 DEF StreamInv

\* RunRead puts them behind the buffer.
LEMMA StreamRunRead == ASSUME StreamInv, ConnInv, RunRead PROVE StreamInv'
<1>1. PICK all, off : Laid(arriving, all, off) /\ Placed(all, off[Len(extracted)])
  BY DEF StreamInv
<1>2. PICK r : r = Head(strand).arg
  OBVIOUS
<1>3. /\ strand # <<>> /\ Head(strand).kind = "read" /\ strand' = Tail(strand)
      /\ UNCHANGED <<arriving, inbound, extracted, stopped>>
      /\ IF stopped THEN buf' = buf ELSE buf' = buf \o r
  BY <1>2 DEF RunRead, Run, life
<1>4. IsSeq(strand) /\ One(strand, "read")
  BY DEF ConnInv, TypeOK, ReadInv
<1>5. Reads(strand') = {}
  BY <1>3, <1>4, TailHas, NoReads
<1>6. r \in Reads(strand)
  <2>1. 1 \in At(strand, "read") /\ strand[1] = Head(strand)
    BY <1>3, <1>4, TailAt, TailShape
  <2> QED  BY <2>1, <1>2 DEF Reads
<1>8. PICK base : base = off[Len(extracted)]
  OBVIOUS
<1>9. base \in Nat /\ all \in Seq(Octets) /\ Len(buf) \in Nat /\ buf \in Seq(Octets)
  BY <1>1, <1>8, StreamTypes DEF StreamInv, BytesTyped
<1>10. PICK p \in Nat :
         /\ Within(inbound, all, p) /\ p + Len(inbound) = Len(all)
         /\ ~stopped => r \in Seq(Octets) /\ base + Len(buf) + Len(r) = p /\ Within(r, all, base + Len(buf))
  BY <1>1, <1>6, <1>8 DEF Placed
<1>11. Within(buf, all, base)
  BY <1>1, <1>8 DEF Placed
<1>12. /\ Within(buf', all, base) /\ buf' \in Seq(Octets)
       /\ ~stopped => base + Len(buf') = p
  <2>1. CASE stopped
    BY <2>1, <1>3, <1>9, <1>11
  <2>2. CASE ~stopped
    <3>1. r \in Seq(Octets) /\ base + Len(buf) + Len(r) = p /\ Within(r, all, base + Len(buf))
      BY <2>2, <1>10
    <3>2. buf' = buf \o r
      BY <2>2, <1>3
    <3>3. buf \o r \in Seq(Octets) /\ Within(buf \o r, all, base) /\ Len(buf \o r) = Len(buf) + Len(r)
      BY <3>1, <1>9, <1>11, WithinJoin, ConcatProperties
    <3>4. Len(r) \in Nat
      BY <3>1, LenProperties
    <3>5. base + (Len(buf) + Len(r)) = p
      BY <3>1, <3>4, <1>9
    <3> QED  BY <3>2, <3>3, <3>5
  <2> QED  BY <2>1, <2>2
<1>13. Placed(all, off[Len(extracted)])'
  BY <1>3, <1>5, <1>8, <1>10, <1>12 DEF Placed
<1>14. Laid(arriving, all, off)'
  BY <1>1, <1>3 DEF Laid
<1>15. BytesTyped' /\ FramesReassembled'
  BY <1>3, <1>12 DEF StreamInv, BytesTyped, FramesReassembled
<1> QED  BY <1>13, <1>14, <1>15 DEF StreamInv

\* The buffer that begins where a frame does begins with it: NextFrame returns its
\* body, and the rest begins where the next one does.
LEMMA StreamNextFrame == ASSUME StreamInv, ConnInv, NextFrame PROVE StreamInv'
<1>1. PICK all, off : Laid(arriving, all, off) /\ Placed(all, off[Len(extracted)])
  BY DEF StreamInv
<1>2. PICK e, base : e = Len(extracted) /\ base = off[e]
  OBVIOUS
<1>3. /\ arriving \in Nat /\ e \in Nat /\ e \in 0 .. arriving /\ base \in Nat
      /\ all \in Seq(Octets) /\ Len(all) \in Nat /\ Len(buf) \in Nat /\ buf \in Seq(Octets)
      /\ inbound \in Seq(Octets) /\ arriving \in 0 .. Len(BodyLen) /\ extracted \in Seq(Seq(Octets))
  BY <1>1, <1>2, StreamTypes, LenProperties DEF StreamInv, BytesTyped
<1>4. PICK len : len = BodyLength
  OBVIOUS
<1>5. /\ running = "frames" /\ Len(buf) >= 2 /\ len \in 1 .. MaxFrameLength /\ Len(buf) >= 2 + len
      /\ extracted' = Append(extracted, SubSeq(buf, 2 + 1, 2 + len))
      /\ buf' = SubSeq(buf, 2 + len + 1, Len(buf))
      /\ UNCHANGED <<strand, arriving, inbound>>
      /\ stopped' = stopped \/ stopped' = TRUE
  BY <1>4 DEF NextFrame, Have, HeaderLen, Total, FailOnStrand, life
<1>6. len = 256 * buf[1] + buf[2]
  BY <1>4 DEF BodyLength
<1>7. Within(buf, all, base)
  BY <1>1, <1>2 DEF Placed
<1>8. Reads(strand) = {}
  BY <1>5, NoReads DEF ConnInv, ReadInv
<1>9. PICK p \in Nat :
        /\ Within(inbound, all, p) /\ p + Len(inbound) = Len(all)
        /\ ~stopped => base + Len(buf) = p
  BY <1>1, <1>2, <1>8 DEF Placed
<1>10. PICK f \in Nat : f = e + 1
  BY <1>3
<1>11. e < arriving
  <2>1. base + Len(buf) <= Len(all) /\ Len(all) = off[arriving]
    BY <1>1, <1>7 DEF Within, Laid
  <2>2. base < Len(all)
    BY <2>1, <1>3, <1>5
  <2>3. base # off[arriving]
    BY <2>1, <2>2, <1>3
  <2>4. e # arriving
    BY <2>3, <1>2
  <2> QED  BY <2>4, <1>3
<1>12. f \in 1 .. arriving /\ f - 1 = e /\ f \in 1 .. Len(BodyLen) /\ f <= arriving
  <2>1. Len(BodyLen) \in Nat
    BY FramesAssumption, LenProperties
  <2> QED  BY <2>1, <1>3, <1>10, <1>11
<1>13. PICK w, b, n : w = Bytes(f) /\ b = Body(f) /\ n = BodyLen[f]
  OBVIOUS
<1>14. /\ n \in Nat /\ w \in Seq(Octets) /\ Len(w) = 2 + n
       /\ w[1] = 0 /\ w[2] = n /\ (\A i \in 1 .. n : w[2 + i] = f)
       /\ b \in Seq(Octets) /\ Len(b) = n /\ \A i \in 1 .. n : b[i] = f
  BY <1>12, <1>13, BodyType
<1>15. off[f] = base + 2 + n /\ Within(w, all, base)
  BY <1>1, <1>2, <1>12, <1>13 DEF Laid
<1>16. PICK l \in Nat : l = Len(buf)
  BY <1>3
<1>17. /\ \A i \in 1 .. l : buf[i] = all[base + i]
       /\ \A i \in 1 .. 2 + n : w[i] = all[base + i]
  BY <1>7, <1>14, <1>15, <1>16 DEF Within
<1>18. buf[1] = 0 /\ buf[2] = n
  <2>1. 1 \in 1 .. l /\ 2 \in 1 .. l /\ 1 \in 1 .. 2 + n /\ 2 \in 1 .. 2 + n
    BY <1>5, <1>14, <1>16
  <2> QED  BY <2>1, <1>14, <1>17
<1>19. len = n /\ n \in 1 .. MaxFrameLength /\ 2 + n <= l
  <2>1. len = n
    BY <1>6, <1>14, <1>18
  <2> QED  BY <2>1, <1>5, <1>14, <1>16
<1>20. PICK y : y = SubSeq(buf, 2 + 1, 2 + n)
  OBVIOUS
<1>21. y = b
  <2>1. \A i \in 3 .. 2 + n : i \in 1 .. l
    BY <1>14, <1>19
  <2>2. \A i \in 1 .. l : buf[i] \in Octets
    BY <1>3, <1>16, ElementOfSeq
  <2>3. /\ 2 + 1 = 3 /\ 3 \in Int /\ 2 + n \in Int /\ 3 <= 2 + n /\ 2 + n - 3 + 1 = n
    BY <1>14, <1>19
  <2>4. /\ y \in Seq(Octets) /\ Len(y) = n /\ \A i \in 1 .. n : y[i] = buf[3 + i - 1]
    <3>1. PICK u \in Int, v \in Int : u = 2 + 1 /\ v = 2 + n
      BY <2>3
    <3>2. y = SubSeq(buf, u, v) /\ \A i \in u .. v : buf[i] \in Octets
      BY <3>1, <2>1, <2>2, <2>3, <1>20
    <3>3. /\ y \in Seq(Octets) /\ Len(y) = IF u <= v THEN v - u + 1 ELSE 0
          /\ \A i \in 1 .. v - u + 1 : y[i] = buf[u + i - 1]
      BY <3>2, SubSeqProperties
    <3>4. u <= v /\ v - u + 1 = n /\ u = 3
      BY <3>1, <1>14, <1>19
    <3> QED  BY <3>3, <3>4
  <2>5. ASSUME NEW i \in 1 .. n PROVE y[i] = b[i]
    <3>1. 3 + i - 1 = 2 + i /\ 2 + i \in 1 .. l /\ 2 + i \in 1 .. 2 + n
      BY <1>14, <1>19
    <3> QED  BY <3>1, <2>4, <1>14, <1>17
  <2> QED  BY <2>4, <2>5, <1>14, SeqEqual
<1>22. PICK k \in Nat : k = 2 + n
  BY <1>14
<1>23. k <= Len(buf) /\ buf' = SubSeq(buf, k + 1, Len(buf))
  BY <1>5, <1>16, <1>19, <1>22
<1>24. buf' \in Seq(Octets) /\ Len(buf') = Len(buf) - k /\ Within(buf', all, base + k)
  BY <1>3, <1>7, <1>23, WithinCut
<1>25. extracted' = Append(extracted, b)
  BY <1>5, <1>19, <1>20, <1>21
<1>26. /\ extracted' \in Seq(Seq(Octets)) /\ Len(extracted') = f
       /\ \A j \in 1 .. e : extracted'[j] = extracted[j]
       /\ extracted'[f] = b
  BY <1>2, <1>3, <1>10, <1>14, <1>25, AppendProperties
<1>27. off[f] = base + k /\ base + k + Len(buf') = base + Len(buf)
  BY <1>3, <1>14, <1>15, <1>22, <1>24
<1>28. Placed(all, off[Len(extracted)])'
  <2>1. ~stopped' => ~stopped
    BY <1>5
  <2>2. ~stopped' => off[f] + Len(buf') = p
    BY <2>1, <1>9, <1>27
  <2>3. Within(buf', all, off[f])
    BY <1>24, <1>27
  <2> QED  BY <2>2, <2>3, <1>5, <1>8, <1>9, <1>26 DEF Placed
<1>29. Laid(arriving, all, off)'
  BY <1>1, <1>5 DEF Laid
<1>30. BytesTyped'
  BY <1>3, <1>5, <1>12, <1>24, <1>26 DEF BytesTyped
<1>31. FramesReassembled'
  <2>1. DOMAIN extracted = 1 .. e /\ DOMAIN extracted' = 1 .. f
    BY <1>2, <1>3, <1>26, LenProperties
  <2>2. ASSUME NEW j \in 1 .. f PROVE extracted'[j] = Body(j) /\ BodyLen[j] \in 1 .. MaxFrameLength
    <3>1. CASE j = f
      BY <3>1, <1>13, <1>19, <1>26
    <3>2. CASE j # f
      <4>1. j \in 1 .. e
        BY <3>2, <1>3, <1>10
      <4> QED  BY <4>1, <2>1, <1>26 DEF StreamInv, FramesReassembled
    <3> QED  BY <3>1, <3>2
  <2> QED  BY <2>1, <2>2 DEF FramesReassembled
<1> QED  BY <1>28, <1>29, <1>30, <1>31 DEF StreamInv

LEMMA StreamInit == Init => StreamInv
<1> SUFFICES ASSUME Init PROVE StreamInv
  OBVIOUS
<1>1. arriving = 0 /\ inbound = <<>> /\ buf = <<>> /\ extracted = <<>> /\ strand = <<>>
  BY DEF Init
<1>2. PICK off : off = [j \in 0 .. 0 |-> 0]
  OBVIOUS
<1>3. /\ <<>> \in Seq(Octets) /\ <<>> \in Seq(Seq(Octets)) /\ Len(<<>>) = 0 /\ DOMAIN <<>> = {}
      /\ Len(BodyLen) \in Nat
  BY EmptySeq, FramesAssumption, LenProperties
<1>4. off \in [0 .. 0 -> Nat] /\ off[0] = 0
  BY <1>2
<1>5. Laid(arriving, <<>>, off)
  BY <1>1, <1>3, <1>4 DEF Laid
<1>6. Within(<<>>, <<>>, 0)
  BY <1>3 DEF Within
<1>7. Reads(strand) = {}
  BY <1>1, <1>3 DEF Reads, At
<1>8. Placed(<<>>, off[Len(extracted)])
  BY <1>1, <1>3, <1>4, <1>6, <1>7 DEF Placed
<1>9. BytesTyped
  BY <1>1, <1>3 DEF BytesTyped
<1>10. FramesReassembled
  BY <1>1, <1>3 DEF FramesReassembled
<1> QED  BY <1>5, <1>8, <1>9, <1>10 DEF StreamInv

LEMMA StreamStep == ASSUME ConnInv, StreamInv, [Next]_vars PROVE StreamInv'
<1>0. TypeOK
  BY DEF ConnInv
<1>1. ASSUME Start PROVE StreamInv'
  <2>1. Reads(strand') = Reads(strand)
    BY <1>0, <1>1, ReadsPost DEF Start
  <2> QED  BY <1>1, <2>1, StreamSame DEF Start, inVars
<1>2. ASSUME NEW f \in Outgoing, WriteFrame(f) PROVE StreamInv'
  BY <1>2, StreamSame DEF WriteFrame, life, inVars
<1>3. ASSUME NEW f \in Outgoing, PostFrame(f) PROVE StreamInv'
  <2>1. Reads(strand') = Reads(strand)
    BY <1>0, <1>3, ReadsPost DEF PostFrame
  <2> QED  BY <1>3, <2>1, StreamSame DEF PostFrame, life, inVars
<1>4. ASSUME NEW t \in Stoppers, Stop(t) PROVE StreamInv'
  BY <1>4, StreamSame DEF Stop, inVars
<1>5. ASSUME NEW t \in Stoppers, CloseStreamOnStrand(t) PROVE StreamInv'
  <2>1. Reads(strand') = Reads(strand)
    BY <1>0, <1>5, ReadsPost DEF CloseStreamOnStrand
  <2> QED  BY <1>5, <2>1, StreamSame DEF CloseStreamOnStrand, inVars
<1>6. ASSUME ReadError PROVE StreamInv'
  <2>1. Reads(strand') = Reads(strand)
    BY <1>0, <1>6, ReadsPost DEF ReadError
  <2> QED  BY <1>6, <2>1, StreamSame DEF ReadError, life
<1>7. ASSUME NEW k \in 1 .. Len(writeOps), WriteDone(k) PROVE StreamInv'
  <2>1. Reads(strand') = Reads(strand)
    BY <1>0, <1>7, ReadsPost DEF WriteDone
  <2> QED  BY <1>7, <2>1, StreamSame DEF WriteDone, life, inVars
<1>8. ASSUME NEW k \in 1 .. Len(writeOps), WriteError(k) PROVE StreamInv'
  <2>1. Reads(strand') = Reads(strand)
    BY <1>0, <1>8, ReadsPost DEF WriteError
  <2> QED  BY <1>8, <2>1, StreamSame DEF WriteError, life, inVars
<1>9. ASSUME RunStart PROVE StreamInv'
  <2>1. Reads(strand') = Reads(strand)
    BY <1>0, <1>9, ReadsRun DEF RunStart
  <2> QED  BY <1>9, <2>1, StreamSame DEF RunStart, life
<1>10. ASSUME RunClose PROVE StreamInv'
  <2>1. Reads(strand') = Reads(strand)
    BY <1>0, <1>10, ReadsRun DEF RunClose
  <2> QED  BY <1>10, <2>1, StreamSame DEF RunClose, inVars
<1>11. ASSUME RunError PROVE StreamInv'
  <2>1. Reads(strand') = Reads(strand)
    BY <1>0, <1>11, ReadsRun DEF RunError
  <2> QED  BY <1>11, <2>1, StreamSame DEF RunError, FailOnStrand, inVars
<1>12. ASSUME RunFrame PROVE StreamInv'
  <2>1. Reads(strand') = Reads(strand)
    BY <1>0, <1>12, ReadsRun DEF RunFrame
  <2> QED  BY <1>12, <2>1, StreamSame DEF RunFrame, life, inVars
<1>13. ASSUME RunWritten PROVE StreamInv'
  <2>1. Reads(strand') = Reads(strand)
    BY <1>0, <1>13, ReadsRun DEF RunWritten
  <2> QED  BY <1>13, <2>1, StreamSame DEF RunWritten, life, inVars
<1>14. ASSUME DoWrite PROVE StreamInv'
  BY <1>14, StreamSame DEF DoWrite, life, inVars
<1>15. ASSUME NeedMore PROVE StreamInv'
  BY <1>15, StreamSame DEF NeedMore, life
<1>16. ASSUME FramingError PROVE StreamInv'
  BY <1>16, StreamSame DEF FramingError, FailOnStrand, inVars
<1>17. CASE UNCHANGED vars
  BY <1>17, StreamSame DEF vars, life, inVars
<1> QED
  BY <1>1, <1>2, <1>3, <1>4, <1>5, <1>6, <1>7, <1>8, <1>9, <1>10, <1>11, <1>12, <1>13, <1>14, <1>15,
     <1>16, <1>17, StreamSends, StreamReadSome, StreamRunRead, StreamNextFrame
     DEF Next, StrandStep

\* FrameReader: whatever the peer sends and however the bytes are cut into reads, next()
\* has returned the bodies of the peer's first frames, in order and whole, and none that
\* is empty or beyond kMaxFrameLength.
THEOREM FramesReassembledAlways == Spec => []FramesReassembled
<1>1. StreamInv => FramesReassembled
  BY DEF StreamInv
<1>2. ConnInv /\ StreamInv /\ [Next]_vars => StreamInv'
  BY StreamStep
<1> QED
  BY <1>1, <1>2, StreamInit, ConnInvAlways, PTL DEF Spec

-----------------------------------------------------------------------------
(***************************************************************************)
(* WebTransport, for any number of connections and messages: nothing is    *)
(* dispatched to a host that is gone, and an open connection hears its     *)
(* channel unless the destruction of an older one deafened it. WebInv adds *)
(* who is on the channel's lock, and where each thread of a teardown is.   *)
(***************************************************************************)

Messages == {"call", "subscribe", "unsubscribe", "bad", "result", "event"}
Deliveries == [at : {"idle", "taken", "in", "dispatch", "close", "notify", "leave"},
               conn : Conns \cup {None}, msg : Messages \cup {None}]
OwnerThreads == [at : {"idle", "close", "drop", "connect", "start", "stopping", "join"},
                 todo : SUBSET Conns, mine : SUBSET Conns]

\* The variables of WebTransport that the arguments below are about.
WebTypeOK ==
  /\ inbox \in [Ends -> Seq(Messages)] /\ receiver \in [Ends -> Conns \cup {None}]
  /\ pump \in [Ends -> Deliveries] /\ thread \in [Ends -> OwnerThreads]
  /\ made \subseteq Conns /\ serving \subseteq Conns /\ current \in Conns \cup {None}
  /\ hostFreed \in BOOLEAN

\* The connections an end has made.
OfEnd(e) == made \cap (IF e = "page" THEN PageConns ELSE HostConns)

\* Each end knows its own connections only; the host serves one at a time.
OwnConnections ==
  /\ \A e \in Ends : receiver[e] \in OfEnd(e) \cup {None}
  /\ current \in OfEnd("page") \cup {None}
  /\ serving \subseteq OfEnd("host") /\ thread["host"].todo \subseteq OfEnd("host")
  /\ \A c, d \in serving : c = d
  /\ \A c, d \in thread["host"].todo : c = d

\* While a message is being delivered receiverMu is held: the receiver is the
\* one that is being called, or none.
DeliveryHoldsLock ==
  \A e \in Ends : pump[e].at \notin {"idle", "taken"} =>
    /\ pump[e].conn \in OfEnd(e) /\ receiver[e] \in {pump[e].conn, None}
    /\ pump[e].at \in {"close", "notify"} => pump[e].conn \in retired

\* What the owners' threads have in hand at each step.
OwnersSteps ==
  /\ EndAt("page", "connect") => current = None
  /\ thread["host"].at \in {"idle", "join"} => thread["host"].todo = {}
  /\ EndAt("host", "start") => thread["host"].todo = serving
  /\ thread["host"].at \in {"stopping", "close"} => serving = {}
  /\ EndAt("host", "close") => thread["host"].todo \subseteq retired
  /\ hostFreed => thread["host"].at \in {"idle", "join"} /\ serving = {}

\* No connection of the host is forgotten before it is stopped.
HostKnowsOpen == OfEnd("host") \subseteq retired \cup serving \cup thread["host"].todo

\* A stopped connection is past its dispatches, but for the one whose stop()
\* waits for the delivery.
StopWaits ==
  pump["host"].at = "dispatch" => \/ pump["host"].conn \notin retired
                                  \/ EndAt("host", "close") /\ pump["host"].conn \in thread["host"].todo

\* What an open connection hears, also while its owner joins the pump.
OpenHears ==
  \A c \in ({current} \cup serving) \ (retired \cup {None}) :
    thread[End(c)].at \in {"idle", "join"} => receiver[End(c)] = c \/ c \in deafened

WebInv ==
  /\ WebTypeOK /\ OwnConnections /\ DeliveryHoldsLock /\ OwnersSteps /\ HostKnowsOpen /\ StopWaits
  /\ OpenHears /\ DispatchEndsWithHost

-----------------------------------------------------------------------------
LEMMA WebInvInit == WebInit => WebInv
<1> SUFFICES ASSUME WebInit PROVE WebInv
  OBVIOUS
<1> USE ConnsAssumption DEF WebInit, Ends
<1>1. WebTypeOK
  <2>1. inbox \in [Ends -> Seq(Messages)]
    BY EmptySeq
  <2>2. Resting \in Deliveries /\ Ready \in OwnerThreads
    BY DEF Resting, Ready, Deliveries, OwnerThreads
  <2> QED  BY <2>1, <2>2 DEF WebTypeOK
<1>2. OwnConnections /\ HostKnowsOpen /\ OpenHears /\ DispatchEndsWithHost
  BY DEF OwnConnections, OfEnd, HostKnowsOpen, OpenHears, DispatchEndsWithHost, Ready
<1>3. DeliveryHoldsLock /\ StopWaits
  BY DEF DeliveryHoldsLock, StopWaits, Resting
<1>4. OwnersSteps
  BY DEF OwnersSteps, EndAt, Ready
<1> QED  BY <1>1, <1>2, <1>3, <1>4 DEF WebInv

\* What is queued on an inbox is a message.
LEMMA PushedTyped ==
  ASSUME inbox \in [Ends -> Seq(Messages)], NEW e \in Ends, NEW m \in Messages
  PROVE  Pushed(e, m) \in [Ends -> Seq(Messages)]
<1>1. PICK q \in Seq(Messages) : q = IF e \in closed THEN inbox[e] ELSE Append(inbox[e], m)
  BY AppendProperties
<1>2. Pushed(e, m) = [inbox EXCEPT ![e] = q]
  BY <1>1 DEF Pushed
<1> QED  BY <1>2

\* A destructor removes the receiver, and is noted by the connection it was.
LEMMA DestroyHears ==
  ASSUME WebTypeOK, NEW e \in Ends, NEW S, Destroy(S, e)
  PROVE  /\ receiver' \in [Ends -> Conns \cup {None}]
         /\ \A f \in Ends : /\ receiver'[f] \in {receiver[f], None}
                            /\ f # e \/ S = {} => receiver'[f] = receiver[f]
         /\ deafened \subseteq deafened'
         /\ \A c : c \notin S /\ c # None /\ receiver[e] = c => receiver'[e] = c \/ c \in deafened'
BY DEF Destroy, WebTypeOK

\* A step of a pump that changes nothing else of what the invariant is about.
LEMMA PumpMoves ==
  ASSUME WebInv, NEW e \in Ends, NEW d \in Deliveries, pump' = [pump EXCEPT ![e] = d],
         inbox' \in [Ends -> Seq(Messages)],
         d.at \notin {"idle", "taken"} =>
           /\ d.conn \in OfEnd(e) /\ receiver[e] \in {d.conn, None}
           /\ d.at \in {"close", "notify"} => d.conn \in retired,
         e = "host" /\ d.at = "dispatch" => d.conn \notin retired,
         UNCHANGED <<receiver, made, retired, serving, current, hostFreed, deafened, thread>>,
         \/ late' = late
         \/ late' = (late \/ hostFreed) /\ pump["host"].at = "dispatch"
  PROVE  WebInv'
<1> USE DEF WebInv
<1>1. WebTypeOK'
  BY DEF WebTypeOK
<1>2. OwnConnections' /\ OwnersSteps' /\ HostKnowsOpen' /\ OpenHears'
  BY DEF OwnConnections, OfEnd, OwnersSteps, HostKnowsOpen, OpenHears, EndAt
<1>3. DeliveryHoldsLock'
  BY DEF DeliveryHoldsLock, WebTypeOK, OfEnd
<1>4. StopWaits'
  BY DEF StopWaits, WebTypeOK, EndAt
<1>5. DispatchEndsWithHost'
  <2>1. ~(hostFreed /\ pump["host"].at = "dispatch")
    BY DEF StopWaits, OwnersSteps, HostKnowsOpen, DeliveryHoldsLock, Ends, EndAt
  <2> QED  BY <2>1 DEF DispatchEndsWithHost, WebTypeOK
<1> QED  BY <1>1, <1>2, <1>3, <1>4, <1>5

LEMMA WebPump == ASSUME WebInv, NEW e \in Ends, Pump(e) PROVE WebInv'
<1> USE DEF WebInv
<1>t. /\ pump[e] \in Deliveries /\ pump \in [Ends -> Deliveries]
      /\ inbox \in [Ends -> Seq(Messages)] /\ receiver \in [Ends -> Conns \cup {None}]
  BY DEF WebTypeOK
<1>l. pump[e].at \notin {"idle", "taken"} =>
        /\ pump[e].conn \in OfEnd(e) /\ receiver[e] \in {pump[e].conn, None}
        /\ pump[e].at \in {"close", "notify"} => pump[e].conn \in retired
  BY DEF DeliveryHoldsLock
<1>1. CASE Pop(e)
  <2> USE <1>1 DEF Pop
  <2>1. Head(inbox[e]) \in Messages /\ Tail(inbox[e]) \in Seq(Messages)
    BY <1>t, HeadTailProperties
  <2>2. PICK d \in Deliveries : d = [at |-> "taken", conn |-> None, msg |-> Head(inbox[e])]
    BY <2>1 DEF Deliveries
  <2>3. inbox' \in [Ends -> Seq(Messages)]
    BY <1>t, <2>1
  <2>4. pump' = [pump EXCEPT ![e] = d] /\ UNCHANGED <<receiver, made, retired, serving, current, hostFreed,
                                                     deafened, thread, late>> /\ d.at = "taken"
    BY <2>2 DEF conns, host
  <2> HIDE DEF WebInv, Pop
  <2> QED  BY <2>2, <2>3, <2>4, PumpMoves
<1>2. CASE Deliver(e)
  <2> USE <1>2 DEF Deliver
  <2>1. PICK d : d = IF receiver[e] \in freed \cup {None} THEN Resting
                     ELSE [pump[e] EXCEPT !.at = "in", !.conn = receiver[e]]
    OBVIOUS
  <2>2. d \in Deliveries /\ (d.at = "idle" \/ (d.at = "in" /\ d.conn = receiver[e] /\ receiver[e] # None))
    <3>1. CASE receiver[e] \in freed \cup {None}
      BY <2>1, <3>1 DEF Deliveries, Resting
    <3>2. CASE receiver[e] \notin freed \cup {None}
      BY <1>t, <2>1, <3>2 DEF Deliveries
    <3> QED  BY <3>1, <3>2
  <2>3. d.at = "in" => d.conn \in OfEnd(e)
    BY <2>2 DEF OwnConnections
  <2>4. pump' = [pump EXCEPT ![e] = d] /\ UNCHANGED <<inbox, receiver, made, retired, serving, current,
                                                     hostFreed, deafened, thread, late>>
    BY <1>t, <2>1 DEF conns, host, channel
  <2> HIDE DEF WebInv, Deliver
  <2> QED  BY <1>t, <2>2, <2>3, <2>4, PumpMoves
<1>3. CASE LookAtStopped(e)
  <2> USE <1>3 DEF LookAtStopped
  <2>1. PICK d : d = [pump[e] EXCEPT !.at = IF pump[e].conn \in retired THEN "leave" ELSE "dispatch"]
    OBVIOUS
  <2>2. /\ d \in Deliveries /\ d.conn = pump[e].conn
        /\ d.at = IF pump[e].conn \in retired THEN "leave" ELSE "dispatch"
    BY <1>t, <2>1 DEF Deliveries
  <2>3. pump' = [pump EXCEPT ![e] = d] /\ UNCHANGED <<inbox, receiver, made, retired, serving, current,
                                                     hostFreed, deafened, thread, late>>
    BY <1>t, <2>1 DEF conns, host, channel
  <2>4. pump[e].at = "in"
    OBVIOUS
  <2> HIDE DEF WebInv, LookAtStopped
  <2> QED  BY <1>t, <1>l, <2>2, <2>3, <2>4, PumpMoves
<1>4. CASE Malformed(e)
  <2> USE <1>4 DEF Malformed
  <2>1. PICK d : d = [pump[e] EXCEPT !.at = IF pump[e].conn \in retired THEN "leave" ELSE "close"]
    OBVIOUS
  <2>2. d \in Deliveries /\ d.conn = pump[e].conn /\ d.at \in {"leave", "close"}
    BY <1>t, <2>1 DEF Deliveries
  <2>3. pump' = [pump EXCEPT ![e] = d] /\ UNCHANGED <<inbox, receiver, made, serving, current,
                                                     hostFreed, deafened, thread, late>>
    BY <1>t, <2>1 DEF host, channel
  <2>4. retired' = retired \cup {pump[e].conn} /\ pump[e].conn \in OfEnd(e)
    BY <1>l
  <2>5. WebTypeOK'
    BY <2>2, <2>3 DEF WebTypeOK
  <2>6. OwnConnections' /\ OwnersSteps' /\ HostKnowsOpen' /\ OpenHears' /\ DispatchEndsWithHost'
    BY <2>3, <2>4 DEF OwnConnections, OfEnd, OwnersSteps, HostKnowsOpen, OpenHears, EndAt, DispatchEndsWithHost
  <2>7. DeliveryHoldsLock'
    BY <1>l, <1>t, <2>2, <2>3, <2>4 DEF DeliveryHoldsLock, OfEnd
  <2>8. StopWaits'
    BY <1>t, <2>2, <2>3, <2>4, ConnsAssumption DEF StopWaits, EndAt, DeliveryHoldsLock, OfEnd, Ends
  <2> QED  BY <2>5, <2>6, <2>7, <2>8
<1>5. CASE FailClose(e)
  <2> USE <1>5 DEF FailClose
  <2>1. PICK d : d = [pump[e] EXCEPT !.at = IF e = "host" THEN "notify" ELSE "leave"]
    OBVIOUS
  <2>2. d \in Deliveries /\ d.conn = pump[e].conn /\ d.at \in {"leave", "notify"}
    BY <1>t, <2>1 DEF Deliveries
  <2>3. pump' = [pump EXCEPT ![e] = d] /\ UNCHANGED <<inbox, made, retired, serving, current, hostFreed,
                                                     deafened, thread, late>>
    BY <1>t, <2>1 DEF host, channel
  <2>4. receiver' \in [Ends -> Conns \cup {None}] /\ receiver' = [receiver EXCEPT ![e] = None]
    BY <1>t
  <2>5. WebTypeOK'
    BY <2>2, <2>3, <2>4 DEF WebTypeOK
  <2>6. OwnConnections'
    BY <1>t, <2>3, <2>4 DEF OwnConnections, OfEnd
  <2>7. OwnersSteps' /\ HostKnowsOpen' /\ DispatchEndsWithHost'
    BY <2>3 DEF OfEnd, OwnersSteps, HostKnowsOpen, EndAt, DispatchEndsWithHost
  <2>8. DeliveryHoldsLock'
    BY <1>l, <1>t, <2>2, <2>3, <2>4 DEF DeliveryHoldsLock, OfEnd
  <2>9. StopWaits'
    BY <1>t, <2>2, <2>3 DEF StopWaits, EndAt
  <2>10. OpenHears'
    BY <1>l, <1>t, <2>3, <2>4 DEF OpenHears
  <2> QED  BY <2>5, <2>6, <2>7, <2>8, <2>9, <2>10
<1>6. CASE Leave(e)
  <2> USE <1>6 DEF Leave
  <2>1. PICK S : S = IF Kept(pump[e].conn) THEN {} ELSE {pump[e].conn}
    OBVIOUS
  <2>2. Destroy(S, e)
    BY <2>1
  <2>3. Resting \in Deliveries /\ Resting.at = "idle"
    BY DEF Resting, Deliveries
  <2>4. pump' = [pump EXCEPT ![e] = Resting] /\ UNCHANGED <<inbox, made, retired, serving, current,
                                                           hostFreed, thread, late>>
    BY DEF host, channel
  <2>5. /\ receiver' \in [Ends -> Conns \cup {None}]
        /\ \A f \in Ends : /\ receiver'[f] \in {receiver[f], None}
                           /\ f # e \/ S = {} => receiver'[f] = receiver[f]
        /\ deafened \subseteq deafened'
        /\ \A c : c \notin S /\ c # None /\ receiver[e] = c => receiver'[e] = c \/ c \in deafened'
    BY <2>2, DestroyHears
  <2>6. S \cap ({current} \cup serving) = {}
    BY <2>1 DEF Kept
  <2>7. WebTypeOK'
    BY <2>3, <2>4, <2>5 DEF WebTypeOK
  <2>8. OwnConnections'
    BY <2>4, <2>5 DEF OwnConnections, OfEnd
  <2>9. OwnersSteps' /\ HostKnowsOpen' /\ DispatchEndsWithHost'
    BY <2>4 DEF OfEnd, OwnersSteps, HostKnowsOpen, EndAt, DispatchEndsWithHost
  <2>10. DeliveryHoldsLock'
    BY <1>t, <2>3, <2>4, <2>5 DEF DeliveryHoldsLock, OfEnd
  <2>11. StopWaits'
    BY <1>t, <2>3, <2>4 DEF StopWaits, EndAt
  <2>12. OpenHears'
    BY <2>4, <2>5, <2>6 DEF OpenHears, End, Ends
  <2> QED  BY <2>7, <2>8, <2>9, <2>10, <2>11, <2>12
<1> QED  BY <1>1, <1>2, <1>3, <1>4, <1>5, <1>6 DEF Pump

\* A dispatched message is handled and the pump goes on to leave.
LEMMA WebHandler == ASSUME WebInv, Handler PROVE WebInv'
<1>1. ASSUME NEW e \in Ends, pump[e].at \notin {"idle", "taken"},
             pump' = [pump EXCEPT ![e].at = "leave"], inbox' \in [Ends -> Seq(Messages)],
             UNCHANGED <<receiver, made, retired, serving, current, hostFreed, deafened, thread>>,
             \/ late' = late
             \/ late' = (late \/ hostFreed) /\ pump["host"].at = "dispatch"
      PROVE  WebInv'
  <2>1. pump \in [Ends -> Deliveries] /\ pump[e] \in Deliveries
    BY DEF WebInv, WebTypeOK
  <2>2. PICK d : d = [pump[e] EXCEPT !.at = "leave"]
    OBVIOUS
  <2>3. d \in Deliveries /\ d.conn = pump[e].conn /\ d.at = "leave" /\ pump' = [pump EXCEPT ![e] = d]
    BY <1>1, <2>1, <2>2 DEF Deliveries
  <2>4. pump[e].conn \in OfEnd(e) /\ receiver[e] \in {pump[e].conn, None}
    BY <1>1 DEF WebInv, DeliveryHoldsLock
  <2> QED  BY <1>1, <2>3, <2>4, PumpMoves
<1>2. inbox \in [Ends -> Seq(Messages)] /\ "host" \in Ends /\ "page" \in Ends
  BY DEF WebInv, WebTypeOK, Ends
<1>3. CASE Arrived
  BY <1>1, <1>2, <1>3 DEF Arrived, channel, conns, host
<1>4. CASE OnCall
  <2>1. inbox' \in [Ends -> Seq(Messages)]
    BY <1>2, <1>4, PushedTyped DEF OnCall, Messages
  <2> QED  BY <1>1, <1>2, <1>4, <2>1 DEF OnCall, Incoming, conns
<1>5. CASE OnSubscribe
  BY <1>1, <1>2, <1>5 DEF OnSubscribe, Incoming, channel, conns
<1>6. CASE OnUnsubscribe
  BY <1>1, <1>2, <1>6 DEF OnUnsubscribe, Incoming, channel, conns
<1>7. CASE OnConnectionClosed
  BY <1>1, <1>2, <1>7 DEF OnConnectionClosed, channel, conns
<1> QED  BY <1>3, <1>4, <1>5, <1>6, <1>7 DEF Handler

\* A step that leaves alone what the invariant is about, the inboxes apart.
LEMMA WebUnaffected ==
  ASSUME WebInv, inbox' \in [Ends -> Seq(Messages)],
         UNCHANGED <<receiver, pump, thread, made, retired, serving, current, hostFreed, late, deafened>>
  PROVE  WebInv'
BY DEF WebInv, WebTypeOK, OwnConnections, OfEnd, DeliveryHoldsLock, OwnersSteps, HostKnowsOpen, StopWaits,
       OpenHears, DispatchEndsWithHost, EndAt

\* The next object is one that has not been made.
LEMMA FreshIsNew == ASSUME NEW S, S \ made # {} PROVE Fresh(S) \in S \ made
BY DEF Fresh

\* A step of the page's thread that starts or stops no connection.
LEMMA PageMoves ==
  ASSUME WebInv, NEW t \in OwnerThreads, thread' = [thread EXCEPT !["page"] = t],
         t.at \notin {"connect"} \/ current' = None,
         t.at \in {"idle", "join"} => current' = None \/ (thread["page"].at \in {"idle", "join"} /\ current' = current),
         current' \in {current, None},
         retired \subseteq retired', retired' \subseteq retired \cup PageConns,
         inbox' \in [Ends -> Seq(Messages)], receiver' \in [Ends -> Conns \cup {None}],
         receiver'["host"] = receiver["host"],
         \/ receiver' = receiver
         \/ LockFree("page") /\ receiver'["page"] \in {receiver["page"], None} /\ t.at \notin {"idle", "join"},
         deafened \subseteq deafened',
         UNCHANGED <<pump, made, serving, hostFreed, late>>
  PROVE  WebInv'
<1> USE DEF WebInv
<1>1. WebTypeOK'
  BY DEF WebTypeOK
<1>2. thread'["host"] = thread["host"] /\ thread'["page"] = t
  BY DEF WebTypeOK, Ends
<1>3. OwnConnections'
  BY <1>2 DEF OwnConnections, OfEnd, Ends
<1>4. DeliveryHoldsLock'
  BY DEF DeliveryHoldsLock, OfEnd, Ends, LockFree
<1>5. OwnersSteps' /\ HostKnowsOpen' /\ DispatchEndsWithHost'
  BY <1>2 DEF OwnersSteps, HostKnowsOpen, OfEnd, EndAt, DispatchEndsWithHost
<1>6. StopWaits'
  BY <1>2, ConnsAssumption DEF StopWaits, DeliveryHoldsLock, OfEnd, EndAt, Ends
<1>7. OpenHears'
  <2> SUFFICES ASSUME NEW c \in ({current'} \cup serving) \ (retired' \cup {None}),
                      thread'[End(c)].at \in {"idle", "join"}
               PROVE  receiver'[End(c)] = c \/ c \in deafened'
    BY DEF OpenHears
  <2>1. CASE End(c) = "page"
    <3>1. c \in PageConns /\ c = current' /\ c = current
      BY <2>1, ConnsAssumption DEF End, OwnConnections, OfEnd
    <3> QED  BY <1>2, <2>1, <3>1 DEF OpenHears
  <2>2. CASE End(c) = "host"
    <3>1. c \in serving
      BY <2>2, ConnsAssumption DEF End, OwnConnections, OfEnd
    <3> QED  BY <1>2, <2>2, <3>1 DEF OpenHears
  <2> QED  BY <2>1, <2>2 DEF End
<1> QED  BY <1>1, <1>3, <1>4, <1>5, <1>6, <1>7

LEMMA WebConnect == ASSUME WebInv, ConnectToHost PROVE WebInv'
<1> USE DEF WebInv, ConnectToHost
<1>1. PICK c : c = Fresh(PageConns)
  OBVIOUS
<1>2. c \in PageConns /\ c \notin made /\ c \in Conns /\ c # None /\ c \notin HostConns /\ End(c) = "page"
  BY <1>1, FreshIsNew, ConnsAssumption DEF Conns, End
<1>3. Ready \in OwnerThreads /\ Ready.at = "idle"
  BY DEF Ready, OwnerThreads
<1>4. /\ current' = c /\ made' = made \cup {c} /\ receiver' = [receiver EXCEPT !["page"] = c]
      /\ thread' = [thread EXCEPT !["page"] = Ready] /\ LockFree("page")
      /\ UNCHANGED <<inbox, pump, retired, serving, hostFreed, late, deafened>>
  BY <1>1 DEF channel, host
<1>5. WebTypeOK'
  <2> HIDE DEF ConnectToHost
  <2>1. thread' \in [Ends -> OwnerThreads] /\ receiver' \in [Ends -> Conns \cup {None}]
    BY <1>2, <1>3, <1>4 DEF WebTypeOK
  <2> QED  BY <1>2, <1>4, <2>1 DEF WebTypeOK
<1>6. thread'["host"] = thread["host"] /\ thread'["page"] = Ready /\ OfEnd("host")' = OfEnd("host")
  BY <1>2, <1>4 DEF WebTypeOK, Ends, OfEnd
<1>7. OwnConnections'
  BY <1>2, <1>4, <1>6 DEF OwnConnections, OfEnd, Ends, WebTypeOK
<1>8. DeliveryHoldsLock'
  BY <1>4 DEF DeliveryHoldsLock, OfEnd, Ends, LockFree, WebTypeOK
<1>9. OwnersSteps' /\ HostKnowsOpen' /\ DispatchEndsWithHost' /\ StopWaits'
  BY <1>3, <1>4, <1>6 DEF OwnersSteps, HostKnowsOpen, EndAt, DispatchEndsWithHost, StopWaits
<1>10. OpenHears'
  <2> SUFFICES ASSUME NEW d \in ({c} \cup serving) \ (retired \cup {None}),
                      thread'[End(d)].at \in {"idle", "join"}
               PROVE  receiver'[End(d)] = d \/ d \in deafened
    BY <1>4 DEF OpenHears
  <2>1. CASE d = c
    BY <1>2, <1>4, <2>1 DEF WebTypeOK, Ends
  <2>2. CASE d # c
    <3>1. d \in serving /\ End(d) = "host"
      BY <2>2, ConnsAssumption DEF End, OwnConnections, OfEnd
    <3> QED  BY <1>4, <1>6, <3>1 DEF OpenHears, WebTypeOK, Ends
  <2> QED  BY <2>1, <2>2
<1> QED  BY <1>5, <1>7, <1>8, <1>9, <1>10

\* A connection that neither end serves any more is destroyed by the thread
\* that let go of it, with receiverMu free.
LEMMA WebDestroyed ==
  ASSUME WebInv, NEW e \in Ends, NEW S, DestroyWaiting(S, e),
         \A c \in S \cap ({current} \cup serving) : c = None \/ End(c) # e,
         inbox' \in [Ends -> Seq(Messages)],
         UNCHANGED <<pump, thread, made, retired, serving, current, hostFreed, late>>
  PROVE  WebInv'
<1> USE DEF WebInv
<1>1. /\ receiver' \in [Ends -> Conns \cup {None}]
      /\ \A f \in Ends : /\ receiver'[f] \in {receiver[f], None}
                         /\ f # e \/ S = {} => receiver'[f] = receiver[f]
      /\ deafened \subseteq deafened'
      /\ \A c : c \notin S /\ c # None /\ receiver[e] = c => receiver'[e] = c \/ c \in deafened'
  BY DestroyHears DEF DestroyWaiting
<1>2. WebTypeOK' /\ OwnConnections'
  BY <1>1 DEF WebTypeOK, OwnConnections, OfEnd
<1>3. DeliveryHoldsLock'
  BY <1>1 DEF DeliveryHoldsLock, OfEnd, DestroyWaiting, LockFree
<1>4. OwnersSteps' /\ HostKnowsOpen' /\ DispatchEndsWithHost' /\ StopWaits'
  BY DEF OwnersSteps, HostKnowsOpen, OfEnd, EndAt, DispatchEndsWithHost, StopWaits
<1>5. OpenHears'
  BY <1>1 DEF OpenHears, End, Ends
<1> QED  BY <1>2, <1>3, <1>4, <1>5

LEMMA WebPage ==
  ASSUME WebInv,
         \/ Reconnect \/ RequestObject \/ PageClose \/ PageDrop \/ ConnectFails
         \/ \E c \in PageConns : \/ ReleaseObject(c)
                                 \/ \E m \in {"call", "subscribe", "unsubscribe", "bad"} : PageSends(c, m)
  PROVE  WebInv'
<1>t. /\ inbox \in [Ends -> Seq(Messages)] /\ receiver \in [Ends -> Conns \cup {None}]
      /\ "page" \in Ends /\ "host" \in Ends /\ current \in PageConns \cup {None}
  BY DEF WebInv, WebTypeOK, Ends, OwnConnections, OfEnd
<1>r. \A at \in {"close", "drop", "connect"} : [at |-> at, todo |-> {}, mine |-> {}] \in OwnerThreads
  BY DEF OwnerThreads
<1>1. CASE Reconnect
  <2>1. PICK t \in OwnerThreads : t = [at |-> IF current \in retired THEN "drop" ELSE "close",
                                       todo |-> {}, mine |-> {}]
    BY <1>r
  <2>2. /\ t.at \in {"drop", "close"} /\ thread' = [thread EXCEPT !["page"] = t]
        /\ retired' = retired \cup {current} /\ current # None
        /\ UNCHANGED <<inbox, receiver, pump, made, serving, current, hostFreed, late, deafened>>
    BY <1>1, <2>1 DEF Reconnect, Goto, channel, host
  <2> QED  BY <1>t, <2>2, PageMoves
<1>2. CASE PageClose
  <2>1. PICK t \in OwnerThreads : t = [at |-> "drop", todo |-> {}, mine |-> {}]
    BY <1>r
  <2>2. /\ t.at = "drop" /\ thread' = [thread EXCEPT !["page"] = t] /\ LockFree("page")
        /\ receiver' = [receiver EXCEPT !["page"] = None]
        /\ UNCHANGED <<inbox, pump, made, retired, serving, current, hostFreed, late, deafened>>
    BY <1>2, <2>1 DEF PageClose, Goto, channel, host
  <2>3. /\ receiver' \in [Ends -> Conns \cup {None}] /\ receiver'["host"] = receiver["host"]
        /\ receiver'["page"] = None
    BY <1>t, <2>2
  <2> QED  BY <1>t, <2>2, <2>3, PageMoves
<1>3. CASE PageDrop
  <2>1. PICK t \in OwnerThreads : t = [at |-> "connect", todo |-> {}, mine |-> {}]
    BY <1>r
  <2>2. PICK S : S = IF current \in handles \/ Delivering(current) THEN {} ELSE {current}
    OBVIOUS
  <2>3. /\ t.at = "connect" /\ thread' = [thread EXCEPT !["page"] = t] /\ current' = None
        /\ DestroyWaiting(S, "page")
        /\ UNCHANGED <<inbox, pump, made, retired, serving, hostFreed, late>>
    BY <1>3, <2>1, <2>2 DEF PageDrop, Goto, channel, host
  <2>4. /\ receiver' \in [Ends -> Conns \cup {None}]
        /\ \A f \in Ends : /\ receiver'[f] \in {receiver[f], None}
                           /\ f # "page" \/ S = {} => receiver'[f] = receiver[f]
        /\ deafened \subseteq deafened'
    BY <1>t, <2>3, DestroyHears DEF DestroyWaiting, WebInv
  <2>5. receiver' = receiver \/ LockFree("page")
    BY <2>3 DEF DestroyWaiting, Destroy
  <2> QED  BY <1>t, <2>3, <2>4, <2>5, PageMoves
<1>4. CASE ConnectFails
  <2>1. Ready \in OwnerThreads /\ Ready.at = "idle"
    BY DEF Ready, OwnerThreads
  <2>2. current = None
    BY <1>4 DEF ConnectFails, WebInv, OwnersSteps
  <2>3. /\ thread' = [thread EXCEPT !["page"] = Ready]
        /\ UNCHANGED <<inbox, receiver, pump, made, retired, serving, current, hostFreed, late, deafened>>
    BY <1>4 DEF ConnectFails, channel, conns, host
  <2> QED  BY <1>t, <2>1, <2>2, <2>3, PageMoves
<1>5. CASE RequestObject
  BY <1>t, <1>5, WebUnaffected DEF RequestObject, channel, conns, host
<1>6. ASSUME NEW c \in PageConns, NEW m \in {"call", "subscribe", "unsubscribe", "bad"}, PageSends(c, m)
      PROVE  WebInv'
  <2>1. inbox' \in [Ends -> Seq(Messages)]
    BY <1>t, <1>6, PushedTyped DEF PageSends, Messages
  <2> QED  BY <1>6, <2>1, WebUnaffected DEF PageSends, conns, host
<1>7. ASSUME NEW c \in PageConns, ReleaseObject(c) PROVE WebInv'
  <2>1. PICK S : S = IF c = current \/ Delivering(c) THEN {} ELSE {c}
    OBVIOUS
  <2>2. S \cap ({current} \cup serving) = {}
    BY <2>1, ConnsAssumption DEF WebInv, OwnConnections, OfEnd
  <2>3. /\ DestroyWaiting(S, "page")
        /\ UNCHANGED <<inbox, pump, thread, made, retired, serving, current, hostFreed, late>>
    BY <1>7, <2>1 DEF ReleaseObject, channel, host
  <2> QED  BY <1>t, <2>2, <2>3, WebDestroyed
<1> QED  BY <1>1, <1>2, <1>3, <1>4, <1>5, <1>6, <1>7

\* A step of the host's thread.
LEMMA WebAttach == ASSUME WebInv, AttachChannel PROVE WebInv'
<1> USE DEF WebInv
<1>1. PICK c : c = Fresh(HostConns)
  OBVIOUS
<1>2. c \in HostConns /\ c \notin made /\ c \in Conns /\ c # None /\ c \notin PageConns
  BY <1>1, FreshIsNew, ConnsAssumption DEF Conns, AttachChannel
<1>3. PICK t \in OwnerThreads : t = [at |-> "start", todo |-> {c}, mine |-> {}]
  BY <1>2 DEF OwnerThreads
<1>4. PICK S : S = {d \in serving : Bare(d)}
  OBVIOUS
<1>5. /\ serving' = {c} /\ made' = made \cup {c} /\ thread' = [thread EXCEPT !["host"] = t]
      /\ t.at = "start" /\ t.todo = {c} /\ serving \subseteq retired /\ DestroyWaiting(S, "host")
      /\ thread["host"].todo = {} /\ ~hostFreed
      /\ UNCHANGED <<inbox, pump, retired, current, hostFreed, late>>
  BY <1>1, <1>3, <1>4 DEF AttachChannel, Goto, channel, OwnersSteps, EndAt
<1>6. /\ receiver' \in [Ends -> Conns \cup {None}]
      /\ \A f \in Ends : /\ receiver'[f] \in {receiver[f], None}
                         /\ f # "host" \/ S = {} => receiver'[f] = receiver[f]
      /\ deafened \subseteq deafened'
  BY <1>5, DestroyHears DEF DestroyWaiting, Ends
<1>7. thread'["page"] = thread["page"] /\ thread'["host"] = t
  BY <1>5 DEF WebTypeOK, Ends
<1>8. WebTypeOK'
  BY <1>2, <1>5, <1>6 DEF WebTypeOK
<1>9. OwnConnections'
  BY <1>2, <1>5, <1>6, <1>7 DEF OwnConnections, OfEnd, Ends
<1>10. DeliveryHoldsLock'
  BY <1>5, <1>6 DEF DeliveryHoldsLock, OfEnd, DestroyWaiting, LockFree, Ends
<1>11. OwnersSteps' /\ DispatchEndsWithHost'
  BY <1>5, <1>7 DEF OwnersSteps, EndAt, DispatchEndsWithHost
<1>12. HostKnowsOpen'
  BY <1>5, <1>7 DEF HostKnowsOpen, OfEnd
<1>13. StopWaits'
  BY <1>5 DEF StopWaits, EndAt, OwnersSteps, AttachChannel
<1>14. OpenHears'
  <2> SUFFICES ASSUME NEW d \in ({current} \cup {c}) \ (retired \cup {None}),
                      thread'[End(d)].at \in {"idle", "join"}
               PROVE  receiver'[End(d)] = d \/ d \in deafened'
    BY <1>5 DEF OpenHears
  <2>1. d = current /\ End(d) = "page"
    BY <1>2, <1>5, <1>7, ConnsAssumption DEF End, OwnConnections, OfEnd
  <2> QED  BY <1>6, <1>7, <2>1 DEF OpenHears, Ends
<1> QED  BY <1>8, <1>9, <1>10, <1>11, <1>12, <1>13, <1>14

\* A step of the host's thread between attach and the end of its destructor
\* that makes no connection.
LEMMA HostMoves ==
  ASSUME WebInv, NEW t \in OwnerThreads, thread' = [thread EXCEPT !["host"] = t],
         serving' \in {serving, {}}, t.todo \subseteq thread["host"].todo \cup serving,
         \A c, d \in t.todo : c = d,
         retired \subseteq retired', retired' \subseteq retired \cup (t.todo \cap HostConns),
         retired' = retired \/ t.at = "close",
         inbox' \in [Ends -> Seq(Messages)], receiver' \in [Ends -> Conns \cup {None}],
         receiver'["page"] = receiver["page"],
         \/ receiver' = receiver
         \/ LockFree("host") /\ receiver'["host"] \in OfEnd("host") \cup {None},
         deafened \subseteq deafened',
         t.at \in {"idle", "join"} => t.todo = {},
         t.at # "start",
         t.at \in {"stopping", "close"} => serving' = {},
         t.at = "close" => t.todo \subseteq retired',
         hostFreed' => t.at \in {"idle", "join"} /\ serving' = {},
         hostFreed' \in BOOLEAN,
         thread["host"].todo \cup serving \subseteq retired' \cup serving' \cup t.todo,
         EndAt("host", "close") => LockFree("host"),
         t.at \in {"idle", "join"} => \A c \in serving' \ retired' : receiver'["host"] = c \/ c \in deafened',
         UNCHANGED <<pump, made, current, late>>
  PROVE  WebInv'
<1> USE DEF WebInv
<1>1. thread'["page"] = thread["page"] /\ thread'["host"] = t
  BY DEF WebTypeOK, Ends
<1>2. WebTypeOK'
  BY DEF WebTypeOK
<1>3. OwnConnections'
  BY <1>1 DEF OwnConnections, OfEnd, Ends
<1>4. DeliveryHoldsLock'
  BY DEF DeliveryHoldsLock, OfEnd, Ends, LockFree
<1>5. OwnersSteps'
  BY <1>1 DEF OwnersSteps, EndAt
<1>6. HostKnowsOpen'
  BY <1>1 DEF HostKnowsOpen, OfEnd
<1>7. StopWaits'
  BY <1>1 DEF StopWaits, EndAt, LockFree
<1>8. OpenHears'
  <2> SUFFICES ASSUME NEW d \in ({current} \cup serving') \ (retired' \cup {None}),
                      thread'[End(d)].at \in {"idle", "join"}
               PROVE  receiver'[End(d)] = d \/ d \in deafened'
    BY DEF OpenHears
  <2>1. CASE d = current /\ End(d) = "page"
    BY <1>1, <2>1 DEF OpenHears
  <2>2. CASE ~(d = current /\ End(d) = "page")
    <3>1. d \in serving' /\ End(d) = "host"
      BY <2>2, ConnsAssumption DEF End, OwnConnections, OfEnd
    <3> QED  BY <1>1, <3>1
  <2> QED  BY <2>1, <2>2
<1> QED  BY <1>2, <1>3, <1>4, <1>5, <1>6, <1>7, <1>8 DEF DispatchEndsWithHost

LEMMA WebHost ==
  ASSUME WebInv,
         \/ AttachStart \/ StopConnection \/ StopClose \/ FreeHost \/ DestroyHost
         \/ FanOutEvent \/ Reply \/ \E is \in BOOLEAN : Publish(is)
  PROVE  WebInv'
<1>t. /\ inbox \in [Ends -> Seq(Messages)] /\ receiver \in [Ends -> Conns \cup {None}]
      /\ "page" \in Ends /\ "host" \in Ends /\ thread["host"] \in OwnerThreads /\ serving \subseteq Conns
  BY DEF WebInv, WebTypeOK, Ends
<1>m. thread["host"].todo \subseteq Conns /\ thread["host"].mine \subseteq Conns
  BY <1>t DEF OwnerThreads
<1>o. /\ thread["host"].todo \subseteq OfEnd("host") /\ serving \subseteq OfEnd("host")
      /\ \A c, d \in serving : c = d
      /\ \A c, d \in thread["host"].todo : c = d
  BY DEF WebInv, OwnConnections
<1>s. OwnersSteps
  BY DEF WebInv
<1>1. CASE AttachStart
  <2>1. PICK c \in thread["host"].todo : receiver' = [receiver EXCEPT !["host"] = c]
    BY <1>1 DEF AttachStart
  <2>2. PICK t \in OwnerThreads : t = [at |-> "idle", todo |-> {}, mine |-> {}]
    BY DEF OwnerThreads
  <2>3. /\ thread' = [thread EXCEPT !["host"] = t] /\ t.at = "idle" /\ t.todo = {}
        /\ LockFree("host") /\ thread["host"].at = "start"
        /\ UNCHANGED <<inbox, pump, made, retired, serving, current, hostFreed, late, deafened>>
    BY <1>1, <2>2 DEF AttachStart, Goto, EndAt, channel, host
  <2>4. thread["host"].todo = serving /\ ~hostFreed /\ serving = {c}
    BY <1>s, <1>o, <2>1, <2>3 DEF OwnersSteps, EndAt
  <2>5. /\ receiver' \in [Ends -> Conns \cup {None}] /\ receiver'["page"] = receiver["page"]
        /\ receiver'["host"] = c /\ c \in OfEnd("host")
    BY <1>t, <1>m, <1>o, <2>1
  <2>6. hostFreed \in BOOLEAN
    BY DEF WebInv, WebTypeOK
  <2> QED  BY <1>t, <2>3, <2>4, <2>5, <2>6, HostMoves DEF EndAt
<1>2. CASE StopConnection
  <2>1. PICK c \in thread["host"].todo :
          /\ retired' = retired \cup {c}
          /\ IF c \in retired
             THEN Goto("host", "stopping", thread["host"].todo \ {c}, thread["host"].mine)
             ELSE Goto("host", "close", {c}, thread["host"].mine)
    BY <1>2 DEF StopConnection
  <2>2. PICK t \in OwnerThreads :
          t = IF c \in retired
              THEN [at |-> "stopping", todo |-> thread["host"].todo \ {c}, mine |-> thread["host"].mine]
              ELSE [at |-> "close", todo |-> {c}, mine |-> thread["host"].mine]
    <3>1. /\ [at |-> "close", todo |-> {c}, mine |-> thread["host"].mine] \in OwnerThreads
          /\ [at |-> "stopping", todo |-> thread["host"].todo \ {c}, mine |-> thread["host"].mine] \in OwnerThreads
      BY <1>m DEF OwnerThreads
    <3> QED  BY <3>1
  <2>3. /\ thread' = [thread EXCEPT !["host"] = t] /\ thread["host"].at = "stopping"
        /\ UNCHANGED <<inbox, receiver, pump, made, serving, current, hostFreed, late, deafened>>
    BY <1>2, <2>1, <2>2 DEF StopConnection, Goto, EndAt, channel, host
  <2>4. serving = {} /\ ~hostFreed /\ thread["host"].todo = {c} /\ c \in HostConns /\ hostFreed \in BOOLEAN
    BY <1>s, <1>o, <2>1, <2>3 DEF OwnersSteps, EndAt, OfEnd, WebInv, WebTypeOK
  <2>5. CASE c \in retired
    <3>1. t.at = "stopping" /\ t.todo = {} /\ retired' = retired
      BY <2>1, <2>2, <2>4, <2>5
    <3> QED  BY <1>t, <2>1, <2>3, <2>4, <2>5, <3>1, HostMoves DEF EndAt
  <2>6. CASE c \notin retired
    <3>1. t.at = "close" /\ t.todo = {c}
      BY <2>2, <2>6
    <3> QED  BY <1>t, <2>1, <2>3, <2>4, <3>1, HostMoves DEF EndAt
  <2> QED  BY <2>5, <2>6
<1>3. CASE StopClose
  <2>1. PICK t \in OwnerThreads : t = [at |-> "stopping", todo |-> {}, mine |-> thread["host"].mine]
    BY <1>m DEF OwnerThreads
  <2>2. /\ thread' = [thread EXCEPT !["host"] = t] /\ t.at = "stopping" /\ t.todo = {}
        /\ LockFree("host") /\ thread["host"].at = "close"
        /\ receiver' = [receiver EXCEPT !["host"] = None]
        /\ UNCHANGED <<inbox, pump, made, retired, serving, current, hostFreed, late, deafened>>
    BY <1>3, <2>1 DEF StopClose, Goto, EndAt, channel
  <2>3. serving = {} /\ ~hostFreed /\ thread["host"].todo \subseteq retired /\ hostFreed \in BOOLEAN
    BY <1>s, <2>2 DEF OwnersSteps, EndAt, WebInv, WebTypeOK
  <2>4. /\ receiver' \in [Ends -> Conns \cup {None}] /\ receiver'["page"] = receiver["page"]
        /\ receiver'["host"] = None
    BY <1>t, <2>2
  <2> QED  BY <1>t, <2>2, <2>3, <2>4, HostMoves
<1>4. CASE FreeHost
  <2>1. PICK t \in OwnerThreads : t = [at |-> "idle", todo |-> {}, mine |-> {}]
    BY DEF OwnerThreads
  <2>2. PICK S : S = {c \in thread["host"].mine : Bare(c)}
    OBVIOUS
  <2>3. /\ thread' = [thread EXCEPT !["host"] = t] /\ t.at = "idle" /\ t.todo = {}
        /\ thread["host"].at = "stopping" /\ thread["host"].todo = {} /\ hostFreed' = TRUE
        /\ DestroyWaiting(S, "host")
        /\ UNCHANGED <<inbox, pump, made, retired, serving, current, late>>
    BY <1>4, <2>1, <2>2 DEF FreeHost, Goto, EndAt, channel
  <2>4. serving = {}
    BY <1>s, <2>3 DEF OwnersSteps, EndAt
  <2>5. /\ receiver' \in [Ends -> Conns \cup {None}]
        /\ \A f \in Ends : /\ receiver'[f] \in {receiver[f], None}
                           /\ f # "host" \/ S = {} => receiver'[f] = receiver[f]
        /\ deafened \subseteq deafened'
    BY <1>t, <2>3, DestroyHears DEF DestroyWaiting, WebInv
  <2>6. receiver' = receiver \/ LockFree("host")
    BY <2>3 DEF DestroyWaiting, Destroy
  <2>7. receiver'["host"] \in OfEnd("host") \cup {None}
    BY <1>t, <2>5 DEF WebInv, OwnConnections
  <2> QED  BY <1>t, <2>3, <2>4, <2>5, <2>6, <2>7, HostMoves DEF EndAt
<1>5. CASE DestroyHost
  <2>1. PICK t \in OwnerThreads : t = [at |-> "stopping", todo |-> serving, mine |-> serving]
    BY <1>t DEF OwnerThreads
  <2>2. /\ thread' = [thread EXCEPT !["host"] = t] /\ t.at = "stopping" /\ t.todo = serving
        /\ serving' = {} /\ ~hostFreed /\ thread["host"].at = "idle"
        /\ UNCHANGED <<inbox, receiver, pump, made, retired, current, hostFreed, late, deafened>>
    BY <1>5, <2>1 DEF DestroyHost, Goto, EndAt, channel, conns
  <2>3. thread["host"].todo = {} /\ hostFreed \in BOOLEAN
    BY <1>s, <2>2 DEF OwnersSteps, WebInv, WebTypeOK
  <2> QED  BY <1>t, <1>o, <2>2, <2>3, HostMoves DEF EndAt
<1>6. CASE FanOutEvent
  <2>1. inbox' \in [Ends -> Seq(Messages)]
    BY <1>t, <1>6, PushedTyped DEF FanOutEvent, Messages
  <2> QED  BY <1>6, <2>1, WebUnaffected DEF FanOutEvent, conns, host
<1>7. CASE Reply
  <2>1. PICK c : c = Head(replies)
    OBVIOUS
  <2>2. PICK S : S = IF c \in serving \/ Queue(c) # {1} \/ Delivering(c) THEN {} ELSE {c}
    OBVIOUS
  <2>3. /\ DestroyWaiting(S, "host") /\ inbox' = IF c \in retired THEN inbox ELSE Pushed("page", "result")
        /\ UNCHANGED <<pump, thread, made, retired, serving, current, hostFreed, late>>
    BY <1>7, <2>1, <2>2 DEF Reply, host
  <2>4. inbox' \in [Ends -> Seq(Messages)]
    BY <1>t, <2>3, PushedTyped DEF Messages
  <2>5. \A d \in S \cap ({current} \cup serving) : d = None \/ End(d) # "host"
    BY <2>2, ConnsAssumption DEF WebInv, OwnConnections, OfEnd, End
  <2> QED  BY <1>t, <2>3, <2>4, <2>5, WebDestroyed
<1>8. ASSUME NEW is \in BOOLEAN, Publish(is) PROVE WebInv'
  BY <1>t, <1>8, WebUnaffected DEF Publish, channel, conns
<1> QED  BY <1>1, <1>2, <1>3, <1>4, <1>5, <1>6, <1>7, <1>8

\* close(), and the end of its join, at either end.
LEMMA WebClose == ASSUME WebInv, NEW e \in Ends, Close(e) \/ Joined(e) PROVE WebInv'
<1>1. PICK t : t = [at |-> IF Close(e) THEN "join" ELSE "idle", todo |-> {}, mine |-> {}]
  OBVIOUS
<1>2. t \in OwnerThreads /\ t.at \in {"idle", "join"} /\ t.todo = {}
  BY <1>1 DEF OwnerThreads
<1>3. inbox \in [Ends -> Seq(Messages)] /\ receiver \in [Ends -> Conns \cup {None}] /\ hostFreed \in BOOLEAN
  BY DEF WebInv, WebTypeOK
<1>4. /\ thread' = [thread EXCEPT ![e] = t] /\ thread[e].at \in {"idle", "join"}
      /\ UNCHANGED <<receiver, pump, made, retired, serving, current, hostFreed, late, deafened>>
  BY <1>1 DEF Close, Joined, Goto, EndAt, conns, host
<1>5. inbox' \in [Ends -> Seq(Messages)]
  BY <1>3, EmptySeq DEF Close, Joined, channel
<1>6. CASE e = "page"
  BY <1>2, <1>3, <1>4, <1>5, <1>6, PageMoves
<1>7. CASE e = "host"
  <2>1. thread["host"].todo = {} /\ (hostFreed => serving = {})
    BY <1>4, <1>7 DEF WebInv, OwnersSteps
  <2>2. \A c \in serving \ retired : receiver["host"] = c \/ c \in deafened
    <3>1. \A c \in serving : c # None /\ End(c) = "host"
      BY ConnsAssumption DEF WebInv, OwnConnections, OfEnd, End, Conns
    <3> QED  BY <1>4, <1>7, <3>1 DEF WebInv, OpenHears
  <2> QED  BY <1>2, <1>3, <1>4, <1>5, <1>7, <2>1, <2>2, HostMoves DEF EndAt
<1> QED  BY <1>6, <1>7 DEF Ends

LEMMA WebInvNext == WebInv /\ [WebNext]_webVars => WebInv'
<1> SUFFICES ASSUME WebInv, [WebNext]_webVars PROVE WebInv'
  OBVIOUS
<1>1. CASE \E e \in Ends : Thread(e)
  BY <1>1, WebClose, WebPage, WebConnect, WebHost DEF Thread
<1>2. CASE UNCHANGED webVars
  <2>1. inbox' \in [Ends -> Seq(Messages)]
    BY <1>2 DEF webVars, channel, WebInv, WebTypeOK
  <2> QED  BY <1>2, <2>1, WebUnaffected DEF webVars, channel, conns, host
<1> QED
  BY <1>1, <1>2, WebPump, WebHandler, WebConnect, WebAttach, WebPage, WebHost, WebClose DEF WebNext

\* ~WebTransportHost: once it has stopped its connections no message is
\* dispatched to it, whatever delivery was under way on the channel's pump.
THEOREM NoDispatchAfterHost == WebSpec => []DispatchEndsWithHost
<1>1. WebInv => DispatchEndsWithHost
  BY DEF WebInv
<1> QED  BY <1>1, WebInvInit, WebInvNext, PTL DEF WebSpec

\* WebRpcConnection's receiver: an open connection that was started is the one
\* its channel calls, or lost its receiver to the destructor of an older one.
THEOREM OpenConnectionHears == WebSpec => []HearsUnlessOlderDestroyed
<1>1. WebInv => HearsUnlessOlderDestroyed
  BY DEF WebInv, OpenHears, HearsUnlessOlderDestroyed, EndAt
<1> QED  BY <1>1, WebInvInit, WebInvNext, PTL DEF WebSpec
=============================================================================
