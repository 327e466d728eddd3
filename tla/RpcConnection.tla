---------------------------- MODULE RpcConnection ----------------------------
(***************************************************************************)
(* RpcConnection (rpc_connection.h) and FrameReader (rpc_framing.cpp): the *)
(* socket of a connection, its strand, the queue of outgoing frames and    *)
(* the reassembly of incoming ones.  A strand runs the handlers posted to  *)
(* it one at a time and in order; other threads only look at m_stopped and *)
(* post.  A step is one access to m_stopped together with the strand-local *)
(* work up to the next one, or the completion of a socket operation.       *)
(*                                                                         *)
(* Bytes: a frame is a two-byte length and a body whose bytes are all the  *)
(* frame's number, so that a misplaced byte shows.  What fail() does with  *)
(* the pending calls is in RpcPeer.                                        *)
(***************************************************************************)
EXTENDS Naturals, Sequences, SequencesExt

CONSTANTS
  Outgoing,        \* frames handed to writeFrame, one thread each
  Stoppers,        \* threads that may call stop()
  BodyLen,         \* body length of each frame the peer sends, in order
  Undecodable,     \* the numbers of those the codec may refuse
  MaxFrameLength,  \* kMaxFrameLength
  Starts           \* a bound: how often start() is called

ASSUME FramesAssumption == BodyLen \in Seq(Nat) /\ Undecodable \subseteq 1 .. Len(BodyLen)
ASSUME BoundsAssumption == MaxFrameLength \in 1 .. 255 /\ Starts \in Nat

HeaderLen == 2
Header(n) == <<0, n>>
Body(i) == [j \in 1 .. BodyLen[i] |-> i]
Bytes(i) == Header(BodyLen[i]) \o Body(i)

VARIABLES
  started, starts,  \* m_started, and the calls of start() so far
  stopped,          \* m_stopped
  stopper,          \* stopper[t]: where a thread in stop() is
  writer,           \* writer[f]: where the thread in writeFrame is
  strand,           \* handlers queued on m_strand
  running,          \* what the current strand handler has yet to do
  socket,           \* "open" or "closed"
  writeQueue, writing,
  writeOps,         \* async_writes under way, as the frames they write
  reading,          \* async_read_somes under way
  onWire,           \* frames written in full
  arriving,         \* how many frames the peer has sent
  inbound,          \* their bytes that are not yet read
  buf,              \* FrameReader::m_buf
  extracted,        \* bodies next() has returned
  posted            \* history: frames in the order they were posted

outVars == <<writer, writeQueue, writing, writeOps, onWire, posted>>
inVars == <<reading, arriving, inbound, buf, extracted>>
life == <<started, starts, stopped, stopper, socket>>
vars == <<life, strand, running, outVars, inVars>>

Task(kind, arg) == [kind |-> kind, arg |-> arg]

Init ==
  /\ started = FALSE /\ starts = 0
  /\ stopped = FALSE
  /\ stopper = [t \in Stoppers |-> "idle"]
  /\ writer = [f \in Outgoing |-> "idle"]
  /\ strand = <<>> /\ running = "none"
  /\ socket = "open"
  /\ writeQueue = <<>> /\ writing = FALSE /\ writeOps = <<>>
  /\ reading = 0
  /\ onWire = <<>> /\ posted = <<>>
  /\ arriving = 0 /\ inbound = <<>> /\ buf = <<>> /\ extracted = <<>>

Post(kind, arg) == strand' = Append(strand, Task(kind, arg))

-----------------------------------------------------------------------------
(* Any thread.                                                             *)

Start ==
  /\ starts < Starts
  /\ starts' = starts + 1
  /\ started' = TRUE
  /\ IF started THEN UNCHANGED strand ELSE Post("start", <<>>)
  /\ UNCHANGED <<stopped, stopper, socket, running, outVars, inVars>>

\* writeFrame: the first look at m_stopped, then the post.
WriteFrame(f) ==
  /\ writer[f] = "idle"
  /\ writer' = [writer EXCEPT ![f] = IF stopped THEN "returned" ELSE "post"]
  /\ UNCHANGED <<life, strand, running, writeQueue, writing, writeOps, onWire, posted, inVars>>

PostFrame(f) ==
  /\ writer[f] = "post"
  /\ writer' = [writer EXCEPT ![f] = "returned"]
  /\ Post("frame", <<f>>)
  /\ posted' = Append(posted, f)
  /\ UNCHANGED <<life, running, writeQueue, writing, writeOps, onWire, inVars>>

\* stop() on a thread of its own: fail()'s compare-and-swap ...
Stop(t) ==
  /\ stopper[t] = "idle"
  /\ stopped' = TRUE
  /\ stopper' = [stopper EXCEPT ![t] = IF stopped THEN "returned" ELSE "close"]
  /\ UNCHANGED <<started, starts, socket, strand, running, outVars, inVars>>

\* ... and its closeTransport(), which queues the close behind what is posted.
CloseStreamOnStrand(t) ==
  /\ stopper[t] = "close"
  /\ stopper' = [stopper EXCEPT ![t] = "returned"]
  /\ Post("close", <<>>)
  /\ UNCHANGED <<started, starts, stopped, socket, running, outVars, inVars>>

-----------------------------------------------------------------------------
(* Socket operations complete, their handlers bound to the strand.         *)

\* The peer sends its next frame.
PeerSends ==
  /\ arriving < Len(BodyLen)
  /\ arriving' = arriving + 1
  /\ inbound' = inbound \o Bytes(arriving + 1)
  /\ UNCHANGED <<life, strand, running, outVars, reading, buf, extracted>>

\* Bytes arrive, any number of them up to all there are.
ReadSome ==
  /\ reading > 0 /\ socket = "open"
  /\ reading' = reading - 1
  /\ \E n \in 1 .. Len(inbound) :
       /\ Post("read", SubSeq(inbound, 1, n))
       /\ inbound' = SubSeq(inbound, n + 1, Len(inbound))
  /\ UNCHANGED <<life, running, outVars, arriving, buf, extracted>>

\* The peer closes, the network fails, or a closed socket aborts the read.
ReadError ==
  /\ reading > 0
  /\ reading' = reading - 1
  /\ Post("error", <<>>)
  /\ UNCHANGED <<life, running, outVars, arriving, inbound, buf, extracted>>

WriteDone(k) ==
  /\ k \in 1 .. Len(writeOps) /\ socket = "open"
  /\ onWire' = Append(onWire, writeOps[k])
  /\ writeOps' = RemoveAt(writeOps, k)
  /\ Post("written", <<>>)
  /\ UNCHANGED <<life, running, writer, writeQueue, writing, posted, inVars>>

WriteError(k) ==
  /\ k \in 1 .. Len(writeOps)
  /\ writeOps' = RemoveAt(writeOps, k)
  /\ Post("error", <<>>)
  /\ UNCHANGED <<life, running, writer, writeQueue, writing, onWire, posted, inVars>>

-----------------------------------------------------------------------------
(* Strand handlers.  Run(kind) takes the next one off the strand.          *)

Run(kind) ==
  /\ running = "none"
  /\ strand # <<>> /\ Head(strand).kind = kind
  /\ strand' = Tail(strand)

\* fail() inside the strand: the winner of the swap closes the socket inline.
FailOnStrand ==
  /\ stopped' = TRUE
  /\ socket' = IF stopped THEN socket ELSE "closed"
  /\ UNCHANGED <<started, starts, stopper>>

DoRead == reading' = reading + 1

RunStart ==
  /\ Run("start")
  /\ DoRead
  /\ UNCHANGED <<life, running, outVars, arriving, inbound, buf, extracted>>

RunClose ==
  /\ Run("close")
  /\ socket' = "closed"
  /\ UNCHANGED <<started, starts, stopped, stopper, running, outVars, inVars>>

RunError ==
  /\ Run("error")
  /\ FailOnStrand
  /\ UNCHANGED <<running, outVars, inVars>>

\* writeFrame's posted half: the second look at m_stopped.
RunFrame ==
  /\ Run("frame")
  /\ IF stopped
     THEN UNCHANGED <<running, writeQueue, writing>>
     ELSE /\ writeQueue' = writeQueue \o Head(strand).arg
          /\ writing' = TRUE
          /\ running' = IF writing THEN "none" ELSE "doWrite"
  /\ UNCHANGED <<life, writer, writeOps, onWire, posted, inVars>>

DoWrite ==
  /\ running = "doWrite"
  /\ running' = "none"
  /\ IF stopped
     THEN writing' = FALSE /\ UNCHANGED writeOps
     ELSE writeOps' = Append(writeOps, Head(writeQueue)) /\ UNCHANGED writing
  /\ UNCHANGED <<life, strand, writer, writeQueue, onWire, posted, inVars>>

\* Mutations of RunWritten: the flag stays up, or the frame stays in the queue.
WrittenStaysWriting ==
  /\ Run("written")
  /\ writeQueue' = Tail(writeQueue)
  /\ running' = IF Len(writeQueue) = 1 THEN "none" ELSE "doWrite"
  /\ UNCHANGED <<life, writer, writing, writeOps, onWire, posted, inVars>>

WrittenStaysQueued ==
  /\ Run("written")
  /\ running' = "doWrite"
  /\ UNCHANGED <<life, writer, writing, writeQueue, writeOps, onWire, posted, inVars>>

RunWritten ==
  /\ Run("written")
  /\ writeQueue' = Tail(writeQueue)
  /\ IF Len(writeQueue) = 1
     THEN writing' = FALSE /\ UNCHANGED running
     ELSE running' = "doWrite" /\ UNCHANGED writing
  /\ UNCHANGED <<life, writer, writeOps, onWire, posted, inVars>>

\* doRead's completion: bytes that come after a stop are dropped, and the
\* connection is not read again.
RunRead ==
  /\ Run("read")
  /\ IF stopped
     THEN UNCHANGED <<buf, running>>
     ELSE buf' = buf \o Head(strand).arg /\ running' = "frames"
  /\ UNCHANGED <<life, outVars, reading, arriving, inbound, extracted>>

Have(n) == Len(buf) >= n
BodyLength == 256 * buf[1] + buf[2]
Total == HeaderLen + BodyLength

\* Mutation of NextFrame: a frame is taken as soon as its first byte is there.
NextFrameEarly ==
  /\ running = "frames"
  /\ Have(HeaderLen + 1) /\ BodyLength \in 1 .. MaxFrameLength
  /\ extracted' = Append(extracted, SubSeq(buf, HeaderLen + 1, IF Have(Total) THEN Total ELSE Len(buf)))
  /\ buf' = SubSeq(buf, Total + 1, Len(buf))
  /\ UNCHANGED <<life, strand, running, outVars, reading, arriving, inbound>>

\* FrameReader::next returns a frame; a codec that refuses it fails the
\* connection and the loop goes on with what is buffered.
NextFrame ==
  /\ running = "frames"
  /\ Have(HeaderLen) /\ BodyLength \in 1 .. MaxFrameLength /\ Have(Total)
  /\ extracted' = Append(extracted, SubSeq(buf, HeaderLen + 1, Total))
  /\ buf' = SubSeq(buf, Total + 1, Len(buf))
  /\ \/ UNCHANGED life
     \/ buf[HeaderLen + 1] \in Undecodable /\ FailOnStrand
  /\ UNCHANGED <<strand, running, outVars, reading, arriving, inbound>>

\* No whole frame is buffered: read on.
NeedMore ==
  /\ running = "frames"
  /\ \/ ~Have(HeaderLen)
     \/ Have(HeaderLen) /\ BodyLength \in 1 .. MaxFrameLength /\ ~Have(Total)
  /\ running' = "none"
  /\ DoRead
  /\ UNCHANGED <<life, strand, outVars, arriving, inbound, buf, extracted>>

\* next() throws on a length of zero or beyond the cap.
FramingError ==
  /\ running = "frames"
  /\ Have(HeaderLen) /\ BodyLength \notin 1 .. MaxFrameLength
  /\ FailOnStrand
  /\ running' = "none"
  /\ UNCHANGED <<strand, outVars, inVars>>

-----------------------------------------------------------------------------
StrandStep ==
  \/ RunStart \/ RunClose \/ RunError \/ RunFrame \/ RunWritten \/ RunRead
  \/ DoWrite \/ NextFrame \/ NeedMore \/ FramingError

Next ==
  \/ Start
  \/ \E f \in Outgoing : WriteFrame(f) \/ PostFrame(f)
  \/ \E t \in Stoppers : Stop(t) \/ CloseStreamOnStrand(t)
  \/ PeerSends \/ ReadSome \/ ReadError
  \/ \E k \in 1 .. Len(writeOps) : WriteDone(k) \/ WriteError(k)
  \/ StrandStep

Spec == Init /\ [][Next]_vars

-----------------------------------------------------------------------------
Queued(kind) == {i \in DOMAIN strand : strand[i].kind = kind}

\* Frames reach the wire in the order they were posted, each once, and whole: a
\* second async_write under way (m_writing) would mix the bytes of two.
WireInOrder ==
  /\ IsPrefix(onWire, posted)
  /\ Len(writeOps) <= 1
  /\ \A i, j \in Queued("written") : i = j
  /\ Queued("written") # {} => writeOps = <<>>

\* A working connection goes neither mute nor deaf: a queued frame is being
\* written or about to be, and after start() there is always a read under way
\* or a handler that will start the next one.
NeverStalls ==
  ~stopped =>
    /\ writeQueue # <<>> => \/ Len(writeOps) = 1 \/ running = "doWrite"
                            \/ Queued("written") # {} \/ Queued("error") # {}
    /\ started => \/ reading = 1 \/ running = "frames"
                  \/ Queued("start") # {} \/ Queued("read") # {} \/ Queued("error") # {}

\* However the bytes are cut into reads, next() returns the peer's frames whole
\* and in order, and never goes past one whose length it refuses.
FramesReassembled ==
  /\ \A j \in DOMAIN extracted : extracted[j] = Body(j)
  /\ \A j \in DOMAIN extracted : BodyLen[j] \in 1 .. MaxFrameLength

=============================================================================
