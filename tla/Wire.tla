-------------------------------- MODULE Wire --------------------------------
(***************************************************************************)
(* Frames on one connection (protocol/src/framing.rs and the read_msg and   *)
(* write_msg around it in the daemon, the CLI and the mobile core).         *)
(*   The daemon's handler and its forwarders share the writer under a lock; *)
(*   a frame goes out in as many pieces as the socket takes; a forwarder    *)
(*   that does not stop in time is aborted wherever it stands.              *)
(*   The reader collects a length and a payload across many reads, while    *)
(*   other events of its select! loop keep coming.                          *)
(* A byte is named by its message and its position; the length prefix is    *)
(* what makes it mean something to the reader.                              *)
(***************************************************************************)
EXTENDS Naturals, Sequences, SequencesExt

CONSTANTS
    HeaderLen,      \* the length prefix (four bytes)
    MAX_FRAME_LEN,
    Lengths,        \* payload lengths of the messages that are written
    Handler, Forwarder,
    MaxMessages     \* bound on what each of the two writes

ASSUME WireAssumption ==
    /\ HeaderLen \in Nat \ {0} /\ MAX_FRAME_LEN \in Nat /\ Lengths \subseteq Nat
    /\ Handler # Forwarder /\ "free" \notin {Handler, Forwarder}

Writers == {Handler, Forwarder}

VARIABLES
    frames,     \* history: the messages (payload lengths) in the order their frames began
    writing,    \* per writer: its message's index in frames, 0 between messages
    written,    \* how many bytes of the frame it has written
    count,      \* messages taken up by each writer
    aborted,    \* the forwarder has been aborted
    cut,        \* history: a frame was left unfinished
    locked,     \* who holds the writer's lock, or "free"
    stream,     \* bytes under way
    buffer,     \* bytes of the frame the reader is collecting
    expected,   \* the payload length it was told, Unknown until the header is complete
    received,   \* the messages it decoded; Junk: bytes that happened to decode
    broken,     \* why the reader gave up, or "no"
    ticked      \* another event has interrupted the reader's loop (bound: once)

wireVars == <<frames, writing, written, count, aborted, cut, locked, stream, buffer, expected,
          received, broken, ticked>>
writeVars == <<frames, writing, written, count, aborted, cut, locked>>
readVars == <<buffer, expected, received, broken, ticked>>

Unknown == MAX_FRAME_LEN + 2
Junk == 0

WireInit ==
    /\ frames = <<>> /\ writing = [w \in Writers |-> 0] /\ written = [w \in Writers |-> 0]
    /\ count = [w \in Writers |-> 0] /\ aborted = FALSE /\ cut = FALSE
    /\ locked = "free" /\ stream = <<>>
    /\ buffer = <<>> /\ expected = Unknown /\ received = <<>> /\ broken = "no" /\ ticked = FALSE

Alive(w) == w = Handler \/ ~aborted

-----------------------------------------------------------------------------
(***************************************************************************)
(* Writing.                                                                 *)
(***************************************************************************)
\* write_framed's check, before the first byte.
Encodable(len) == len <= MAX_FRAME_LEN

MayWrite == locked = "free"

\* write_msg: the lock, then the frame.
BeginFrame(w) ==
    /\ Alive(w) /\ writing[w] = 0 /\ count[w] < MaxMessages /\ MayWrite
    /\ \E len \in Lengths :
          /\ Encodable(len)
          /\ frames' = Append(frames, len)
    /\ writing' = [writing EXCEPT ![w] = Len(frames) + 1]
    /\ written' = [written EXCEPT ![w] = 0]
    /\ count' = [count EXCEPT ![w] = @ + 1] /\ locked' = w
    /\ UNCHANGED <<aborted, cut, stream, readVars>>

\* A message that does not fit fails before the lock holder writes anything.
RefuseMessage(w) ==
    /\ Alive(w) /\ writing[w] = 0 /\ count[w] < MaxMessages /\ MayWrite
    /\ \E len \in Lengths : ~Encodable(len)
    /\ count' = [count EXCEPT ![w] = @ + 1]
    /\ UNCHANGED <<frames, writing, written, aborted, cut, locked, stream, readVars>>

FrameLen(m) == HeaderLen + frames[m]
FrameByte(m, k) == [of |-> m, at |-> k]

\* write_vectored takes some of what is left; the lock goes with the last byte.
WriteSome(w) ==
    /\ Alive(w) /\ writing[w] # 0
    /\ \E upTo \in (written[w] + 1)..FrameLen(writing[w]) :
          /\ stream' = stream \o [k \in 1..(upTo - written[w]) |->
                                    FrameByte(writing[w], written[w] + k)]
          /\ IF upTo = FrameLen(writing[w])
             THEN /\ writing' = [writing EXCEPT ![w] = 0]
                  /\ written' = [written EXCEPT ![w] = 0] /\ locked' = "free"
             ELSE written' = [written EXCEPT ![w] = upTo] /\ UNCHANGED <<writing, locked>>
    /\ UNCHANGED <<frames, count, aborted, cut, readVars>>

\* ForwarderTask::shutdown: abort after the grace period; the guard is dropped.
Abort ==
    /\ ~aborted /\ aborted' = TRUE
    /\ cut' = (writing[Forwarder] # 0)
    /\ locked' = IF locked = Forwarder THEN "free" ELSE locked
    /\ UNCHANGED <<frames, writing, written, count, stream, readVars>>

-----------------------------------------------------------------------------
(***************************************************************************)
(* Reading.                                                                 *)
(***************************************************************************)
\* What the first bytes say; after a cut they may be no header at all.
FirstOf(b) == b[1].of
IsFrame(b) == b = [k \in 1..Len(b) |-> FrameByte(FirstOf(b), k)]
Declared(b) == IF IsFrame(b) THEN {frames[FirstOf(b)]} ELSE 0..(MAX_FRAME_LEN + 1)

\* read_exact: as many bytes as there are, up to the end of the header or frame.
Missing == HeaderLen + (IF expected = Unknown THEN 0 ELSE expected) - Len(buffer)

ReadSome ==
    /\ broken = "no" /\ stream # <<>> /\ Missing > 0
    /\ LET n == IF Len(stream) < Missing THEN Len(stream) ELSE Missing IN
       /\ buffer' = buffer \o SubSeq(stream, 1, n)
       /\ stream' = SubSeq(stream, n + 1, Len(stream))
    /\ UNCHANGED <<writeVars, expected, received, broken, ticked>>

\* Fault: the length is not checked before the payload is read.
AcceptedAny(len) == TRUE

Accepted(len) == len <= MAX_FRAME_LEN

\* The declared length is checked before the payload is read.
ReadLength ==
    /\ broken = "no" /\ Len(buffer) = HeaderLen /\ expected = Unknown
    /\ \E len \in Declared(buffer) :
          \/ Accepted(len) /\ expected' = len /\ UNCHANGED broken
          \/ ~Accepted(len) /\ broken' = "too large" /\ UNCHANGED expected
    /\ UNCHANGED <<writeVars, stream, buffer, received, ticked>>

\* Fault: the payload loop expects at least one byte.
FrameCompleteNonEmpty == expected # Unknown /\ expected > 0 /\ Missing = 0

FrameComplete == expected # Unknown /\ Missing = 0

\* Fault: the payload stays in the buffer.
AfterFrameKept == [buffer |-> buffer, expected |-> expected]

AfterFrame == [buffer |-> <<>>, expected |-> Unknown]

\* A complete frame: decoded, or refused (trailing bytes included).
ReadFrame ==
    /\ broken = "no" /\ FrameComplete
    /\ IF IsFrame(buffer)
       THEN received' = Append(received, FirstOf(buffer)) /\ UNCHANGED broken
       ELSE \/ broken' = "decode" /\ UNCHANGED received
            \/ received' = Append(received, Junk) /\ UNCHANGED broken
    /\ buffer' = AfterFrame.buffer /\ expected' = AfterFrame.expected
    /\ UNCHANGED <<writeVars, stream, ticked>>

\* Fault: the read begins anew after every other event.
AfterEventAnew == [buffer |-> <<>>, expected |-> Unknown]

\* The pinned read future outlives the other branches of the select! loop.
AfterEvent == [buffer |-> buffer, expected |-> expected]

OtherEvent ==
    /\ broken = "no" /\ ~ticked /\ ticked' = TRUE
    /\ buffer' = AfterEvent.buffer /\ expected' = AfterEvent.expected
    /\ UNCHANGED <<writeVars, stream, received, broken>>

Reads == ReadSome \/ ReadLength \/ ReadFrame

WireNext ==
    \/ \E w \in Writers : BeginFrame(w) \/ RefuseMessage(w) \/ WriteSome(w)
    \/ Abort \/ Reads \/ OtherEvent

\* Sockets take bytes and readers run.
WireFairness == WF_wireVars(Reads) /\ \A w \in Writers : WF_wireVars(WriteSome(w))

WireSpec == WireInit /\ [][WireNext]_wireVars /\ WireFairness

-----------------------------------------------------------------------------
(***************************************************************************)
(* Properties.                                                              *)
(***************************************************************************)
\* The types, and: the reader never holds more than the largest frame, whatever
\* length it is told.
WireTypeOK ==
    /\ Len(buffer) <= HeaderLen + MAX_FRAME_LEN
    /\ locked \in Writers \cup {"free"}
    /\ \A w \in Writers : writing[w] # 0 /\ Alive(w) => written[w] < FrameLen(writing[w])

\* The reader decodes exactly the messages that were written, in the order
\* their frames began, as long as no frame was cut off; and everything before
\* the cut even then.
FramesIntact ==
    LET intact == CHOOSE k \in 0..Len(received) :
                    /\ \A i \in 1..k : received[i] = i
                    /\ k = Len(received) \/ received[k + 1] # k + 1
    IN  intact < Len(received) => cut

\* The reader gives up on a connection only after a write was cut off: no frame
\* the writer accepted is too large for the reader, and no event of the
\* reader's loop makes it lose its place.
BreaksOnlyIfCut == broken # "no" => cut

\* In the end every frame that was begun has been received, once and in order,
\* unless a frame was cut off.
FramesArrive == <>[](cut \/ received = [m \in 1..Len(frames) |-> m])

\* Frames are read as they were written, and the connection is given up only
\* after a write that was cut off.
WireInv ==
    /\ WireTypeOK
    /\ FramesIntact
    /\ BreaksOnlyIfCut
=============================================================================
