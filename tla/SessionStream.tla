--------------------------- MODULE SessionStream ---------------------------
(***************************************************************************)
(* How the output of one PTY session reaches its attached clients:         *)
(*                                                                         *)
(*   - the PTY I/O thread (run_pty_io, Session::record_output and          *)
(*     Session::mark_exited in crates/daemon/src/session.rs), which pushes *)
(*     each chunk to the ring and the terminal projection and then         *)
(*     broadcasts it;                                                      *)
(*   - the AttachSession handler of each connection (ipc.rs:706-824 and    *)
(*     its twin in transport_iroh.rs) with Session::attach_client,         *)
(*     Session::subscribe and Session::attach_bytes;                       *)
(*   - the forwarder task of each attachment (forward.rs, ipc.rs:799-823); *)
(*   - the client (cli/src/attach_loop.rs, mobile-core AttachedSession),   *)
(*     which caches the last offset it saw and re-attaches with it.        *)
(*                                                                         *)
(* Bytes are positions in the PTY stream, as in PtyRing.  A handler is     *)
(* split where another thread can run between two of its steps: at a lock  *)
(* it releases or at an await.                                             *)
(***************************************************************************)
EXTENDS PtyRing

CONSTANTS
  Clients,         \* connections that attach to the session
  QueueCapacity,   \* broadcast::channel(1024) of a session
  WireCapacity,    \* frames in flight before write_msg waits for the client
  MaxNotes,        \* bound: AgentStateChanged events of a behaviour
  MaxAttaches,     \* bound: times a client opens a connection and attaches
  ParserMayPanic   \* whether the terminal emulator may panic on some bytes

ASSUME StreamAssumption ==
  /\ QueueCapacity \in Nat \ {0}
  /\ WireCapacity \in Nat \ {0}
  /\ MaxNotes \in Nat
  /\ MaxAttaches \in Nat
  /\ ParserMayPanic \in BOOLEAN
  /\ "io" \notin Clients /\ "resizer" \notin Clients

VARIABLES
  \* the session
  term,       \* TerminalProjection: is there a model, and what it ingested
  ioPc,       \* program counter of the PTY I/O thread
  chunk,      \* the Output event the I/O thread has still to broadcast
  exitCode,   \* Session::exit_code is set
  reg,        \* where the registry finds the session
  bcast,      \* every event sent to the session's broadcast channel
  notes,      \* number of AgentStateChanged events among them
  \* the threads that may rebuild the terminal projection
  held,       \* the raw scrollback such a thread has copied from the ring
  rzPc,       \* program counter of the debounced resize thread
  \* the connections, daemon side
  hPc,        \* program counter of the connection's handler
  fwd,        \* the connection has a running forwarder task
  want,       \* last_seen_seq of the AttachSession in progress
  rx,         \* events the connection's broadcast receiver has consumed
  attached,   \* the attached_seq the forwarder filters with
  wire,       \* frames written to the connection and not yet read
  \* the clients
  phase,      \* what the client is doing
  seen,       \* its cached last_seen_seq
  shown,      \* position of the last byte its screen shows
  whole,      \* its screen has no hole and no byte twice
  attaches    \* connections it has opened

sessionVars == <<term, ioPc, chunk, exitCode, reg, bcast, notes>>
rebuildVars == <<held, rzPc>>
handlerVars == <<hPc, fwd, want, rx, attached>>
clientVars  == <<phase, seen, shown, whole, attaches>>

vars == <<ringVars, sessionVars, rebuildVars, handlerVars, wire, clientVars>>

-----------------------------------------------------------------------------
(***************************************************************************)
(* Values.                                                                 *)
(***************************************************************************)

NoSeq == -1                       \* last_seen_seq = None

Rebuilders == Clients \cup {"io", "resizer"}

IoPcs    == {"poll", "grab", "rebuild", "publish", "exiting", "done"}
RzPcs    == {"wait", "grab", "rebuild"}
HPcs     == {"idle", "lookup", "stop", "resize", "grab", "rebuild",
             "subscribe", "capture", "revive", "resnap", "check"}
Phases   == {"idle", "waiting", "streaming", "lagged", "exited", "history",
             "ended"}
MsgKinds == {"replay", "snapshot", "scrollback", "history", "output", "note",
             "exited", "lag", "error"}

(***************************************************************************)
(* A frame or a broadcast event.  Output, replay, scrollback (the raw ring *)
(* of a live session) and history (that of a restored one) carry the bytes *)
(* from+1 .. upto and the offset seq; a snapshot shows the stream up to    *)
(* upto, with no hole if clean.  The other kinds carry no bytes: from,     *)
(* upto and seq then record the place in the stream where they stand.      *)
(***************************************************************************)
Msg(kind, from, upto, seq, clean) ==
  [kind |-> kind, from |-> from, upto |-> upto, seq |-> seq, clean |-> clean]

Marker(kind, at) == Msg(kind, at, at, at, TRUE)

MsgType ==
  [kind : MsgKinds, from : Nat, upto : Nat, seq : Nat, clean : BOOLEAN]

\* The terminal projection: alive if it has a model, which has parsed the
\* stream up to upto, and clean if it skipped no byte on the way.
NewTerm == [alive |-> TRUE, upto |-> 0, clean |-> TRUE]
TermType == [alive : BOOLEAN, upto : Nat, clean : BOOLEAN]

\* A copy of the ring's data and where it starts.
Scrollback(r) == [start |-> r.start, data |-> r.data]
NoScrollback == [start |-> 0, data |-> <<>>]
ScrollEnd(s) == s.start + Len(s.data)

Init ==
  /\ RingInit
  /\ term = NewTerm
  /\ ioPc = "poll"
  /\ chunk = Marker("output", 0)
  /\ exitCode = FALSE
  /\ reg = "live"
  /\ bcast = <<>>
  /\ notes = 0
  /\ held = [t \in Rebuilders |-> NoScrollback]
  /\ rzPc = "wait"
  /\ hPc = [c \in Clients |-> "idle"]
  /\ fwd = [c \in Clients |-> FALSE]
  /\ want = [c \in Clients |-> NoSeq]
  /\ rx = [c \in Clients |-> 0]
  /\ attached = [c \in Clients |-> 0]
  /\ wire = [c \in Clients |-> <<>>]
  /\ phase = [c \in Clients |-> "idle"]
  /\ seen = [c \in Clients |-> NoSeq]
  /\ shown = [c \in Clients |-> 0]
  /\ whole = [c \in Clients |-> TRUE]
  /\ attaches = [c \in Clients |-> 0]

-----------------------------------------------------------------------------
(***************************************************************************)
(* The terminal projection (terminal_model.rs:177-290).                    *)
(***************************************************************************)

DeadTerm == [alive |-> FALSE, upto |-> 0, clean |-> TRUE]

\* TerminalProjection::ingest of the bytes from+1 .. upto.
Ingested(from, upto) ==
  IF term.alive
  THEN {[alive |-> TRUE, upto |-> upto,
         clean |-> term.clean /\ term.upto = from]}
       \cup (IF ParserMayPanic THEN {DeadTerm} ELSE {})
  ELSE {term}

\* TerminalProjection::rebuild from a copied scrollback.
Rebuilt(s) ==
  {[alive |-> TRUE, upto |-> ScrollEnd(s), clean |-> TRUE]}
    \cup (IF ParserMayPanic THEN {DeadTerm} ELSE {})

\* TerminalProjection::resize: no model, or a model that panics, fails.
Resized ==
  IF term.alive /\ ParserMayPanic THEN {term, DeadTerm} ELSE {term}

\* rebuild_terminal_projection_from_ring copies the ring, unlocks it, and
\* only then takes the terminal lock.
Grab(t) ==
  /\ held' = [held EXCEPT ![t] = Scrollback(ring)]
  /\ UNCHANGED term

Rebuild(t) ==
  /\ term' \in Rebuilt(held[t])
  /\ held' = [held EXCEPT ![t] = NoScrollback]

-----------------------------------------------------------------------------
(***************************************************************************)
(* The PTY I/O thread and the other threads of the session.                *)
(***************************************************************************)

\* Position of the stream after the last broadcast event.
BcastEnd == IF Len(bcast) = 0 THEN 0 ELSE bcast[Len(bcast)].upto

Broadcast(e) == bcast' = Append(bcast, e)

(***************************************************************************)
(* drain_pty_output reads a chunk; record_output pushes it to the ring and *)
(* feeds it to the projection under both locks.                            *)
(***************************************************************************)
ReadChunk(n) ==
  /\ ioPc = "poll"
  /\ Push(n)
  /\ chunk' = Msg("output", produced, produced + n, SaturatingSeq(ring, n), TRUE)
  /\ term' \in Ingested(produced, produced + n)
  /\ ioPc' = IF term'.alive THEN "publish" ELSE "grab"
  /\ UNCHANGED <<exitCode, reg, bcast, notes, rebuildVars, handlerVars, wire,
                 clientVars>>

\* record_output's rebuild of a projection its chunk has invalidated.
IoGrab ==
  /\ ioPc = "grab"
  /\ Grab("io")
  /\ ioPc' = "rebuild"
  /\ UNCHANGED <<ringVars, chunk, exitCode, reg, bcast, notes, rzPc,
                 handlerVars, wire, clientVars>>

IoRebuild ==
  /\ ioPc = "rebuild"
  /\ Rebuild("io")
  /\ ioPc' = "publish"
  /\ UNCHANGED <<ringVars, chunk, exitCode, reg, bcast, notes, rzPc,
                 handlerVars, wire, clientVars>>

\* record_output sends the chunk to the subscribers.
Publish ==
  /\ ioPc = "publish"
  /\ Broadcast(chunk)
  /\ ioPc' = "poll"
  /\ UNCHANGED <<ringVars, term, chunk, exitCode, reg, notes, rebuildVars,
                 handlerVars, wire, clientVars>>

\* set_state by any thread (I/O, idle loop, input, agent hook): it sends
\* AgentStateChanged, also after the session has exited.
StateChange ==
  /\ notes < MaxNotes
  /\ Broadcast(Marker("note", BcastEnd))
  /\ notes' = notes + 1
  /\ UNCHANGED <<ringVars, term, ioPc, chunk, exitCode, reg, rebuildVars,
                 handlerVars, wire, clientVars>>

\* Fault variant of MarkExited: the exit overtakes a chunk not yet broadcast.
MarkExitedUndrained ==
  /\ ioPc \in {"poll", "publish"}
  /\ exitCode' = TRUE
  /\ ioPc' = "exiting"
  /\ UNCHANGED <<ringVars, term, chunk, reg, bcast, notes, rebuildVars,
                 handlerVars, wire, clientVars>>

(***************************************************************************)
(* The child is gone, the PTY is closed or the session is being killed:    *)
(* mark_exited stores the exit code, and then tells the subscribers.       *)
(***************************************************************************)
MarkExited ==
  /\ ioPc = "poll"
  /\ exitCode' = TRUE
  /\ ioPc' = "exiting"
  /\ UNCHANGED <<ringVars, term, chunk, reg, bcast, notes, rebuildVars,
                 handlerVars, wire, clientVars>>

AnnounceExit ==
  /\ ioPc = "exiting"
  /\ Broadcast(Marker("exited", BcastEnd))
  /\ ioPc' = "done"
  /\ UNCHANGED <<ringVars, term, chunk, exitCode, reg, notes, rebuildVars,
                 handlerVars, wire, clientVars>>

\* evict_naturally_exited_session: the raw ring becomes the history.
Evict ==
  /\ reg = "live" /\ exitCode
  /\ reg' = "restored"
  /\ UNCHANGED <<ringVars, term, ioPc, chunk, exitCode, bcast, notes,
                 rebuildVars, handlerVars, wire, clientVars>>

\* kill_session_for removes a live or a restored session.
KillSession ==
  /\ reg # "gone"
  /\ reg' = "gone"
  /\ UNCHANGED <<ringVars, term, ioPc, chunk, exitCode, bcast, notes,
                 rebuildVars, handlerVars, wire, clientVars>>

\* Session::resize holds the PTY master lock to its end, a rebuild included.
ResizeLockFree ==
  rzPc = "wait" /\ \A c \in Clients : hPc[c] \notin {"grab", "rebuild"}

\* The debounced resize thread resizes the projection (session.rs:520-563).
DebouncedResize ==
  /\ rzPc = "wait" /\ ~exitCode
  /\ ResizeLockFree
  /\ term' \in Resized
  /\ ~term'.alive
  /\ rzPc' = "grab"
  /\ UNCHANGED <<ringVars, ioPc, chunk, exitCode, reg, bcast, notes, held,
                 handlerVars, wire, clientVars>>

ResizerGrab ==
  /\ rzPc = "grab"
  /\ Grab("resizer")
  /\ rzPc' = "rebuild"
  /\ UNCHANGED <<ringVars, ioPc, chunk, exitCode, reg, bcast, notes,
                 handlerVars, wire, clientVars>>

ResizerRebuild ==
  /\ rzPc = "rebuild"
  /\ Rebuild("resizer")
  /\ rzPc' = "wait"
  /\ UNCHANGED <<ringVars, ioPc, chunk, exitCode, reg, bcast, notes,
                 handlerVars, wire, clientVars>>

-----------------------------------------------------------------------------
(***************************************************************************)
(* The AttachSession handler of a connection and its forwarder task.       *)
(***************************************************************************)

Step(c, from, to) ==
  /\ hPc[c] = from
  /\ hPc' = [hPc EXCEPT ![c] = to]

Write(c, msgs) == wire' = [wire EXCEPT ![c] = @ \o msgs]

\* The offset reached by the frames written to a connection.
Sent(c) ==
  IF Len(wire[c]) = 0
  THEN IF seen[c] = NoSeq THEN 0 ELSE seen[c]
  ELSE wire[c][Len(wire[c])].seq

\* The registry has the session live: the handler keeps hold of it.
LookupLive(c) ==
  /\ reg = "live"
  /\ Step(c, "lookup", "stop")
  /\ UNCHANGED <<ringVars, sessionVars, rebuildVars, fwd, want, rx, attached, wire,
                 clientVars>>

\* A restored session is answered with its stored scrollback and its exit,
\* whatever offset the client asked for.
LookupRestored(c) ==
  /\ reg = "restored"
  /\ Step(c, "lookup", "idle")
  /\ LET end == ScrollEnd(Scrollback(ring))
     IN  Write(c, <<Msg("history", ring.start, end, end, TRUE),
                    Marker("exited", end)>>)
  /\ UNCHANGED <<ringVars, sessionVars, rebuildVars, fwd, want, rx, attached,
                 clientVars>>

\* Error { NotFound }.
LookupGone(c) ==
  /\ reg = "gone"
  /\ Step(c, "lookup", "idle")
  /\ Write(c, <<Marker("error", 0)>>)
  /\ UNCHANGED <<ringVars, sessionVars, rebuildVars, fwd, want, rx, attached,
                 clientVars>>

\* The forwarder of the previous attachment is shut down and waited for.
StopForwarder(c) ==
  /\ Step(c, "stop", "resize")
  /\ fwd' = [fwd EXCEPT ![c] = FALSE]
  /\ UNCHANGED <<ringVars, sessionVars, rebuildVars, want, rx, attached, wire,
                 clientVars>>

\* attach_client resizes the PTY and the projection at once.
AttachClient(c) ==
  /\ ResizeLockFree
  /\ term' \in Resized
  /\ Step(c, "resize", IF term'.alive THEN "subscribe" ELSE "grab")
  /\ UNCHANGED <<ringVars, ioPc, chunk, exitCode, reg, bcast, notes,
                 rebuildVars, fwd, want, rx, attached, wire, clientVars>>

\* The PTY refuses the new size: Error { Internal }.
AttachClientFails(c) ==
  /\ ResizeLockFree
  /\ Step(c, "resize", "idle")
  /\ Write(c, <<Marker("error", 0)>>)
  /\ UNCHANGED <<ringVars, sessionVars, rebuildVars, fwd, want, rx, attached,
                 clientVars>>

ClientGrab(c) ==
  /\ Step(c, "grab", "rebuild")
  /\ Grab(c)
  /\ UNCHANGED <<ringVars, ioPc, chunk, exitCode, reg, bcast, notes, rzPc,
                 fwd, want, rx, attached, wire, clientVars>>

ClientRebuild(c) ==
  /\ Step(c, "rebuild", "subscribe")
  /\ Rebuild(c)
  /\ UNCHANGED <<ringVars, ioPc, chunk, exitCode, reg, bcast, notes, rzPc,
                 fwd, want, rx, attached, wire, clientVars>>

\* Session::subscribe: the receiver starts after the events sent so far.
Subscribe(c) ==
  /\ Step(c, "subscribe", "capture")
  /\ rx' = [rx EXCEPT ![c] = Len(bcast)]
  /\ UNCHANGED <<ringVars, sessionVars, rebuildVars, fwd, want, attached, wire,
                 clientVars>>

(***************************************************************************)
(* Session::attach_bytes, under the ring lock and, unless the ring can     *)
(* replay, the terminal lock.  The Attached frame is written at once.      *)
(***************************************************************************)
Reply(c, m) ==
  /\ Write(c, <<m>>)
  /\ attached' = [attached EXCEPT ![c] = m.seq]

CanReplay(c) == want[c] # NoSeq /\ HasReplay(ring, want[c])

CaptureReplay(c) ==
  /\ CanReplay(c)
  /\ Step(c, "capture", "check")
  /\ LET end == want[c] + Len(ReplayFrom(ring, want[c]))
     IN  Reply(c, Msg("replay", want[c], end, end, TRUE))
  /\ UNCHANGED <<ringVars, sessionVars, rebuildVars, fwd, want, rx, clientVars>>

CaptureSnapshot(c) ==
  /\ ~CanReplay(c) /\ term.alive
  /\ Step(c, "capture", "check")
  /\ Reply(c, Msg("snapshot", 0, term.upto, ring.next, term.clean))
  /\ UNCHANGED <<ringVars, sessionVars, rebuildVars, fwd, want, rx, clientVars>>

\* The renderer panics: the raw scrollback is sent instead.
CaptureRaw(c) ==
  /\ ~CanReplay(c) /\ term.alive /\ ParserMayPanic
  /\ Step(c, "capture", "check")
  /\ Reply(c, Msg("scrollback", ring.start, ScrollEnd(Scrollback(ring)),
                  ring.next, TRUE))
  /\ UNCHANGED <<ringVars, sessionVars, rebuildVars, fwd, want, rx, clientVars>>

\* There is no model: both locks are released with the scrollback copied ...
CaptureDead(c) ==
  /\ ~CanReplay(c) /\ ~term.alive
  /\ Step(c, "capture", "revive")
  /\ held' = [held EXCEPT ![c] = Scrollback(ring)]
  /\ attached' = [attached EXCEPT ![c] = ring.next]
  /\ UNCHANGED <<ringVars, sessionVars, rzPc, fwd, want, rx, wire, clientVars>>

\* ... the projection is rebuilt from that copy ...
Revive(c) ==
  /\ Step(c, "revive", "resnap")
  /\ term' \in Rebuilt(held[c])
  /\ UNCHANGED <<ringVars, ioPc, chunk, exitCode, reg, bcast, notes,
                 rebuildVars, fwd, want, rx, attached, wire, clientVars>>

\* ... and rendered again, or the copy is sent raw; the offset is the old one.
Resnap(c) ==
  /\ Step(c, "resnap", "check")
  /\ \/ /\ term.alive
        /\ Write(c, <<Msg("snapshot", 0, term.upto, attached[c], term.clean)>>)
     \/ /\ ~term.alive \/ ParserMayPanic
        /\ Write(c, <<Msg("scrollback", held[c].start, ScrollEnd(held[c]),
                          attached[c], TRUE)>>)
  /\ held' = [held EXCEPT ![c] = NoScrollback]
  /\ UNCHANGED <<ringVars, sessionVars, rzPc, fwd, want, rx, attached, clientVars>>

\* Fault variant of CheckExited: the forwarder is started all the same.
CheckExitedForwards(c) ==
  /\ exitCode
  /\ Step(c, "check", "idle")
  /\ fwd' = [fwd EXCEPT ![c] = TRUE]
  /\ Write(c, <<Marker("exited", Sent(c))>>)
  /\ UNCHANGED <<ringVars, sessionVars, rebuildVars, want, rx, attached,
                 clientVars>>

\* The session has exited meanwhile: say so and drop the receiver.
CheckExited(c) ==
  /\ exitCode
  /\ Step(c, "check", "idle")
  /\ Write(c, <<Marker("exited", Sent(c))>>)
  /\ UNCHANGED <<ringVars, sessionVars, rebuildVars, fwd, want, rx, attached,
                 clientVars>>

\* Fault variant of CheckRunning: the receiver is created with the forwarder,
\* after the replay was captured.
CheckRunningSubscribesLate(c) ==
  /\ ~exitCode
  /\ Step(c, "check", "idle")
  /\ fwd' = [fwd EXCEPT ![c] = TRUE]
  /\ rx' = [rx EXCEPT ![c] = Len(bcast)]
  /\ UNCHANGED <<ringVars, sessionVars, rebuildVars, want, attached, wire,
                 clientVars>>

\* Fault variant of CheckRunning: the exit code is not looked at.
CheckRunningUnchecked(c) ==
  /\ Step(c, "check", "idle")
  /\ fwd' = [fwd EXCEPT ![c] = TRUE]
  /\ UNCHANGED <<ringVars, sessionVars, rebuildVars, want, rx, attached, wire,
                 clientVars>>

CheckRunning(c) ==
  /\ ~exitCode
  /\ Step(c, "check", "idle")
  /\ fwd' = [fwd EXCEPT ![c] = TRUE]
  /\ UNCHANGED <<ringVars, sessionVars, rebuildVars, want, rx, attached, wire,
                 clientVars>>

(***************************************************************************)
(* The forwarder: recv_attached_event, output_was_replayed and write_msg.  *)
(* A receiver more than QueueCapacity events behind gets Lagged, which     *)
(* ends the attachment after one Lag frame.                                *)
(***************************************************************************)
Lagging(c) == Len(bcast) - rx[c] > QueueCapacity

\* Fault variant of OutputWasReplayed: the boundary chunk is sent again.
OutputWasReplayedStrict(e, attachedSeq) ==
  e.kind = "output" /\ e.seq < attachedSeq

\* Fault variant of OutputWasReplayed: no filter.
OutputNeverReplayed(e, attachedSeq) == FALSE

OutputWasReplayed(e, attachedSeq) == e.kind = "output" /\ e.seq <= attachedSeq

\* Fault variant of ForwardLag: forwarding goes on after the Lag frame.
ForwardLagContinues(c) ==
  /\ Lagging(c)
  /\ Len(wire[c]) < WireCapacity
  /\ fwd[c]
  /\ Write(c, <<Marker("lag", Sent(c))>>)
  /\ rx' = [rx EXCEPT ![c] = Len(bcast) - QueueCapacity]
  /\ UNCHANGED <<ringVars, sessionVars, rebuildVars, hPc, fwd, want, attached,
                 clientVars>>

\* Fault variant of ForwardLag: the forwarder stops without a word.
ForwardLagSilent(c) ==
  /\ Lagging(c)
  /\ fwd[c]
  /\ fwd' = [fwd EXCEPT ![c] = FALSE]
  /\ UNCHANGED <<ringVars, sessionVars, rebuildVars, hPc, want, rx, attached,
                 wire, clientVars>>

ForwardLag(c) ==
  /\ Lagging(c)
  /\ Len(wire[c]) < WireCapacity
  /\ fwd[c]
  /\ fwd' = [fwd EXCEPT ![c] = FALSE]
  /\ Write(c, <<Marker("lag", Sent(c))>>)
  /\ UNCHANGED <<ringVars, sessionVars, rebuildVars, hPc, want, rx, attached,
                 clientVars>>

ForwardSkip(c) ==
  /\ fwd[c]
  /\ rx[c] < Len(bcast) /\ ~Lagging(c)
  /\ OutputWasReplayed(bcast[rx[c] + 1], attached[c])
  /\ rx' = [rx EXCEPT ![c] = @ + 1]
  /\ UNCHANGED <<ringVars, sessionVars, rebuildVars, hPc, fwd, want, attached, wire,
                 clientVars>>

ForwardEvent(c) ==
  /\ fwd[c]
  /\ rx[c] < Len(bcast) /\ ~Lagging(c)
  /\ Len(wire[c]) < WireCapacity
  /\ LET e == bcast[rx[c] + 1]
     IN  /\ ~OutputWasReplayed(e, attached[c])
         /\ Write(c, <<IF e.kind = "output" THEN e
                       ELSE Marker(e.kind, Sent(c))>>)
  /\ rx' = [rx EXCEPT ![c] = @ + 1]
  /\ UNCHANGED <<ringVars, sessionVars, rebuildVars, hPc, fwd, want, attached,
                 clientVars>>

-----------------------------------------------------------------------------
(***************************************************************************)
(* The client.                                                             *)
(***************************************************************************)

SendAttach(c, lastSeen) ==
  /\ phase' = [phase EXCEPT ![c] = "waiting"]
  /\ want' = [want EXCEPT ![c] = lastSeen]
  /\ Step(c, "idle", "lookup")

\* A new terminal attaches with no offset.
AttachCold(c) ==
  /\ phase[c] = "idle" /\ attaches[c] < MaxAttaches
  /\ SendAttach(c, NoSeq)
  /\ seen' = [seen EXCEPT ![c] = NoSeq]
  /\ shown' = [shown EXCEPT ![c] = 0]
  /\ whole' = [whole EXCEPT ![c] = TRUE]
  /\ attaches' = [attaches EXCEPT ![c] = @ + 1]
  /\ UNCHANGED <<ringVars, sessionVars, rebuildVars, fwd, rx, attached, wire>>

\* A terminal that lost its connection attaches again with its offset
\* (attach_session_from).
AttachWarm(c) ==
  /\ phase[c] = "idle" /\ attaches[c] < MaxAttaches
  /\ seen[c] # NoSeq
  /\ SendAttach(c, seen[c])
  /\ attaches' = [attaches EXCEPT ![c] = @ + 1]
  /\ UNCHANGED <<ringVars, sessionVars, rebuildVars, fwd, rx, attached, wire, seen,
                 shown, whole>>

\* Recovery from Lag: run_attach_session's loop goes round.
AttachAfterLag(c) ==
  /\ phase[c] = "lagged"
  /\ SendAttach(c, seen[c])
  /\ UNCHANGED <<ringVars, sessionVars, rebuildVars, fwd, rx, attached, wire, seen,
                 shown, whole, attaches>>

Receive(c) ==
  /\ Len(wire[c]) > 0
  /\ wire' = [wire EXCEPT ![c] = Tail(@)]
  /\ UNCHANGED <<ringVars, sessionVars, rebuildVars, handlerVars, attaches>>

\* Attached: the initial bytes are drawn and the offset is cached.  A
\* snapshot repaints the screen; raw bytes are appended to it.
ReceiveAttached(c) ==
  LET m == Head(wire[c]) IN
  /\ Receive(c)
  /\ phase[c] = "waiting"
  /\ m.kind \in {"replay", "snapshot", "scrollback", "history"}
  /\ phase' = [phase EXCEPT ![c] =
                 IF m.kind = "history" THEN "history" ELSE "streaming"]
  /\ whole' = [whole EXCEPT ![c] =
                 IF m.kind = "snapshot" THEN m.clean
                 ELSE @ /\ (seen[c] = NoSeq \/ m.from = shown[c])]
  /\ seen' = [seen EXCEPT ![c] = m.seq]
  /\ shown' = [shown EXCEPT ![c] = m.upto]

ReceiveOutput(c) ==
  LET m == Head(wire[c]) IN
  /\ Receive(c)
  /\ phase[c] = "streaming" /\ m.kind = "output"
  /\ whole' = [whole EXCEPT ![c] = @ /\ m.from = shown[c]]
  /\ seen' = [seen EXCEPT ![c] = m.seq]
  /\ shown' = [shown EXCEPT ![c] = m.upto]
  /\ UNCHANGED phase

ReceiveNote(c) ==
  /\ Receive(c)
  /\ phase[c] = "streaming" /\ Head(wire[c]).kind = "note"
  /\ UNCHANGED <<phase, seen, shown, whole>>

ReceiveLag(c) ==
  /\ Receive(c)
  /\ phase[c] = "streaming" /\ Head(wire[c]).kind = "lag"
  /\ phase' = [phase EXCEPT ![c] = "lagged"]
  /\ UNCHANGED <<seen, shown, whole>>

ReceiveEnd(c) ==
  LET m == Head(wire[c]) IN
  /\ Receive(c)
  /\ \/ phase[c] = "waiting" /\ m.kind = "error"
     \/ phase[c] \in {"streaming", "history"} /\ m.kind = "exited"
  /\ phase' = [phase EXCEPT ![c] = IF @ = "streaming" THEN "exited" ELSE "ended"]
  /\ UNCHANGED <<seen, shown, whole>>

(***************************************************************************)
(* The connection ends: the client detaches, quits or loses the network,   *)
(* or a finished client closes it.  The frames in flight are lost.  The    *)
(* handler notices where it next waits for the connection.                 *)
(***************************************************************************)
Disconnect(c) ==
  /\ phase[c] # "idle"
  /\ hPc[c] \in {"idle", "lookup", "check"}
  /\ hPc' = [hPc EXCEPT ![c] = "idle"]
  /\ fwd' = [fwd EXCEPT ![c] = FALSE]
  /\ wire' = [wire EXCEPT ![c] = <<>>]
  /\ phase' = [phase EXCEPT ![c] =
                 CASE @ \in {"exited", "ended"} -> @
                   [] @ = "history" -> "ended"
                   [] OTHER -> "idle"]
  /\ UNCHANGED <<ringVars, sessionVars, rebuildVars, want, rx, attached, seen,
                 shown, whole, attaches>>

-----------------------------------------------------------------------------

Session ==
  \/ \E n \in 1..MaxChunk : ReadChunk(n)
  \/ IoGrab \/ IoRebuild \/ Publish
  \/ MarkExited \/ AnnounceExit
  \/ StateChange
  \/ Evict \/ KillSession
  \/ DebouncedResize \/ ResizerGrab \/ ResizerRebuild

Handler(c) ==
  \/ LookupLive(c) \/ LookupRestored(c) \/ LookupGone(c)
  \/ StopForwarder(c) \/ AttachClient(c) \/ AttachClientFails(c)
  \/ ClientGrab(c) \/ ClientRebuild(c)
  \/ Subscribe(c)
  \/ CaptureReplay(c) \/ CaptureSnapshot(c) \/ CaptureRaw(c) \/ CaptureDead(c)
  \/ Revive(c) \/ Resnap(c)
  \/ CheckExited(c) \/ CheckRunning(c)
  \/ ForwardLag(c) \/ ForwardSkip(c) \/ ForwardEvent(c)

Reader(c) ==
  \/ ReceiveAttached(c) \/ ReceiveOutput(c) \/ ReceiveNote(c)
  \/ ReceiveLag(c) \/ ReceiveEnd(c)
  \/ AttachAfterLag(c)

User(c) == AttachCold(c) \/ AttachWarm(c) \/ Disconnect(c)

Next ==
  \/ Session
  \/ \E c \in Clients : Handler(c) \/ Reader(c) \/ User(c)

Spec == Init /\ [][Next]_vars

(***************************************************************************)
(* Fairness: the operating system runs the session's threads, tokio runs   *)
(* the handlers and forwarders, and a client that is not stopped reads     *)
(* what it is sent and re-attaches after Lag.  Nothing is assumed of the   *)
(* child, of the users or of the network.                                  *)
(***************************************************************************)
Fairness ==
  /\ WF_vars(IoGrab \/ IoRebuild \/ Publish \/ AnnounceExit)
  /\ WF_vars(ResizerGrab \/ ResizerRebuild)
  /\ \A c \in Clients : WF_vars(Handler(c)) /\ WF_vars(Reader(c))

FairSpec == Spec /\ Fairness

-----------------------------------------------------------------------------
(***************************************************************************)
(* Type invariant.                                                         *)
(***************************************************************************)
TypeOK ==
  /\ RingTypeOK
  /\ term \in TermType
  /\ ioPc \in IoPcs
  /\ chunk \in MsgType
  /\ exitCode \in BOOLEAN
  /\ reg \in {"live", "restored", "gone"}
  /\ bcast \in Seq(MsgType)
  /\ notes \in 0..MaxNotes
  /\ held \in [Rebuilders -> [start : Nat, data : Seq(Nat)]]
  /\ rzPc \in RzPcs
  /\ hPc \in [Clients -> HPcs]
  /\ fwd \in [Clients -> BOOLEAN]
  /\ want \in [Clients -> Nat \cup {NoSeq}]
  /\ rx \in [Clients -> Nat]
  /\ attached \in [Clients -> Nat]
  /\ wire \in [Clients -> Seq(MsgType)]
  /\ phase \in [Clients -> Phases]
  /\ seen \in [Clients -> Nat \cup {NoSeq}]
  /\ shown \in [Clients -> Nat]
  /\ whole \in [Clients -> BOOLEAN]
  /\ attaches \in [Clients -> Nat]

AttachReplies == {"replay", "snapshot", "scrollback", "history"}

(***************************************************************************)
(* The hand-off from replay to live output neither skips nor repeats a     *)
(* byte: the bytes of every Output and of every replay start at the offset *)
(* the client has reached when it reads them, however pushes, broadcasts,  *)
(* attaches, lags and reconnections interleave, and also when the terminal *)
(* projection panics (subscribe before attach_bytes, ipc.rs:773-774, with  *)
(* the filter of forward.rs:27-29).                                        *)
(***************************************************************************)
OffsetsContiguous ==
  ~Exhausted =>
    \A c \in Clients : \A i \in 1..Len(wire[c]) :
      wire[c][i].kind \in {"output", "replay"} =>
        wire[c][i].from = IF i = 1 THEN seen[c] ELSE wire[c][i - 1].seq

(***************************************************************************)
(* While the terminal emulator does not panic, the screen of every client  *)
(* of the live session is exact: all bytes up to the cached last_seen_seq, *)
(* in order and once each, a snapshot included (attach_bytes captures the  *)
(* snapshot and end_seq under one lock window, session.rs:241-256).        *)
(***************************************************************************)
ScreenExact ==
  ~ParserMayPanic /\ ~Exhausted =>
    \A c \in Clients :
      phase[c] \in {"streaming", "lagged", "exited"} =>
        whole[c] /\ shown[c] = seen[c]

(***************************************************************************)
(* The first frame a client reads after AttachSession is its answer: a     *)
(* late Output, Lag or AgentStateChanged of the previous attachment never  *)
(* comes before it, which run_attach_session would reject                  *)
(* (attach_loop.rs:155-165).                                               *)
(***************************************************************************)
AttachReplyFirst ==
  \A c \in Clients :
    phase[c] = "waiting" /\ Len(wire[c]) > 0 =>
      wire[c][1].kind \in AttachReplies \cup {"error"}

(***************************************************************************)
(* Lag is terminal: it is the last frame of its attachment and the         *)
(* forwarder has stopped (TerminalMessage, ipc.rs:814-819).                *)
(***************************************************************************)
LagIsTerminal ==
  \A c \in Clients : \A i \in 1..Len(wire[c]) :
    wire[c][i].kind = "lag" => i = Len(wire[c]) /\ ~fwd[c]

(***************************************************************************)
(* A client learns of the exit at most once per attachment, and only       *)
(* AgentStateChanged may follow it, or the Lag of a receiver that missed   *)
(* too many of these, whether the attach handler or the forwarder reports  *)
(* the exit (ipc.rs:785-795 against session.rs:715-725).                   *)
(***************************************************************************)
ExitAnnouncedOnce ==
  \A c \in Clients : \A i, j \in 1..Len(wire[c]) :
    i < j /\ wire[c][i].kind = "exited" => wire[c][j].kind \in {"note", "lag"}

(***************************************************************************)
(* When the forwarder reports the exit, every byte read from the PTY has   *)
(* been sent before it (drain_pty_output before mark_exited,               *)
(* session.rs:883-887, and one broadcast channel for both).                *)
(***************************************************************************)
ForwardedExitAfterAllOutput ==
  ~Exhausted =>
    \A c \in Clients : \A i \in 1..Len(wire[c]) :
      fwd[c] /\ wire[c][i].kind = "exited" =>
        wire[c][i].seq = produced

(***************************************************************************)
(* The session implements ByteStream: a live terminal shows a prefix of    *)
(* the stream that only grows, through replays, snapshots, lags and        *)
(* reconnections.  A terminal that is shown the history of a dead session  *)
(* has left the stream.                                                    *)
(***************************************************************************)
ScreenOf(c) ==
  IF phase[c] \in {"history", "ended"} THEN 1..0
  ELSE IF whole[c] THEN 1..shown[c] ELSE {0}

Promise == INSTANCE ByteStream WITH
             Terminals <- Clients,
             screen <- [c \in Clients |-> ScreenOf(c)]

ImplementsByteStream == Promise!Spec

(***************************************************************************)
(* A client attached when the session exits eventually learns of it,       *)
(* unless its connection ends first: neither a full queue, nor Lag, nor    *)
(* the race of the attach handler with mark_exited can lose the news.      *)
(***************************************************************************)
ExitIsLearned ==
  \A c \in Clients :
    exitCode /\ phase[c] \in {"waiting", "streaming", "lagged"}
      ~> phase[c] \in {"exited", "ended", "idle"}

(***************************************************************************)
(* A client that stays attached eventually reaches every offset the ring   *)
(* has reached, through Lag and re-attachment if need be, unless the       *)
(* session ends first.                                                     *)
(***************************************************************************)
CatchesUp ==
  \A c \in Clients : \A k \in 1..MaxBytes :
    phase[c] = "streaming" /\ ring.next >= k
      ~> seen[c] >= k \/ phase[c] \in {"exited", "ended", "history", "idle"}

(***************************************************************************)
(* The exit is announced once in an attachment, and after the last byte    *)
(* that was read from the PTY (mark_exited, session.rs:700-725).           *)
(***************************************************************************)
ExitComesOnceAndLast ==
  /\ ExitAnnouncedOnce
  /\ ForwardedExitAfterAllOutput
=============================================================================
