------------------------ MODULE SessionStreamProofs ------------------------
(***************************************************************************)
(* Proofs about SessionStream, for any number of clients and any sizes.    *)
(***************************************************************************)
EXTENDS SessionStream, PtyRingProofs

-----------------------------------------------------------------------------
(***************************************************************************)
(* The ring of the session is the ring of PtyRing: its invariant holds.    *)
(***************************************************************************)
LEMMA RingStep ==
  ASSUME RingInv, [Next]_vars
  PROVE  RingInv'
  <1>1. ASSUME NEW n \in 1..MaxChunk, ReadChunk(n) PROVE RingInv'
    <2>1. Push(n) /\ n \in Nat
      BY <1>1, RingAssumption DEF ReadChunk
    <2> QED
      BY <2>1, PushKeepsRingInv
  <1>2. ASSUME UNCHANGED ringVars PROVE RingInv'
    BY <1>2 DEF ringVars, RingInv, Exhausted, IsWindow
  <1>3. CASE Session
    BY <1>1, <1>2, <1>3 DEF Session, IoGrab, IoRebuild, Publish, MarkExited,
       AnnounceExit, StateChange, Evict, KillSession, DebouncedResize,
       ResizerGrab, ResizerRebuild
  <1>4. ASSUME NEW c \in Clients, Handler(c) PROVE RingInv'
    BY <1>2, <1>4 DEF Handler, LookupLive, LookupRestored, LookupGone,
       StopForwarder, AttachClient, AttachClientFails, ClientGrab,
       ClientRebuild, Subscribe, CaptureReplay, CaptureSnapshot, CaptureRaw,
       CaptureDead, Revive, Resnap, CheckExited, CheckRunning, ForwardLag,
       ForwardSkip, ForwardEvent
  <1>5. ASSUME NEW c \in Clients, Reader(c) PROVE RingInv'
    BY <1>2, <1>5 DEF Reader, ReceiveAttached, ReceiveOutput, ReceiveNote,
       ReceiveLag, ReceiveEnd, Receive, AttachAfterLag
  <1>6. ASSUME NEW c \in Clients, User(c) PROVE RingInv'
    BY <1>2, <1>6 DEF User, AttachCold, AttachWarm, Disconnect
  <1>7. CASE UNCHANGED vars
    BY <1>2, <1>7 DEF vars
  <1> QED
    BY <1>3, <1>4, <1>5, <1>6, <1>7 DEF Next

LEMMA RingAlways == Spec => []RingInv
  <1>1. Init => RingInv
    BY EmptyRingIsWindow, RingAssumption DEF Init, RingInit, RingInv, Exhausted
  <1> QED
    BY <1>1, RingStep, PTL DEF Spec

-----------------------------------------------------------------------------
(***************************************************************************)
(* Type correctness.                                                       *)
(***************************************************************************)

LEMMA MsgTyped ==
  ASSUME NEW kind \in MsgKinds, NEW from \in Nat, NEW upto \in Nat,
         NEW seq \in Nat, NEW clean \in BOOLEAN
  PROVE  Msg(kind, from, upto, seq, clean) \in MsgType
  BY DEF Msg, MsgType

LEMMA MarkerTyped ==
  ASSUME NEW kind \in MsgKinds, NEW at \in Nat
  PROVE  Marker(kind, at) \in MsgType
  BY MsgTyped DEF Marker

LEMMA ScrollbackTyped ==
  ASSUME RingTypeOK
  PROVE  /\ Scrollback(ring) \in [start : Nat, data : Seq(Nat)]
         /\ ScrollEnd(Scrollback(ring)) \in Nat
  BY RingAssumption DEF RingTypeOK, Scrollback, ScrollEnd

LEMMA NoScrollbackTyped == NoScrollback \in [start : Nat, data : Seq(Nat)]
  <1>1. << >> \in Seq(Nat)
    OBVIOUS
  <1>2. ASSUME NEW e \in Seq(Nat)
        PROVE  [start |-> 0, data |-> e] \in [start : Nat, data : Seq(Nat)]
    OBVIOUS
  <1> QED
    BY <1>1, <1>2 DEF NoScrollback

LEMMA ScrollEndTyped ==
  ASSUME NEW s \in [start : Nat, data : Seq(Nat)]
  PROVE  ScrollEnd(s) \in Nat
  BY DEF ScrollEnd

LEMMA TermTyped ==
  ASSUME NEW upto \in Nat, NEW clean \in BOOLEAN
  PROVE  /\ [alive |-> TRUE, upto |-> upto, clean |-> clean] \in TermType
         /\ DeadTerm \in TermType
  BY DEF TermType, DeadTerm

LEMMA IngestedTyped ==
  ASSUME term \in TermType, NEW from \in Nat, NEW upto \in Nat,
         NEW t \in Ingested(from, upto)
  PROVE  t \in TermType
  <1> DEFINE ok == term.clean /\ term.upto = from
  <1>1. ok \in BOOLEAN
    OBVIOUS
  <1>2. \/ t = [alive |-> TRUE, upto |-> upto, clean |-> ok]
        \/ t = DeadTerm
        \/ t = term
    BY DEF Ingested
  <1> HIDE DEF ok
  <1> QED
    BY <1>1, <1>2, TermTyped

LEMMA RebuiltTyped ==
  ASSUME NEW s \in [start : Nat, data : Seq(Nat)], NEW t \in Rebuilt(s)
  PROVE  t \in TermType
  <1>1. \/ t = [alive |-> TRUE, upto |-> ScrollEnd(s), clean |-> TRUE]
        \/ t = DeadTerm
    BY DEF Rebuilt
  <1>2. ScrollEnd(s) \in Nat
    BY ScrollEndTyped
  <1> QED
    BY <1>1, <1>2, TermTyped

LEMMA ResizedTyped ==
  ASSUME term \in TermType, NEW t \in Resized
  PROVE  t \in TermType
  <1>1. t = term \/ t = DeadTerm
    BY DEF Resized
  <1> QED
    BY <1>1, TermTyped

LEMMA BcastEndTyped ==
  ASSUME bcast \in Seq(MsgType)
  PROVE  BcastEnd \in Nat
  <1>1. CASE Len(bcast) = 0
    BY <1>1 DEF BcastEnd
  <1>2. CASE Len(bcast) # 0
    <2>1. bcast[Len(bcast)] \in MsgType
      BY <1>2
    <2> QED
      BY <1>2, <2>1 DEF BcastEnd, MsgType
  <1> QED
    BY <1>1, <1>2

LEMMA SentTyped ==
  ASSUME TypeOK, NEW c \in Clients
  PROVE  Sent(c) \in Nat
  <1>0. wire[c] \in Seq(MsgType) /\ seen[c] \in Nat \cup {NoSeq}
    BY DEF TypeOK
  <1>1. CASE Len(wire[c]) = 0
    BY <1>0, <1>1 DEF Sent
  <1>2. CASE Len(wire[c]) # 0
    <2>1. wire[c][Len(wire[c])] \in MsgType
      BY <1>0, <1>2
    <2> QED
      BY <1>2, <2>1 DEF Sent, MsgType
  <1> QED
    BY <1>1, <1>2

\* Writing frames leaves the other connections alone.
LEMMA WriteTyped ==
  ASSUME wire \in [Clients -> Seq(MsgType)], NEW c \in Clients,
         NEW msgs \in Seq(MsgType), Write(c, msgs)
  PROVE  /\ wire' \in [Clients -> Seq(MsgType)]
         /\ wire'[c] = wire[c] \o msgs
         /\ \A d \in Clients \ {c} : wire'[d] = wire[d]
  <1>1. wire[c] \o msgs \in Seq(MsgType)
    BY ConcatProperties
  <1> QED
    BY <1>1 DEF Write

LEMMA WriteOneTyped ==
  ASSUME wire \in [Clients -> Seq(MsgType)], NEW c \in Clients,
         NEW m \in MsgType, Write(c, <<m>>)
  PROVE  /\ wire' \in [Clients -> Seq(MsgType)]
         /\ wire'[c] = Append(wire[c], m)
         /\ \A d \in Clients \ {c} : wire'[d] = wire[d]
  <1>1. <<m>> \in Seq(MsgType)
    OBVIOUS
  <1>2. wire[c] \o <<m>> = Append(wire[c], m)
    BY AppendIsConcat
  <1> QED
    BY <1>1, <1>2, WriteTyped

LEMMA ReceiveTyped ==
  ASSUME wire \in [Clients -> Seq(MsgType)], NEW c \in Clients, Receive(c)
  PROVE  /\ wire' \in [Clients -> Seq(MsgType)]
         /\ wire[c] # << >>
         /\ Head(wire[c]) = wire[c][1] /\ Head(wire[c]) \in MsgType
         /\ wire'[c] = Tail(wire[c])
         /\ \A d \in Clients \ {c} : wire'[d] = wire[d]
  <1>1. wire[c] \in Seq(MsgType) /\ wire[c] # << >>
    BY DEF Receive
  <1>2. Tail(wire[c]) \in Seq(MsgType) /\ Head(wire[c]) \in MsgType
        /\ Head(wire[c]) = wire[c][1]
    BY <1>1, HeadTailProperties
  <1> QED
    BY <1>1, <1>2 DEF Receive

LEMMA InitTyped == Init => TypeOK
  <1> SUFFICES ASSUME Init PROVE TypeOK
    OBVIOUS
  <1>1. RingTypeOK
    BY RingInvTypeOK, EmptyRingIsWindow, RingAssumption
    DEF Init, RingInit, RingInv, Exhausted
  <1>2. term \in TermType
    BY TermTyped DEF Init, NewTerm
  <1>3. chunk \in MsgType
    BY MarkerTyped DEF Init, MsgKinds
  <1>4. held \in [Rebuilders -> [start : Nat, data : Seq(Nat)]]
    BY NoScrollbackTyped DEF Init
  <1>5. << >> \in Seq(MsgType)
    OBVIOUS
  <1>6. bcast \in Seq(MsgType) /\ wire \in [Clients -> Seq(MsgType)]
    BY <1>5 DEF Init
  <1>7. /\ exitCode \in BOOLEAN
        /\ fwd \in [Clients -> BOOLEAN]
        /\ whole \in [Clients -> BOOLEAN]
        /\ want \in [Clients -> Nat \cup {NoSeq}]
        /\ seen \in [Clients -> Nat \cup {NoSeq}]
    BY DEF Init
  <1>8. /\ ioPc \in IoPcs /\ rzPc \in RzPcs
        /\ reg \in {"live", "restored", "gone"}
        /\ hPc \in [Clients -> HPcs]
        /\ phase \in [Clients -> Phases]
    BY DEF Init, IoPcs, RzPcs, HPcs, Phases
  <1>9. /\ notes \in 0..MaxNotes
        /\ rx \in [Clients -> Nat]
        /\ attached \in [Clients -> Nat]
        /\ shown \in [Clients -> Nat]
        /\ attaches \in [Clients -> Nat]
    BY StreamAssumption DEF Init
  <1> QED
    BY <1>1, <1>2, <1>3, <1>4, <1>6, <1>7, <1>8, <1>9 DEF TypeOK

\* The type of the variables that only the session's threads change.
LEMMA SessionTyped ==
  ASSUME RingInv, TypeOK, RingTypeOK', Session
  PROVE  TypeOK'
  <1> USE DEF rebuildVars, handlerVars, clientVars
  <1>1. ASSUME NEW n \in 1..MaxChunk, ReadChunk(n) PROVE TypeOK'
    <2>1. produced \in Nat /\ produced + n \in Nat /\ ring.next \in Nat
      BY RingAssumption DEF TypeOK, RingTypeOK
    <2>2. SaturatingSeq(ring, n) \in Nat
      BY <2>1, RingAssumption DEF SaturatingSeq
    <2>3. chunk' \in MsgType
      BY <1>1, <2>1, <2>2, MsgTyped DEF ReadChunk, MsgKinds
    <2>4. term' \in TermType
      BY <1>1, <2>1, IngestedTyped DEF ReadChunk, TypeOK
    <2>5. ioPc' \in IoPcs
      BY <1>1 DEF ReadChunk, IoPcs
    <2> QED
      BY <1>1, <2>3, <2>4, <2>5 DEF ReadChunk, TypeOK
  <1>2. CASE IoGrab
    <2>1. held' \in [Rebuilders -> [start : Nat, data : Seq(Nat)]]
      BY <1>2, ScrollbackTyped DEF IoGrab, Grab, TypeOK
    <2> QED
      BY <1>2, <2>1 DEF IoGrab, Grab, TypeOK, IoPcs, ringVars
  <1>3. CASE IoRebuild
    <2>1. held["io"] \in [start : Nat, data : Seq(Nat)]
      BY DEF TypeOK, Rebuilders
    <2>2. term' \in TermType
      BY <1>3, <2>1, RebuiltTyped DEF IoRebuild, Rebuild
    <2>3. held' \in [Rebuilders -> [start : Nat, data : Seq(Nat)]]
      BY <1>3, NoScrollbackTyped DEF IoRebuild, Rebuild, TypeOK
    <2> QED
      BY <1>3, <2>2, <2>3 DEF IoRebuild, TypeOK, IoPcs, ringVars
  <1>4. CASE Publish
    <2>1. bcast' \in Seq(MsgType)
      BY <1>4, AppendProperties DEF Publish, Broadcast, TypeOK
    <2> QED
      BY <1>4, <2>1 DEF Publish, TypeOK, IoPcs, ringVars
  <1>5. CASE MarkExited
    BY <1>5 DEF MarkExited, TypeOK, IoPcs, ringVars
  <1>6. CASE AnnounceExit
    <2>1. Marker("exited", BcastEnd) \in MsgType
      BY BcastEndTyped, MarkerTyped DEF TypeOK, MsgKinds
    <2>2. bcast' \in Seq(MsgType)
      BY <1>6, <2>1, AppendProperties DEF AnnounceExit, Broadcast, TypeOK
    <2> QED
      BY <1>6, <2>2 DEF AnnounceExit, TypeOK, IoPcs, ringVars
  <1>7. CASE StateChange
    <2>1. Marker("note", BcastEnd) \in MsgType
      BY BcastEndTyped, MarkerTyped DEF TypeOK, MsgKinds
    <2>2. bcast' \in Seq(MsgType)
      BY <1>7, <2>1, AppendProperties DEF StateChange, Broadcast, TypeOK
    <2>3. notes' \in 0..MaxNotes
      BY <1>7, StreamAssumption DEF StateChange, TypeOK
    <2> QED
      BY <1>7, <2>2, <2>3 DEF StateChange, TypeOK, ringVars
  <1>8. CASE Evict \/ KillSession
    BY <1>8 DEF Evict, KillSession, TypeOK, ringVars
  <1>9. CASE DebouncedResize
    <2>1. term' \in TermType
      BY <1>9, ResizedTyped DEF DebouncedResize, TypeOK
    <2> QED
      BY <1>9, <2>1 DEF DebouncedResize, TypeOK, RzPcs, ringVars
  <1>10. CASE ResizerGrab
    <2>1. held' \in [Rebuilders -> [start : Nat, data : Seq(Nat)]]
      BY <1>10, ScrollbackTyped DEF ResizerGrab, Grab, TypeOK
    <2> QED
      BY <1>10, <2>1 DEF ResizerGrab, Grab, TypeOK, RzPcs, ringVars
  <1>11. CASE ResizerRebuild
    <2>1. held["resizer"] \in [start : Nat, data : Seq(Nat)]
      BY DEF TypeOK, Rebuilders
    <2>2. term' \in TermType
      BY <1>11, <2>1, RebuiltTyped DEF ResizerRebuild, Rebuild
    <2>3. held' \in [Rebuilders -> [start : Nat, data : Seq(Nat)]]
      BY <1>11, NoScrollbackTyped DEF ResizerRebuild, Rebuild, TypeOK
    <2> QED
      BY <1>11, <2>2, <2>3 DEF ResizerRebuild, TypeOK, RzPcs, ringVars
  <1> QED
    BY <1>1, <1>2, <1>3, <1>4, <1>5, <1>6, <1>7, <1>8, <1>9, <1>10, <1>11
    DEF Session

\* The answer attach_bytes builds is well typed, also from a poisoned ring.
LEMMA ReplayEndTyped ==
  ASSUME TypeOK, NEW c \in Clients, CanReplay(c)
  PROVE  want[c] \in Nat /\ want[c] + Len(ReplayFrom(ring, want[c])) \in Nat
  <1>1. want[c] \in Nat /\ ring.start \in Nat /\ ring.start <= want[c]
        /\ ring.data \in Seq(Nat)
    BY RingAssumption DEF TypeOK, RingTypeOK, CanReplay, HasReplay
  <1> DEFINE m == want[c] - ring.start + 1
             n == Len(ring.data)
  <1>2. m \in Nat /\ m >= 1 /\ n \in Nat
    BY <1>1
  <1>3. Len(SubSeq(ring.data, m, n)) = IF m <= n THEN n - m + 1 ELSE 0
    BY <1>1, <1>2
  <1> HIDE DEF m, n
  <1>4. Len(SubSeq(ring.data, m, n)) \in Nat
    BY <1>2, <1>3
  <1>5. ReplayFrom(ring, want[c]) = SubSeq(ring.data, m, n)
    BY Zenon DEF ReplayFrom, m, n
  <1>6. Len(ReplayFrom(ring, want[c])) \in Nat
    BY <1>4, <1>5, Zenon
  <1> QED
    BY <1>1, <1>6

LEMMA ReplyTyped ==
  ASSUME TypeOK, NEW c \in Clients, NEW m \in MsgType, Reply(c, m)
  PROVE  /\ wire' \in [Clients -> Seq(MsgType)]
         /\ attached' \in [Clients -> Nat]
  <1>1. m.seq \in Nat
    BY DEF MsgType
  <1>2. Write(c, <<m>>)
    BY DEF Reply
  <1> QED
    BY <1>1, <1>2, WriteOneTyped DEF Reply, TypeOK

LEMMA HandlerTyped ==
  ASSUME RingInv, TypeOK, RingTypeOK', NEW c \in Clients, Handler(c)
  PROVE  TypeOK'
  <1> USE DEF sessionVars, rebuildVars, clientVars
  <1>a. /\ wire \in [Clients -> Seq(MsgType)]
        /\ held \in [Rebuilders -> [start : Nat, data : Seq(Nat)]]
        /\ held[c] \in [start : Nat, data : Seq(Nat)]
        /\ rx \in [Clients -> Nat] /\ rx[c] \in Nat /\ attached[c] \in Nat
    BY DEF TypeOK, Rebuilders
  <1>b. RingTypeOK /\ ring.next \in Nat /\ ring.start \in Nat
    BY RingAssumption DEF TypeOK, RingTypeOK
  <1>c. term \in TermType /\ term.upto \in Nat /\ term.clean \in BOOLEAN
    BY DEF TypeOK, TermType
  <1>d. bcast \in Seq(MsgType) /\ Len(bcast) \in Nat
    BY DEF TypeOK
  <1>t. /\ wire \in [Clients -> Seq(MsgType)]
        /\ held \in [Rebuilders -> [start : Nat, data : Seq(Nat)]]
        /\ held[c] \in [start : Nat, data : Seq(Nat)]
        /\ rx \in [Clients -> Nat] /\ rx[c] \in Nat /\ attached[c] \in Nat
        /\ RingTypeOK /\ ring.next \in Nat /\ ring.start \in Nat
        /\ term \in TermType /\ term.upto \in Nat /\ term.clean \in BOOLEAN
        /\ bcast \in Seq(MsgType) /\ Len(bcast) \in Nat
    BY <1>a, <1>b, <1>c, <1>d
  <1>1. CASE LookupLive(c) \/ StopForwarder(c) \/ CheckRunning(c)
    BY <1>1 DEF LookupLive, StopForwarder, CheckRunning, Step, TypeOK, HPcs,
       ringVars
  <1>16. CASE Subscribe(c)
    <2>1. rx' \in [Clients -> Nat]
      BY <1>t, <1>16 DEF Subscribe
    <2> QED
      BY <1>16, <2>1 DEF Subscribe, Step, TypeOK, HPcs, ringVars
  <1>17. CASE ForwardSkip(c)
    <2>1. rx' \in [Clients -> Nat]
      BY <1>t, <1>17 DEF ForwardSkip
    <2> QED
      BY <1>17, <2>1 DEF ForwardSkip, TypeOK, ringVars
  <1>2. CASE LookupRestored(c)
    <2> DEFINE end == ScrollEnd(Scrollback(ring))
               a == Msg("history", ring.start, end, end, TRUE)
               b == Marker("exited", end)
    <2>1. end \in Nat
      BY <1>t, ScrollbackTyped
    <2>2. a \in MsgType /\ b \in MsgType
      BY <1>t, <2>1, MsgTyped, MarkerTyped DEF MsgKinds
    <2>3. Write(c, <<a, b>>)
      BY <1>2 DEF LookupRestored
    <2> HIDE DEF a, b, end
    <2>4. <<a, b>> \in Seq(MsgType)
      BY <2>2
    <2>5. wire' \in [Clients -> Seq(MsgType)]
      BY <1>t, <2>3, <2>4, WriteTyped
    <2> QED
      BY <1>2, <2>5 DEF LookupRestored, Step, TypeOK, HPcs, ringVars
  <1>3. CASE LookupGone(c) \/ AttachClientFails(c)
    <2>1. Marker("error", 0) \in MsgType
      BY MarkerTyped DEF MsgKinds
    <2>2. Write(c, <<Marker("error", 0)>>)
      BY <1>3 DEF LookupGone, AttachClientFails
    <2>3. wire' \in [Clients -> Seq(MsgType)]
      BY <1>t, <2>1, <2>2, WriteOneTyped
    <2> QED
      BY <1>3, <2>3 DEF LookupGone, AttachClientFails, Step, TypeOK, HPcs, ringVars
  <1>4. CASE AttachClient(c)
    <2>1. term' \in TermType
      BY <1>t, <1>4, ResizedTyped DEF AttachClient
    <2> QED
      BY <1>4, <2>1 DEF AttachClient, Step, TypeOK, HPcs, ringVars
  <1>5. CASE ClientGrab(c)
    <2>1. held' \in [Rebuilders -> [start : Nat, data : Seq(Nat)]]
      BY <1>t, <1>5, ScrollbackTyped DEF ClientGrab, Grab
    <2> QED
      BY <1>5, <2>1 DEF ClientGrab, Grab, Step, TypeOK, HPcs, ringVars
  <1>6. CASE ClientRebuild(c)
    <2>1. term' \in TermType
      BY <1>t, <1>6, RebuiltTyped DEF ClientRebuild, Rebuild
    <2>2. held' \in [Rebuilders -> [start : Nat, data : Seq(Nat)]]
      BY <1>t, <1>6, NoScrollbackTyped DEF ClientRebuild, Rebuild
    <2> QED
      BY <1>6, <2>1, <2>2 DEF ClientRebuild, Step, TypeOK, HPcs, ringVars
  <1>7. CASE CaptureReplay(c)
    <2> DEFINE end == want[c] + Len(ReplayFrom(ring, want[c]))
               m == Msg("replay", want[c], end, end, TRUE)
    <2>1. want[c] \in Nat /\ end \in Nat
      BY <1>7, ReplayEndTyped DEF CaptureReplay
    <2>2. m \in MsgType
      BY <2>1, MsgTyped DEF MsgKinds
    <2>3. Reply(c, m)
      BY <1>7 DEF CaptureReplay
    <2> HIDE DEF m
    <2>4. wire' \in [Clients -> Seq(MsgType)] /\ attached' \in [Clients -> Nat]
      BY <2>2, <2>3, ReplyTyped
    <2> QED
      BY <1>7, <2>4 DEF CaptureReplay, Step, TypeOK, HPcs, ringVars
  <1>8. CASE CaptureSnapshot(c)
    <2> DEFINE m == Msg("snapshot", 0, term.upto, ring.next, term.clean)
    <2>1. m \in MsgType
      BY <1>t, MsgTyped DEF MsgKinds
    <2>2. Reply(c, m)
      BY <1>8 DEF CaptureSnapshot
    <2> HIDE DEF m
    <2>3. wire' \in [Clients -> Seq(MsgType)] /\ attached' \in [Clients -> Nat]
      BY <2>1, <2>2, ReplyTyped
    <2> QED
      BY <1>8, <2>3 DEF CaptureSnapshot, Step, TypeOK, HPcs, ringVars
  <1>9. CASE CaptureRaw(c)
    <2> DEFINE m == Msg("scrollback", ring.start, ScrollEnd(Scrollback(ring)),
                        ring.next, TRUE)
    <2>1. m \in MsgType
      BY <1>t, ScrollbackTyped, MsgTyped DEF MsgKinds
    <2>2. Reply(c, m)
      BY <1>9 DEF CaptureRaw
    <2> HIDE DEF m
    <2>3. wire' \in [Clients -> Seq(MsgType)] /\ attached' \in [Clients -> Nat]
      BY <2>1, <2>2, ReplyTyped
    <2> QED
      BY <1>9, <2>3 DEF CaptureRaw, Step, TypeOK, HPcs, ringVars
  <1>10. CASE CaptureDead(c)
    <2>1. held' \in [Rebuilders -> [start : Nat, data : Seq(Nat)]]
      BY <1>t, <1>10, ScrollbackTyped DEF CaptureDead
    <2> QED
      BY <1>t, <1>10, <2>1 DEF CaptureDead, Step, TypeOK, HPcs, ringVars
  <1>11. CASE Revive(c)
    <2>1. term' \in TermType
      BY <1>t, <1>11, RebuiltTyped DEF Revive
    <2> QED
      BY <1>11, <2>1 DEF Revive, Step, TypeOK, HPcs, ringVars
  <1>12. CASE Resnap(c)
    <2> DEFINE m1 == Msg("snapshot", 0, term.upto, attached[c], term.clean)
               m2 == Msg("scrollback", held[c].start, ScrollEnd(held[c]),
                         attached[c], TRUE)
    <2>1. m1 \in MsgType /\ m2 \in MsgType
      BY <1>t, ScrollEndTyped, MsgTyped DEF MsgKinds
    <2>2. Write(c, <<m1>>) \/ Write(c, <<m2>>)
      BY <1>12 DEF Resnap
    <2> HIDE DEF m1, m2
    <2>3. wire' \in [Clients -> Seq(MsgType)]
      BY <1>t, <2>1, <2>2, WriteOneTyped
    <2>4. held' \in [Rebuilders -> [start : Nat, data : Seq(Nat)]]
      BY <1>t, <1>12, NoScrollbackTyped DEF Resnap
    <2> QED
      BY <1>12, <2>3, <2>4 DEF Resnap, Step, TypeOK, HPcs, ringVars
  <1>13. CASE CheckExited(c)
    <2>1. Marker("exited", Sent(c)) \in MsgType
      BY SentTyped, MarkerTyped DEF MsgKinds
    <2>2. wire' \in [Clients -> Seq(MsgType)]
      BY <1>t, <1>13, <2>1, WriteOneTyped DEF CheckExited
    <2> QED
      BY <1>13, <2>2 DEF CheckExited, Step, TypeOK, HPcs, ringVars
  <1>14. CASE ForwardLag(c)
    <2>1. Marker("lag", Sent(c)) \in MsgType
      BY SentTyped, MarkerTyped DEF MsgKinds
    <2>2. wire' \in [Clients -> Seq(MsgType)]
      BY <1>t, <1>14, <2>1, WriteOneTyped DEF ForwardLag
    <2> QED
      BY <1>14, <2>2 DEF ForwardLag, TypeOK, ringVars
  <1>15. CASE ForwardEvent(c)
    <2> DEFINE e == bcast[rx[c] + 1]
               m == IF e.kind = "output" THEN e ELSE Marker(e.kind, Sent(c))
    <2>1. e \in MsgType
      BY <1>t, <1>15 DEF ForwardEvent
    <2>2. m \in MsgType
      BY <2>1, SentTyped, MarkerTyped DEF MsgType
    <2>3. Write(c, <<m>>)
      BY <1>15 DEF ForwardEvent
    <2> HIDE DEF m
    <2>4. wire' \in [Clients -> Seq(MsgType)]
      BY <1>t, <2>2, <2>3, WriteOneTyped
    <2>5. rx' \in [Clients -> Nat]
      BY <1>t, <1>15 DEF ForwardEvent
    <2> QED
      BY <1>15, <2>4, <2>5 DEF ForwardEvent, TypeOK, ringVars
  <1> QED
    BY <1>1, <1>2, <1>3, <1>4, <1>5, <1>6, <1>7, <1>8, <1>9, <1>10, <1>11,
       <1>12, <1>13, <1>14, <1>15, <1>16, <1>17, Handler(c) DEF Handler

LEMMA ClientTyped ==
  ASSUME RingInv, TypeOK, RingTypeOK', NEW c \in Clients, Reader(c) \/ User(c)
  PROVE  TypeOK'
  <1> USE DEF sessionVars, rebuildVars, handlerVars
  <1>t. /\ wire \in [Clients -> Seq(MsgType)]
        /\ seen[c] \in Nat \cup {NoSeq}
        /\ whole[c] \in BOOLEAN
        /\ whole \in [Clients -> BOOLEAN]
    BY DEF TypeOK
  <1>1. CASE ReceiveAttached(c)
    <2> DEFINE m == Head(wire[c])
               w == IF m.kind = "snapshot" THEN m.clean
                    ELSE whole[c] /\ (seen[c] = NoSeq \/ m.from = shown[c])
    <2>1. Receive(c)
      BY <1>1 DEF ReceiveAttached
    <2>2. m \in MsgType /\ wire' \in [Clients -> Seq(MsgType)]
      BY <1>t, <2>1, ReceiveTyped
    <2>3. m.seq \in Nat /\ m.upto \in Nat /\ m.clean \in BOOLEAN
      BY <2>2 DEF MsgType
    <2>4. w \in BOOLEAN
      BY <1>t, <2>3
    <2>5. whole' = [whole EXCEPT ![c] = w]
      BY <1>1 DEF ReceiveAttached
    <2> HIDE DEF w
    <2>6. whole' \in [Clients -> BOOLEAN]
      BY <1>t, <2>4, <2>5
    <2> QED
      BY <1>1, <2>1, <2>2, <2>3, <2>6
      DEF ReceiveAttached, Receive, TypeOK, Phases, ringVars
  <1>2. CASE ReceiveOutput(c)
    <2> DEFINE m == Head(wire[c])
               w == whole[c] /\ m.from = shown[c]
    <2>1. Receive(c)
      BY <1>2 DEF ReceiveOutput
    <2>2. m \in MsgType /\ wire' \in [Clients -> Seq(MsgType)]
      BY <1>t, <2>1, ReceiveTyped
    <2>3. m.seq \in Nat /\ m.upto \in Nat
      BY <2>2 DEF MsgType
    <2>4. w \in BOOLEAN
      BY <1>t
    <2>5. whole' = [whole EXCEPT ![c] = w]
      BY <1>2 DEF ReceiveOutput
    <2> HIDE DEF w
    <2>6. whole' \in [Clients -> BOOLEAN]
      BY <1>t, <2>4, <2>5
    <2> QED
      BY <1>2, <2>1, <2>2, <2>3, <2>6
      DEF ReceiveOutput, Receive, TypeOK, ringVars
  <1>3. CASE ReceiveNote(c) \/ ReceiveLag(c) \/ ReceiveEnd(c)
    <2>1. Receive(c)
      BY <1>3 DEF ReceiveNote, ReceiveLag, ReceiveEnd
    <2>2. wire' \in [Clients -> Seq(MsgType)]
      BY <1>t, <2>1, ReceiveTyped
    <2> QED
      BY <1>3, <2>1, <2>2
      DEF ReceiveNote, ReceiveLag, ReceiveEnd, Receive, TypeOK, Phases, ringVars
  <1>4. CASE AttachCold(c) \/ AttachWarm(c) \/ AttachAfterLag(c)
    <2>1. /\ want' \in [Clients -> Nat \cup {NoSeq}]
          /\ seen' \in [Clients -> Nat \cup {NoSeq}]
          /\ whole' \in [Clients -> BOOLEAN]
      BY <1>t, <1>4 DEF AttachCold, AttachWarm, AttachAfterLag, SendAttach, TypeOK
    <2>2. /\ hPc' \in [Clients -> HPcs]
          /\ phase' \in [Clients -> Phases]
      BY <1>4 DEF AttachCold, AttachWarm, AttachAfterLag, SendAttach, Step,
         TypeOK, Phases, HPcs
    <2>3. shown' \in [Clients -> Nat]
      <3>1. shown \in [Clients -> Nat]
        BY DEF TypeOK
      <3>2. shown' = shown \/ shown' = [shown EXCEPT ![c] = 0]
        BY <1>4 DEF AttachCold, AttachWarm, AttachAfterLag
      <3> QED
        BY <3>1, <3>2
    <2>4. attaches' \in [Clients -> Nat]
      <3>1. attaches \in [Clients -> Nat] /\ attaches[c] + 1 \in Nat
        BY DEF TypeOK
      <3> QED
        BY <1>4, <3>1 DEF AttachCold, AttachWarm, AttachAfterLag
    <2> QED
      BY <1>4, <2>1, <2>2, <2>3, <2>4
      DEF AttachCold, AttachWarm, AttachAfterLag, TypeOK, ringVars
  <1>5. CASE Disconnect(c)
    <2>1. << >> \in Seq(MsgType)
      OBVIOUS
    <2>2. wire' \in [Clients -> Seq(MsgType)]
      BY <1>t, <1>5, <2>1 DEF Disconnect
    <2>3. phase' \in [Clients -> Phases]
      BY <1>5 DEF Disconnect, TypeOK, Phases
    <2> QED
      BY <1>5, <2>2, <2>3 DEF Disconnect, TypeOK, HPcs, ringVars
  <1> QED
    BY <1>1, <1>2, <1>3, <1>4, <1>5 DEF Reader, User

LEMMA TypeStep ==
  ASSUME RingInv, TypeOK, [Next]_vars
  PROVE  TypeOK'
  <1>1. RingTypeOK'
    <2>1. RingInv'
      BY RingStep
    <2>2. (RingInv => RingTypeOK)'
      BY RingInvTypeOK, PTL
    <2> QED
      BY <2>1, <2>2
  <1>2. CASE UNCHANGED vars
    BY <1>1, <1>2 DEF vars, ringVars, sessionVars, rebuildVars, handlerVars,
       clientVars, TypeOK
  <1> QED
    BY <1>1, <1>2, SessionTyped, HandlerTyped, ClientTyped DEF Next

(***************************************************************************)
(* Every variable of the session, its connections and its clients keeps    *)
(* its type, for any number of clients.                                    *)
(***************************************************************************)
THEOREM StreamTypeCorrect == Spec => []TypeOK
  BY InitTyped, TypeStep, RingAlways, PTL DEF Spec

-----------------------------------------------------------------------------
(***************************************************************************)
(* What a step leaves alone.                                               *)
(***************************************************************************)

LEMMA SessionLeavesConnections ==
  ASSUME Session
  PROVE  UNCHANGED <<hPc, fwd, want, rx, attached, wire, phase, seen>>
  BY DEF Session, ReadChunk, IoGrab, IoRebuild, Publish, MarkExited,
     AnnounceExit, StateChange, Evict, KillSession, DebouncedResize,
     ResizerGrab, ResizerRebuild, handlerVars, clientVars

LEMMA ConnectionLeavesStream ==
  ASSUME NEW c \in Clients, Handler(c) \/ Reader(c) \/ User(c)
  PROVE  UNCHANGED <<ring, produced, ioPc, chunk, bcast>>
  <1> USE DEF ringVars, sessionVars
  <1>1. CASE Handler(c)
    BY <1>1 DEF Handler, LookupLive, LookupRestored, LookupGone, StopForwarder,
       AttachClient, AttachClientFails, ClientGrab, ClientRebuild, Subscribe,
       CaptureReplay, CaptureSnapshot, CaptureRaw, CaptureDead, Revive, Resnap,
       CheckExited, CheckRunning, ForwardLag, ForwardSkip, ForwardEvent
  <1>2. CASE Reader(c)
    BY <1>2 DEF Reader, ReceiveAttached, ReceiveOutput, ReceiveNote, ReceiveLag,
       ReceiveEnd, Receive, AttachAfterLag
  <1>3. CASE User(c)
    BY <1>3 DEF User, AttachCold, AttachWarm, Disconnect
  <1> QED
    BY <1>1, <1>2, <1>3

LEMMA ConnectionLeavesOthers ==
  ASSUME TypeOK, NEW c \in Clients, NEW d \in Clients, d # c,
         Handler(c) \/ Reader(c) \/ User(c)
  PROVE  /\ hPc'[d] = hPc[d] /\ fwd'[d] = fwd[d] /\ want'[d] = want[d]
         /\ rx'[d] = rx[d] /\ attached'[d] = attached[d]
         /\ wire'[d] = wire[d] /\ phase'[d] = phase[d] /\ seen'[d] = seen[d]
  <1> USE DEF handlerVars, clientVars, Step, Write, Reply
  <1>1. CASE Handler(c)
    <2>1. CASE LookupLive(c) \/ LookupRestored(c) \/ LookupGone(c)
               \/ StopForwarder(c) \/ AttachClient(c) \/ AttachClientFails(c)
      BY <2>1 DEF TypeOK, LookupLive, LookupRestored, LookupGone, StopForwarder,
         AttachClient, AttachClientFails
    <2>2. CASE ClientGrab(c) \/ ClientRebuild(c) \/ Subscribe(c)
               \/ CaptureReplay(c) \/ CaptureSnapshot(c) \/ CaptureRaw(c)
      BY <2>2 DEF TypeOK, ClientGrab, ClientRebuild, Subscribe, CaptureReplay,
         CaptureSnapshot, CaptureRaw
    <2>3. CASE CaptureDead(c) \/ Revive(c) \/ Resnap(c) \/ CheckExited(c)
               \/ CheckRunning(c)
      BY <2>3 DEF TypeOK, CaptureDead, Revive, Resnap, CheckExited, CheckRunning
    <2>4. CASE ForwardLag(c) \/ ForwardSkip(c) \/ ForwardEvent(c)
      BY <2>4 DEF TypeOK, ForwardLag, ForwardSkip, ForwardEvent
    <2> QED
      BY <1>1, <2>1, <2>2, <2>3, <2>4 DEF Handler
  <1>2. CASE Reader(c)
    BY <1>2 DEF TypeOK, Reader, ReceiveAttached, ReceiveOutput, ReceiveNote,
       ReceiveLag, ReceiveEnd, Receive, AttachAfterLag, SendAttach
  <1>3. CASE User(c)
    BY <1>3 DEF TypeOK, User, AttachCold, AttachWarm, SendAttach, Disconnect
  <1> QED
    BY <1>1, <1>2, <1>3

-----------------------------------------------------------------------------
(***************************************************************************)
(* The control part of the inductive invariant: who may write to a         *)
(* connection, and what the client is doing meanwhile.  It holds also when *)
(* the offsets have run out.                                               *)
(***************************************************************************)
ControlInv(c) ==
  \* Nothing is in flight or about to be for a client that is not attached.
  /\ phase[c] \in {"idle", "lagged"} =>
       hPc[c] = "idle" /\ ~fwd[c] /\ wire[c] = << >>
  \* A handler at work has the connection to itself, and the client waits.
  /\ hPc[c] \notin {"idle", "check"} =>
       phase[c] = "waiting" /\ ~fwd[c] /\ wire[c] = << >>
  /\ fwd[c] => hPc[c] = "idle"
  \* The answer to AttachSession is there before anything else can be.
  /\ phase[c] = "waiting" /\ hPc[c] \in {"idle", "check"} =>
       wire[c] # << >> /\ wire[c][1].kind \in AttachReplies \cup {"error"}
  \* Nothing follows Lag or Error.
  /\ \A i \in 1..Len(wire[c]) :
       wire[c][i].kind \in {"lag", "error"} =>
         i = Len(wire[c]) /\ ~fwd[c] /\ hPc[c] = "idle"

\* What the broadcast channel may carry.
ChannelInv ==
  /\ chunk.kind = "output"
  /\ \A i \in 1..Len(bcast) : bcast[i].kind \in {"output", "note", "exited"}

LEMMA ControlFrame ==
  ASSUME NEW d \in Clients, ControlInv(d),
         hPc'[d] = hPc[d], fwd'[d] = fwd[d], wire'[d] = wire[d],
         phase'[d] = phase[d]
  PROVE  ControlInv(d)'
  BY DEF ControlInv

\* One more frame on the wire.
LEMMA Appended ==
  ASSUME TypeOK, NEW c \in Clients, NEW m \in MsgType, Write(c, <<m>>)
  PROVE  /\ Len(wire[c]) \in Nat
         /\ wire'[c] # << >>
         /\ Len(wire'[c]) = Len(wire[c]) + 1
         /\ \A i \in 1..Len(wire[c]) : wire'[c][i] = wire[c][i]
         /\ wire'[c][Len(wire[c]) + 1] = m
         /\ wire'[c][Len(wire'[c])] = m
  <1>1. wire[c] \in Seq(MsgType) /\ wire \in [Clients -> Seq(MsgType)]
    BY DEF TypeOK
  <1>2. wire'[c] = Append(wire[c], m)
    BY <1>1, WriteOneTyped
  <1> QED
    BY <1>1, <1>2, AppendProperties

\* The first frame on an empty wire.
LEMMA FirstFrame ==
  ASSUME TypeOK, NEW c \in Clients, NEW m \in MsgType, Write(c, <<m>>),
         wire[c] = << >>
  PROVE  wire'[c] # << >> /\ Len(wire'[c]) = 1 /\ wire'[c][1] = m
  <1>1. Len(wire[c]) = 0
    OBVIOUS
  <1>2. /\ wire'[c] # << >> /\ Len(wire'[c]) = Len(wire[c]) + 1
        /\ wire'[c][Len(wire[c]) + 1] = m
    BY Appended
  <1> QED
    BY <1>1, <1>2

\* The frame at the front of the wire is taken.
LEMMA Received ==
  ASSUME TypeOK, NEW c \in Clients, Receive(c)
  PROVE  /\ Len(wire[c]) \in Nat /\ Len(wire[c]) > 0
         /\ Head(wire[c]) = wire[c][1] /\ Head(wire[c]) \in MsgType
         /\ Len(wire'[c]) = Len(wire[c]) - 1
         /\ (wire'[c] = << >>) <=> (Len(wire[c]) = 1)
         /\ \A i \in 1..Len(wire'[c]) : wire'[c][i] = wire[c][i + 1]
         /\ hPc'[c] = hPc[c] /\ fwd'[c] = fwd[c] /\ rx'[c] = rx[c]
         /\ want'[c] = want[c] /\ attached'[c] = attached[c]
  <1>1. wire[c] \in Seq(MsgType) /\ wire[c] # << >>
        /\ wire \in [Clients -> Seq(MsgType)]
    BY DEF TypeOK, Receive
  <1>2. wire'[c] = Tail(wire[c]) /\ wire'[c] \in Seq(MsgType)
    BY <1>1, ReceiveTyped
  <1>3. Len(wire'[c]) = Len(wire[c]) - 1
        /\ \A i \in 1..Len(wire'[c]) : wire'[c][i] = wire[c][i + 1]
    BY <1>1, <1>2, HeadTailProperties
  <1>4. (wire'[c] = << >>) <=> (Len(wire'[c]) = 0)
    BY <1>2, EmptySeq
  <1>5. Head(wire[c]) = wire[c][1] /\ Head(wire[c]) \in MsgType
    BY <1>1, ReceiveTyped
  <1>6. Len(wire[c]) \in Nat /\ Len(wire[c]) > 0
    BY <1>1 DEF Receive
  <1>7. /\ hPc'[c] = hPc[c] /\ fwd'[c] = fwd[c] /\ rx'[c] = rx[c]
        /\ want'[c] = want[c] /\ attached'[c] = attached[c]
    BY DEF Receive, handlerVars
  <1> QED
    BY <1>3, <1>4, <1>5, <1>6, <1>7

\* The handler answers AttachSession of a live session with one of these.
LEMMA AnswerExists ==
  ASSUME TypeOK, NEW c \in Clients,
         CaptureReplay(c) \/ CaptureSnapshot(c) \/ CaptureRaw(c) \/ Resnap(c)
  PROVE  \E m \in MsgType : Write(c, <<m>>) /\ m.kind \in AttachReplies
  <1>a. ring.next \in Nat /\ ring.start \in Nat /\ ScrollEnd(Scrollback(ring)) \in Nat
    BY RingAssumption, ScrollbackTyped DEF TypeOK, RingTypeOK
  <1>b. term.upto \in Nat /\ term.clean \in BOOLEAN
    BY DEF TypeOK, TermType
  <1>c. /\ attached[c] \in Nat /\ held[c].start \in Nat
        /\ ScrollEnd(held[c]) \in Nat
    <2>1. attached[c] \in Nat /\ held[c] \in [start : Nat, data : Seq(Nat)]
      BY DEF TypeOK, Rebuilders
    <2> QED
      BY <2>1, ScrollEndTyped
  <1>1. CASE CaptureReplay(c)
    <2> DEFINE end == want[c] + Len(ReplayFrom(ring, want[c]))
               m == Msg("replay", want[c], end, end, TRUE)
    <2>1. want[c] \in Nat /\ end \in Nat
      BY <1>1, ReplayEndTyped DEF CaptureReplay
    <2>2. m \in MsgType /\ m.kind \in AttachReplies
      BY <2>1, MsgTyped DEF MsgKinds, Msg, AttachReplies
    <2>3. Write(c, <<m>>)
      BY <1>1 DEF CaptureReplay, Reply
    <2> QED
      BY <2>2, <2>3
  <1>2. CASE CaptureSnapshot(c)
    <2> DEFINE m == Msg("snapshot", 0, term.upto, ring.next, term.clean)
    <2>1. m \in MsgType /\ m.kind \in AttachReplies
      BY <1>a, <1>b, MsgTyped DEF MsgKinds, Msg, AttachReplies
    <2>2. Write(c, <<m>>)
      BY <1>2 DEF CaptureSnapshot, Reply
    <2> QED
      BY <2>1, <2>2
  <1>3. CASE CaptureRaw(c)
    <2> DEFINE m == Msg("scrollback", ring.start, ScrollEnd(Scrollback(ring)),
                        ring.next, TRUE)
    <2>1. m \in MsgType /\ m.kind \in AttachReplies
      BY <1>a, MsgTyped DEF MsgKinds, Msg, AttachReplies
    <2>2. Write(c, <<m>>)
      BY <1>3 DEF CaptureRaw, Reply
    <2> QED
      BY <2>1, <2>2
  <1>4. CASE Resnap(c)
    <2> DEFINE m1 == Msg("snapshot", 0, term.upto, attached[c], term.clean)
               m2 == Msg("scrollback", held[c].start, ScrollEnd(held[c]),
                         attached[c], TRUE)
    <2>1. m1 \in MsgType /\ m1.kind \in AttachReplies
      BY <1>b, <1>c, MsgTyped DEF MsgKinds, Msg, AttachReplies
    <2>2. m2 \in MsgType /\ m2.kind \in AttachReplies
      BY <1>c, MsgTyped DEF MsgKinds, Msg, AttachReplies
    <2>3. Write(c, <<m1>>) \/ Write(c, <<m2>>)
      BY <1>4 DEF Resnap
    <2> QED
      BY <2>1, <2>2, <2>3
  <1> QED
    BY <1>1, <1>2, <1>3, <1>4

\* The frame of a forwarded event has its kind.
LEMMA ForwardedFrame ==
  ASSUME TypeOK, NEW c \in Clients, ForwardEvent(c)
  PROVE  LET e == bcast[rx[c] + 1]
             m == IF e.kind = "output" THEN e ELSE Marker(e.kind, Sent(c))
         IN  /\ e \in MsgType /\ m \in MsgType
             /\ Write(c, <<m>>) /\ m.kind = e.kind
             /\ e.kind # "output" => m.seq = Sent(c)
  <1> DEFINE e == bcast[rx[c] + 1]
             m == IF e.kind = "output" THEN e ELSE Marker(e.kind, Sent(c))
  <1>1. rx[c] \in Nat /\ bcast \in Seq(MsgType) /\ rx[c] < Len(bcast)
    BY DEF TypeOK, ForwardEvent
  <1>2. e \in MsgType
    BY <1>1
  <1>3. m \in MsgType
    BY <1>2, SentTyped, MarkerTyped DEF MsgType
  <1>4. m.kind = e.kind /\ (e.kind # "output" => m.seq = Sent(c))
    BY DEF Marker, Msg
  <1>5. Write(c, <<m>>)
    BY DEF ForwardEvent
  <1> QED
    BY <1>2, <1>3, <1>4, <1>5

LEMMA HandlerControl ==
  ASSUME TypeOK, ChannelInv, NEW c \in Clients, ControlInv(c), Handler(c)
  PROVE  ControlInv(c)'
  <1> USE DEF clientVars
  <1>t. /\ hPc \in [Clients -> HPcs] /\ fwd \in [Clients -> BOOLEAN]
        /\ wire[c] \in Seq(MsgType)
    BY DEF TypeOK
  <1>1. CASE LookupLive(c) \/ StopForwarder(c) \/ AttachClient(c)
             \/ ClientGrab(c) \/ ClientRebuild(c) \/ Subscribe(c)
             \/ CaptureDead(c) \/ Revive(c)
    <2>1. /\ hPc[c] \notin {"idle", "check"} /\ hPc'[c] \notin {"idle", "check"}
          /\ phase'[c] = phase[c] /\ wire'[c] = wire[c]
          /\ fwd'[c] = fwd[c] \/ fwd'[c] = FALSE
      BY <1>t, <1>1 DEF LookupLive, StopForwarder, AttachClient, ClientGrab,
         ClientRebuild, Subscribe, CaptureDead, Revive, Step
    <2> QED
      BY <2>1 DEF ControlInv
  <1>2. CASE LookupRestored(c)
    <2> DEFINE end == ScrollEnd(Scrollback(ring))
               a == Msg("history", ring.start, end, end, TRUE)
               b == Marker("exited", end)
    <2>1. /\ hPc[c] = "lookup" /\ hPc'[c] = "idle" /\ fwd'[c] = fwd[c]
          /\ phase'[c] = phase[c] /\ wire'[c] = wire[c] \o <<a, b>>
      BY <1>t, <1>2 DEF LookupRestored, Step, Write, TypeOK
    <2>2. wire[c] = << >> /\ ~fwd[c] /\ phase[c] = "waiting"
      BY <2>1 DEF ControlInv
    <2>3. wire'[c] = <<a, b>>
      BY <2>1, <2>2
    <2>4. a.kind = "history" /\ b.kind = "exited"
      BY DEF Msg, Marker
    <2> HIDE DEF a, b
    <2>5. wire'[c] # << >> /\ Len(wire'[c]) = 2 /\ wire'[c][1] = a /\ wire'[c][2] = b
      BY <2>3
    <2> QED
      BY <2>1, <2>2, <2>4, <2>5 DEF ControlInv, AttachReplies
  <1>3. CASE LookupGone(c) \/ AttachClientFails(c)
    <2>1. /\ hPc[c] \notin {"idle", "check"} /\ hPc'[c] = "idle"
          /\ fwd'[c] = fwd[c] /\ phase'[c] = phase[c]
          /\ Write(c, <<Marker("error", 0)>>)
      BY <1>t, <1>3 DEF LookupGone, AttachClientFails, Step
    <2>2. wire[c] = << >> /\ ~fwd[c] /\ phase[c] = "waiting"
      BY <2>1 DEF ControlInv
    <2>3. Marker("error", 0) \in MsgType /\ Marker("error", 0).kind = "error"
      BY MarkerTyped DEF MsgKinds, Marker, Msg
    <2>4. wire'[c] # << >> /\ Len(wire'[c]) = 1 /\ wire'[c][1] = Marker("error", 0)
      BY <2>1, <2>2, <2>3, FirstFrame
    <2> QED
      BY <2>1, <2>2, <2>3, <2>4 DEF ControlInv
  <1>4. CASE CaptureReplay(c) \/ CaptureSnapshot(c) \/ CaptureRaw(c) \/ Resnap(c)
    <2>1. PICK m \in MsgType : Write(c, <<m>>) /\ m.kind \in AttachReplies
      BY <1>4, AnswerExists
    <2>2. /\ hPc[c] \notin {"idle", "check"} /\ hPc'[c] = "check"
          /\ fwd'[c] = fwd[c] /\ phase'[c] = phase[c]
      BY <1>t, <1>4 DEF CaptureReplay, CaptureSnapshot, CaptureRaw, Resnap, Step
    <2>3. wire[c] = << >> /\ ~fwd[c] /\ phase[c] = "waiting"
      BY <2>2 DEF ControlInv
    <2>4. wire'[c] # << >> /\ Len(wire'[c]) = 1 /\ wire'[c][1] = m
      BY <2>1, <2>3, FirstFrame
    <2> QED
      BY <2>1, <2>2, <2>3, <2>4 DEF ControlInv, AttachReplies
  <1>5. CASE CheckExited(c)
    <2> DEFINE m == Marker("exited", Sent(c))
    <2>1. /\ hPc[c] = "check" /\ hPc'[c] = "idle" /\ fwd'[c] = fwd[c]
          /\ phase'[c] = phase[c] /\ Write(c, <<m>>)
      BY <1>t, <1>5 DEF CheckExited, Step
    <2>2. m \in MsgType /\ m.kind = "exited"
      BY SentTyped, MarkerTyped DEF MsgKinds, Marker, Msg
    <2> HIDE DEF m
    <2>3. ~fwd[c] /\ phase[c] \notin {"idle", "lagged"}
      BY <2>1 DEF ControlInv
    <2>4. /\ wire'[c] # << >> /\ Len(wire'[c]) = Len(wire[c]) + 1
          /\ \A i \in 1..Len(wire[c]) : wire'[c][i] = wire[c][i]
          /\ wire'[c][Len(wire[c]) + 1] = m /\ Len(wire[c]) \in Nat
      BY <2>1, <2>2, Appended
    <2>5. \A i \in 1..Len(wire'[c]) : wire'[c][i].kind \notin {"lag", "error"}
      <3>1. \A i \in 1..Len(wire[c]) : wire[c][i].kind \notin {"lag", "error"}
        BY <2>1 DEF ControlInv
      <3> QED
        BY <2>2, <2>4, <3>1
    <2>6. phase[c] = "waiting" => wire'[c][1].kind \in AttachReplies \cup {"error"}
      <3>1. phase[c] = "waiting" => wire[c] # << >> /\ Len(wire[c]) >= 1
        BY <1>t, <2>1, <2>4, EmptySeq DEF ControlInv
      <3> QED
        BY <2>1, <2>4, <3>1 DEF ControlInv
    <2> QED
      BY <2>1, <2>3, <2>4, <2>5, <2>6 DEF ControlInv
  <1>6. CASE CheckRunning(c)
    <2>1. /\ hPc[c] = "check" /\ hPc'[c] = "idle" /\ phase'[c] = phase[c]
          /\ wire'[c] = wire[c] /\ fwd'[c] = TRUE
      BY <1>t, <1>6 DEF CheckRunning, Step
    <2>2. \A i \in 1..Len(wire[c]) : wire[c][i].kind \notin {"lag", "error"}
      BY <2>1 DEF ControlInv
    <2> QED
      BY <2>1, <2>2 DEF ControlInv
  <1>7. CASE ForwardSkip(c)
    BY <1>7, ControlFrame DEF ForwardSkip
  <1>8. CASE ForwardLag(c) \/ ForwardEvent(c)
    <2>1. PICK m \in MsgType :
            /\ Write(c, <<m>>)
            /\ m.kind \in {"lag", "error"} => ~fwd'[c]
      <3>1. CASE ForwardLag(c)
        <4>1. Marker("lag", Sent(c)) \in MsgType
          BY SentTyped, MarkerTyped DEF MsgKinds
        <4> QED
          BY <1>t, <3>1, <4>1 DEF ForwardLag
      <3>2. CASE ForwardEvent(c)
        <4> DEFINE e == bcast[rx[c] + 1]
                   m == IF e.kind = "output" THEN e ELSE Marker(e.kind, Sent(c))
        <4>1. rx[c] + 1 \in 1..Len(bcast)
          BY <3>2 DEF TypeOK, ForwardEvent
        <4>2. m.kind \in {"output", "note", "exited"}
          BY <3>2, <4>1, ForwardedFrame DEF ChannelInv
        <4>3. m \in MsgType /\ Write(c, <<m>>)
          BY <3>2, ForwardedFrame
        <4> HIDE DEF m
        <4> QED
          BY <4>2, <4>3
      <3> QED
        BY <1>8, <3>1, <3>2
    <2>2. /\ fwd[c] /\ hPc'[c] = hPc[c] /\ phase'[c] = phase[c]
          /\ fwd'[c] \in BOOLEAN
      BY <1>t, <1>8 DEF ForwardLag, ForwardEvent
    <2>3. hPc[c] = "idle" /\ phase[c] \notin {"idle", "lagged"}
          /\ \A i \in 1..Len(wire[c]) : wire[c][i].kind \notin {"lag", "error"}
      BY <2>2 DEF ControlInv
    <2>4. /\ wire'[c] # << >> /\ Len(wire'[c]) = Len(wire[c]) + 1
          /\ \A i \in 1..Len(wire[c]) : wire'[c][i] = wire[c][i]
          /\ wire'[c][Len(wire[c]) + 1] = m /\ Len(wire[c]) \in Nat
      BY <2>1, Appended
    <2>5. \A i \in 1..Len(wire'[c]) :
            wire'[c][i].kind \in {"lag", "error"} =>
              i = Len(wire'[c]) /\ ~fwd'[c] /\ hPc'[c] = "idle"
      BY <2>1, <2>2, <2>3, <2>4
    <2>6. phase[c] = "waiting" => wire'[c][1].kind \in AttachReplies \cup {"error"}
      <3>1. phase[c] = "waiting" => wire[c] # << >> /\ Len(wire[c]) >= 1
        BY <1>t, <2>3, <2>4, EmptySeq DEF ControlInv
      <3> QED
        BY <2>3, <2>4, <3>1 DEF ControlInv
    <2> QED
      BY <2>2, <2>3, <2>4, <2>5, <2>6 DEF ControlInv
  <1> QED
    BY <1>1, <1>2, <1>3, <1>4, <1>5, <1>6, <1>7, <1>8, Handler(c) DEF Handler

LEMMA ClientControl ==
  ASSUME TypeOK, NEW c \in Clients, ControlInv(c), Reader(c) \/ User(c)
  PROVE  ControlInv(c)'
  <1>t. /\ hPc \in [Clients -> HPcs] /\ fwd \in [Clients -> BOOLEAN]
        /\ phase \in [Clients -> Phases] /\ wire \in [Clients -> Seq(MsgType)]
    BY DEF TypeOK
  <1>1. CASE ReceiveAttached(c) \/ ReceiveOutput(c) \/ ReceiveNote(c)
             \/ ReceiveLag(c) \/ ReceiveEnd(c)
    <2>1. Receive(c)
      BY <1>1 DEF ReceiveAttached, ReceiveOutput, ReceiveNote, ReceiveLag, ReceiveEnd
    <2>2. /\ Len(wire[c]) \in Nat /\ Len(wire[c]) > 0
          /\ Head(wire[c]) = wire[c][1]
          /\ Len(wire'[c]) = Len(wire[c]) - 1
          /\ (wire'[c] = << >>) <=> (Len(wire[c]) = 1)
          /\ \A i \in 1..Len(wire'[c]) : wire'[c][i] = wire[c][i + 1]
          /\ hPc'[c] = hPc[c] /\ fwd'[c] = fwd[c]
      BY <2>1, Received
    <2>3. hPc[c] \in {"idle", "check"}
      <3>1. wire[c] # << >>
        BY <1>t, <2>2, EmptySeq
      <3> QED
        BY <3>1 DEF ControlInv
    <2>4. phase[c] \notin {"idle", "lagged"}
      BY <1>1 DEF ReceiveAttached, ReceiveOutput, ReceiveNote, ReceiveLag, ReceiveEnd
    <2>5. /\ phase'[c] \notin {"idle", "waiting"}
          /\ phase'[c] = "lagged" => wire[c][1].kind = "lag"
      BY <1>1, <1>t, <2>2, <2>4
      DEF ReceiveAttached, ReceiveOutput, ReceiveNote, ReceiveLag, ReceiveEnd
    <2>6. phase'[c] = "lagged" => Len(wire[c]) = 1 /\ ~fwd[c] /\ hPc[c] = "idle"
      BY <2>2, <2>5 DEF ControlInv
    <2>7. \A i \in 1..Len(wire'[c]) :
            wire'[c][i].kind \in {"lag", "error"} =>
              i = Len(wire'[c]) /\ ~fwd'[c] /\ hPc'[c] = "idle"
      BY <2>2 DEF ControlInv
    <2> QED
      BY <2>2, <2>3, <2>5, <2>6, <2>7 DEF ControlInv
  <1>2. CASE AttachCold(c) \/ AttachWarm(c) \/ AttachAfterLag(c)
    <2>1. /\ phase[c] \in {"idle", "lagged"} /\ phase'[c] = "waiting"
          /\ hPc'[c] = "lookup" /\ wire'[c] = wire[c] /\ fwd'[c] = fwd[c]
      BY <1>t, <1>2 DEF AttachCold, AttachWarm, AttachAfterLag, SendAttach, Step
    <2>2. wire[c] = << >> /\ ~fwd[c]
      BY <2>1 DEF ControlInv
    <2>3. Len(wire[c]) = 0
      BY <2>2
    <2> QED
      BY <2>1, <2>2, <2>3 DEF ControlInv
  <1>3. CASE Disconnect(c)
    <2>1. /\ phase[c] # "idle" /\ hPc'[c] = "idle" /\ fwd'[c] = FALSE
          /\ wire'[c] = << >> /\ phase'[c] \in {"idle", "exited", "ended"}
      BY <1>t, <1>3 DEF Disconnect
    <2>2. Len(wire'[c]) = 0
      BY <2>1
    <2> QED
      BY <2>1, <2>2 DEF ControlInv
  <1> QED
    BY <1>1, <1>2, <1>3 DEF Reader, User

\* What the invariant of the control needs and keeps.
Control == ChannelInv /\ \A c \in Clients : ControlInv(c)

LEMMA ControlStep ==
  ASSUME RingInv, TypeOK, Control, [Next]_vars
  PROVE  Control'
  <1>1. CASE Session
    <2>1. \A c \in Clients : ControlInv(c)'
      BY <1>1, SessionLeavesConnections, ControlFrame DEF Control
    <2>2. ChannelInv'
      <3>1. CASE chunk' = chunk /\ bcast' = bcast
        BY <3>1 DEF Control, ChannelInv
      <3>2. CASE bcast' = bcast /\ chunk'.kind = "output"
        BY <3>2 DEF Control, ChannelInv
      <3>3. ASSUME NEW e \in MsgType, bcast' = Append(bcast, e), chunk' = chunk,
                   e.kind \in {"output", "note", "exited"}
            PROVE  ChannelInv'
        <4>1. /\ Len(bcast') = Len(bcast) + 1 /\ Len(bcast) \in Nat
              /\ \A i \in 1..Len(bcast) : bcast'[i] = bcast[i]
              /\ bcast'[Len(bcast) + 1] = e
          BY <3>3, AppendProperties DEF TypeOK
        <4> QED
          BY <3>3, <4>1 DEF Control, ChannelInv
      <3>4. ASSUME NEW n \in 1..MaxChunk, ReadChunk(n) PROVE ChannelInv'
        BY <3>2, <3>4 DEF ReadChunk, Msg
      <3>5. CASE Publish
        BY <3>3, <3>5 DEF Publish, Broadcast, TypeOK, Control, ChannelInv
      <3>6. CASE AnnounceExit
        <4>1. Marker("exited", BcastEnd) \in MsgType
          BY BcastEndTyped, MarkerTyped DEF TypeOK, MsgKinds
        <4> QED
          BY <3>3, <3>6, <4>1 DEF AnnounceExit, Broadcast, Marker, Msg
      <3>7. CASE StateChange
        <4>1. Marker("note", BcastEnd) \in MsgType
          BY BcastEndTyped, MarkerTyped DEF TypeOK, MsgKinds
        <4> QED
          BY <3>3, <3>7, <4>1 DEF StateChange, Broadcast, Marker, Msg
      <3>8. CASE IoGrab \/ IoRebuild \/ MarkExited \/ Evict \/ KillSession
                 \/ DebouncedResize \/ ResizerGrab \/ ResizerRebuild
        BY <3>1, <3>8 DEF IoGrab, IoRebuild, MarkExited, Evict, KillSession,
           DebouncedResize, ResizerGrab, ResizerRebuild
      <3> QED
        BY <1>1, <3>4, <3>5, <3>6, <3>7, <3>8 DEF Session
    <2> QED
      BY <2>1, <2>2 DEF Control
  <1>2. ASSUME NEW c \in Clients, Handler(c) \/ Reader(c) \/ User(c)
        PROVE  Control'
    <2>1. ControlInv(c)'
      BY <1>2, HandlerControl, ClientControl DEF Control
    <2>2. \A d \in Clients \ {c} : ControlInv(d)'
      BY <1>2, ConnectionLeavesOthers, ControlFrame DEF Control
    <2>3. ChannelInv'
      BY <1>2, ConnectionLeavesStream DEF Control, ChannelInv
    <2> QED
      BY <2>1, <2>2, <2>3 DEF Control
  <1>3. CASE UNCHANGED vars
    BY <1>3 DEF vars, sessionVars, handlerVars, clientVars, Control, ChannelInv,
       ControlInv
  <1> QED
    BY <1>1, <1>2, <1>3 DEF Next

LEMMA InitControl == Init => Control
  <1> SUFFICES ASSUME Init PROVE Control
    OBVIOUS
  <1>1. chunk.kind = "output"
    BY DEF Init, Marker, Msg
  <1>2. Len(bcast) = 0
    BY DEF Init
  <1>3. ASSUME NEW c \in Clients PROVE ControlInv(c)
    <2>1. /\ hPc[c] = "idle" /\ fwd[c] = FALSE /\ wire[c] = << >>
          /\ phase[c] = "idle"
      BY DEF Init
    <2>2. Len(wire[c]) = 0
      BY <2>1
    <2> QED
      BY <2>1, <2>2 DEF ControlInv
  <1> QED
    BY <1>1, <1>2, <1>3 DEF Control, ChannelInv

LEMMA ControlAlways == Spec => []Control
  BY InitControl, ControlStep, StreamTypeCorrect, RingAlways, PTL DEF Spec

(***************************************************************************)
(* AttachReplyFirst for any number of clients and any queue lengths: the   *)
(* first frame a waiting client reads is the answer to its AttachSession   *)
(* (ipc.rs:756-782 against attach_loop.rs:155-165).                        *)
(***************************************************************************)
THEOREM AttachReplyComesFirst == Spec => []AttachReplyFirst
  <1>1. TypeOK /\ Control => AttachReplyFirst
    <2> SUFFICES ASSUME TypeOK, Control, NEW c \in Clients,
                        phase[c] = "waiting", Len(wire[c]) > 0
                 PROVE  wire[c][1].kind \in AttachReplies \cup {"error"}
      BY DEF AttachReplyFirst
    <2>1. wire[c] # << >>
      OBVIOUS
    <2> QED
      BY <2>1 DEF Control, ControlInv
  <1> QED
    BY <1>1, ControlAlways, StreamTypeCorrect, PTL

(***************************************************************************)
(* LagIsTerminal in general: nothing follows a Lag frame                   *)
(* (ForwardedEvent::TerminalMessage, ipc.rs:814-819).                      *)
(***************************************************************************)
THEOREM LagEndsAttachment == Spec => []LagIsTerminal
  <1>1. Control => LagIsTerminal
    BY DEF Control, ControlInv, LagIsTerminal
  <1> QED
    BY <1>1, ControlAlways, PTL

-----------------------------------------------------------------------------
\* The position of the stream after the first i events of channel b.
Upto(b, i) == IF i = 0 THEN 0 ELSE b[i].upto

\* The I/O thread holds a chunk that the ring has and the channel has not.
ChunkPending == ioPc \in {"grab", "rebuild", "publish"}

(***************************************************************************)
(* The broadcast channel carries the stream without a hole.                *)
(***************************************************************************)
BroadcastInv ==
  /\ \A i \in 1..Len(bcast) :
       /\ bcast[i].kind \in {"output", "note", "exited"}
       /\ bcast[i].from = Upto(bcast, i - 1)
       /\ bcast[i].seq = bcast[i].upto
       /\ bcast[i].kind # "output" => bcast[i].from = bcast[i].upto
  /\ \A i, j \in 0..Len(bcast) : i <= j => Upto(bcast, i) <= Upto(bcast, j)
  /\ Upto(bcast, Len(bcast)) = IF ChunkPending THEN chunk.from ELSE produced
  /\ ChunkPending =>
       /\ chunk.kind = "output"
       /\ chunk.from <= chunk.upto
       /\ chunk.upto = produced /\ chunk.seq = produced

\* No chunk straddles offset a: each one is wholly before or wholly after it.
OnBoundary(a) ==
  /\ \A i \in 1..Len(bcast) :
       bcast[i].kind = "output" => bcast[i].seq <= a \/ a <= bcast[i].from
  /\ ChunkPending => chunk.seq <= a \/ a <= chunk.from

\* The offset that the last frame written to the connection reaches is a.
Reaches(c, a) ==
  IF wire[c] = << >> THEN seen[c] = a ELSE wire[c][Len(wire[c])].seq = a

\* The offset before frame i of a connection.
Before(c, i) == IF i = 1 THEN seen[c] ELSE wire[c][i - 1].seq

Later(a, b) == IF b > a THEN b ELSE a

\* Every frame on the wire starts where the one before it ends.
WireChained(c) ==
  \A i \in 1..Len(wire[c]) :
    /\ wire[c][i].kind \in {"output", "replay"} => wire[c][i].from = Before(c, i)
    /\ wire[c][i].kind \in {"note", "lag", "exited"} => wire[c][i].seq = Before(c, i)

(***************************************************************************)
(* The data part: what the receiver still has to deliver continues what    *)
(* the frames on the wire end with.                                        *)
(***************************************************************************)
DeliveryInv(c) ==
  /\ hPc[c] \in {"lookup", "stop", "resize", "grab", "rebuild", "subscribe",
                 "capture"} => want[c] = seen[c]
  /\ hPc[c] = "capture" => rx[c] <= Len(bcast)
  /\ fwd[c] \/ hPc[c] \in {"revive", "resnap", "check"} =>
       /\ rx[c] <= Len(bcast)
       /\ attached[c] <= produced
       /\ OnBoundary(attached[c])
  /\ hPc[c] \in {"revive", "resnap", "check"} => Upto(bcast, rx[c]) <= attached[c]
  /\ hPc[c] = "check" => Reaches(c, attached[c])
  /\ fwd[c] => Reaches(c, Later(attached[c], Upto(bcast, rx[c])))
  /\ WireChained(c)

StreamInv ==
  ~Exhausted => BroadcastInv /\ \A c \in Clients : DeliveryInv(c)

-----------------------------------------------------------------------------
(***************************************************************************)
(* The session's threads keep the channel free of holes.                   *)
(***************************************************************************)

LEMMA BcastEndIsUpto ==
  ASSUME TypeOK
  PROVE  BcastEnd = Upto(bcast, Len(bcast)) /\ Len(bcast) \in Nat
  BY DEF BcastEnd, Upto, TypeOK

LEMMA UptoTyped ==
  ASSUME TypeOK, NEW i \in 0..Len(bcast)
  PROVE  Upto(bcast, i) \in Nat
  <1>1. CASE i = 0
    BY <1>1 DEF Upto
  <1>2. CASE i # 0
    <2>1. bcast[i] \in MsgType
      BY <1>2 DEF TypeOK
    <2> QED
      BY <1>2, <2>1 DEF Upto, MsgType
  <1> QED
    BY <1>1, <1>2

\* One more event in the channel, which starts where the last one ends.
LEMMA AppendEvent ==
  ASSUME TypeOK, BroadcastInv, NEW e \in MsgType, bcast' = Append(bcast, e),
         e.kind \in {"output", "note", "exited"},
         e.from = Upto(bcast, Len(bcast)), e.from <= e.upto, e.seq = e.upto,
         e.kind # "output" => e.from = e.upto
  PROVE  /\ Len(bcast) \in Nat /\ Len(bcast') = Len(bcast) + 1
         /\ bcast'[Len(bcast) + 1] = e
         /\ \A i \in 1..Len(bcast) : bcast'[i] = bcast[i]
         /\ \A i \in 0..Len(bcast) : Upto(bcast', i) = Upto(bcast, i)
         /\ Upto(bcast', Len(bcast')) = e.upto
         /\ \A i \in 1..Len(bcast') :
              /\ bcast'[i].kind \in {"output", "note", "exited"}
              /\ bcast'[i].from = Upto(bcast', i - 1)
              /\ bcast'[i].seq = bcast'[i].upto
              /\ bcast'[i].kind # "output" => bcast'[i].from = bcast'[i].upto
         /\ \A i, j \in 0..Len(bcast') : i <= j => Upto(bcast', i) <= Upto(bcast', j)
  <1> DEFINE n == Len(bcast)
  <1>1. /\ n \in Nat /\ Len(bcast') = n + 1
        /\ \A i \in 1..n : bcast'[i] = bcast[i]
        /\ bcast'[n + 1] = e
    BY AppendProperties DEF TypeOK
  <1>2. \A i \in 0..n : Upto(bcast', i) = Upto(bcast, i)
    BY <1>1 DEF Upto
  <1>3. Upto(bcast', n + 1) = e.upto
    BY <1>1 DEF Upto
  <1>4. e.upto \in Nat /\ e.from \in Nat
    BY DEF MsgType
  <1>5. \A i \in 0..n : Upto(bcast, i) \in Nat /\ Upto(bcast, i) <= Upto(bcast, n)
    BY <1>1, UptoTyped DEF BroadcastInv
  <1> HIDE DEF n
  <1>6. ASSUME NEW i \in 1..(n + 1)
        PROVE  /\ bcast'[i].kind \in {"output", "note", "exited"}
               /\ bcast'[i].from = Upto(bcast', i - 1)
               /\ bcast'[i].seq = bcast'[i].upto
               /\ bcast'[i].kind # "output" => bcast'[i].from = bcast'[i].upto
    <2>1. CASE i = n + 1
      <3>1. Upto(bcast', i - 1) = Upto(bcast, n)
        BY <1>1, <1>2, <2>1
      <3> QED
        BY <1>1, <2>1, <3>1 DEF n
    <2>2. CASE i # n + 1
      <3>1. i \in 1..n /\ i - 1 \in 0..n
        BY <1>1, <2>2
      <3>2. Upto(bcast', i - 1) = Upto(bcast, i - 1) /\ bcast'[i] = bcast[i]
        BY <1>1, <1>2, <3>1
      <3> QED
        BY <3>1, <3>2 DEF BroadcastInv, n
    <2> QED
      BY <2>1, <2>2
  <1>7. ASSUME NEW i \in 0..(n + 1), NEW j \in 0..(n + 1), i <= j
        PROVE  Upto(bcast', i) <= Upto(bcast', j)
    <2>1. CASE j = n + 1
      <3>1. CASE i = n + 1
        BY <1>3, <1>4, <2>1, <3>1
      <3>2. CASE i # n + 1
        <4>1. i \in 0..n /\ Upto(bcast, n) = e.from
          BY <1>1, <3>2 DEF n
        <4>2. Upto(bcast', i) = Upto(bcast, i) /\ Upto(bcast, i) \in Nat /\ Upto(bcast, i) <= Upto(bcast, n)
          BY <1>2, <1>5, <4>1
        <4> QED
          BY <1>3, <1>4, <2>1, <4>1, <4>2
      <3> QED
        BY <3>1, <3>2
    <2>2. CASE j # n + 1
      <3>1. i \in 0..n /\ j \in 0..n
        BY <1>1, <1>7, <2>2
      <3>2. Upto(bcast, i) <= Upto(bcast, j)
        BY <1>7, <3>1 DEF BroadcastInv, n
      <3> QED
        BY <1>2, <3>1, <3>2
    <2> QED
      BY <2>1, <2>2
  <1> QED
    BY <1>1, <1>2, <1>3, <1>6, <1>7 DEF n

\* The whole effect of a session step on what the connections depend on.
LEMMA BroadcastStep ==
  ASSUME RingInv, TypeOK, Control, BroadcastInv, ~Exhausted', Session
  PROVE  /\ BroadcastInv'
         /\ produced <= produced'
         /\ Len(bcast) <= Len(bcast')
         /\ \A i \in 0..Len(bcast) : Upto(bcast', i) = Upto(bcast, i)
         /\ \A a \in Nat : a <= produced /\ OnBoundary(a) => OnBoundary(a)'
  <1>t. produced \in Nat /\ Len(bcast) \in Nat /\ BcastEnd = Upto(bcast, Len(bcast))
        /\ bcast \in Seq(MsgType)
    BY RingAssumption, BcastEndIsUpto DEF TypeOK, RingTypeOK
  <1>1. ASSUME NEW n \in 1..MaxChunk, ReadChunk(n)
        PROVE  /\ BroadcastInv' /\ produced <= produced'
               /\ bcast' = bcast
               /\ \A a \in Nat : a <= produced /\ OnBoundary(a) => OnBoundary(a)'
    <2>1. /\ produced' = produced + n /\ n \in Nat /\ n > 0
          /\ produced' \in Nat /\ produced' <= MaxSeq
      BY <1>1, <1>t, RingAssumption DEF ReadChunk, Push, Exhausted
    <2>2. ring.next = produced
      <3>1. ~Exhausted
        BY <1>t, <2>1, RingAssumption DEF Exhausted
      <3> QED
        BY <3>1 DEF RingInv, IsWindow
    <2>3. SaturatingSeq(ring, n) = produced'
      BY <2>1, <2>2, RingAssumption DEF SaturatingSeq
    <2>4. /\ chunk'.kind = "output" /\ chunk'.from = produced
          /\ chunk'.upto = produced' /\ chunk'.seq = produced'
      BY <1>1, <2>1, <2>3 DEF ReadChunk, Msg
    <2>5. ioPc = "poll" /\ ChunkPending' /\ bcast' = bcast
      BY <1>1 DEF ReadChunk, ChunkPending
    <2>6. Upto(bcast, Len(bcast)) = produced
      BY <2>5 DEF BroadcastInv, ChunkPending
    <2>7. BroadcastInv'
      <3>1. /\ chunk'.from <= chunk'.upto
            /\ Upto(bcast', Len(bcast')) = chunk'.from
        BY <1>t, <2>1, <2>4, <2>5, <2>6
      <3> QED
        BY <2>4, <2>5, <3>1 DEF BroadcastInv
    <2>8. \A a \in Nat : a <= produced /\ OnBoundary(a) => OnBoundary(a)'
      BY <1>t, <2>4, <2>5 DEF OnBoundary
    <2> QED
      BY <1>t, <2>1, <2>5, <2>7, <2>8
  <1>2. ASSUME NEW e \in MsgType, bcast' = Append(bcast, e), chunk' = chunk,
               produced' = produced, ~ChunkPending',
               \/ ChunkPending /\ e = chunk
               \/ /\ ~ChunkPending /\ e.kind \in {"note", "exited"}
                  /\ e.from = BcastEnd /\ e.upto = BcastEnd /\ e.seq = BcastEnd
        PROVE  /\ BroadcastInv' /\ Len(bcast) <= Len(bcast')
               /\ \A i \in 0..Len(bcast) : Upto(bcast', i) = Upto(bcast, i)
               /\ \A a \in Nat : OnBoundary(a) => OnBoundary(a)'
    <2>1. /\ e.kind \in {"output", "note", "exited"}
          /\ e.from = Upto(bcast, Len(bcast)) /\ e.from <= e.upto /\ e.seq = e.upto
          /\ e.kind # "output" => e.from = e.upto
          /\ e.upto = produced
      <3>1. CASE ChunkPending
        BY <1>2, <3>1 DEF BroadcastInv
      <3>2. CASE ~ChunkPending
        BY <1>2, <1>t, <3>2 DEF BroadcastInv
      <3> QED
        BY <3>1, <3>2
    <2>2. /\ Len(bcast') = Len(bcast) + 1
          /\ bcast'[Len(bcast) + 1] = e
          /\ \A i \in 1..Len(bcast) : bcast'[i] = bcast[i]
          /\ \A i \in 0..Len(bcast) : Upto(bcast', i) = Upto(bcast, i)
          /\ Upto(bcast', Len(bcast')) = e.upto
          /\ \A i \in 1..Len(bcast') :
               /\ bcast'[i].kind \in {"output", "note", "exited"}
               /\ bcast'[i].from = Upto(bcast', i - 1)
               /\ bcast'[i].seq = bcast'[i].upto
               /\ bcast'[i].kind # "output" => bcast'[i].from = bcast'[i].upto
          /\ \A i, j \in 0..Len(bcast') : i <= j => Upto(bcast', i) <= Upto(bcast', j)
      BY <1>2, <2>1, AppendEvent
    <2>3. BroadcastInv'
      BY <1>2, <2>1, <2>2 DEF BroadcastInv
    <2>4. \A a \in Nat : OnBoundary(a) => OnBoundary(a)'
      BY <1>2, <1>t, <2>2 DEF OnBoundary
    <2> QED
      BY <1>t, <2>2, <2>3, <2>4
  <1>3. CASE Publish
    <2>1. /\ ChunkPending /\ ~ChunkPending' /\ chunk \in MsgType
          /\ bcast' = Append(bcast, chunk) /\ chunk' = chunk /\ produced' = produced
      BY <1>3 DEF Publish, ChunkPending, Broadcast, ringVars, TypeOK
    <2> QED
      BY <1>t, <1>2, <2>1
  <1>4. CASE AnnounceExit
    <2> DEFINE e == Marker("exited", BcastEnd)
    <2>1. e \in MsgType
      BY BcastEndTyped, MarkerTyped DEF TypeOK, MsgKinds
    <2>2. /\ e.kind = "exited" /\ e.from = BcastEnd /\ e.upto = BcastEnd
          /\ e.seq = BcastEnd
      BY DEF Marker, Msg
    <2>3. /\ ~ChunkPending /\ ~ChunkPending' /\ bcast' = Append(bcast, e)
          /\ chunk' = chunk /\ produced' = produced
      BY <1>4 DEF AnnounceExit, ChunkPending, Broadcast, ringVars
    <2> HIDE DEF e
    <2> QED
      BY <1>t, <1>2, <2>1, <2>2, <2>3
  <1>5. CASE StateChange
    \* A note may also come between the push and the broadcast of a chunk.
    <2> DEFINE e == Marker("note", BcastEnd)
    <2>1. e \in MsgType
      BY BcastEndTyped, MarkerTyped DEF TypeOK, MsgKinds
    <2>2. /\ e.kind = "note" /\ e.from = BcastEnd /\ e.upto = BcastEnd
          /\ e.seq = BcastEnd
      BY DEF Marker, Msg
    <2>3. /\ bcast' = Append(bcast, e) /\ chunk' = chunk /\ produced' = produced
          /\ ioPc' = ioPc
      BY <1>5 DEF StateChange, Broadcast, ringVars
    <2>4. BcastEnd \in Nat
      BY BcastEndTyped DEF TypeOK
    <2> HIDE DEF e
    <2>5. /\ Len(bcast') = Len(bcast) + 1
          /\ bcast'[Len(bcast) + 1] = e
          /\ \A i \in 1..Len(bcast) : bcast'[i] = bcast[i]
          /\ \A i \in 0..Len(bcast) : Upto(bcast', i) = Upto(bcast, i)
          /\ Upto(bcast', Len(bcast')) = e.upto
          /\ \A i \in 1..Len(bcast') :
               /\ bcast'[i].kind \in {"output", "note", "exited"}
               /\ bcast'[i].from = Upto(bcast', i - 1)
               /\ bcast'[i].seq = bcast'[i].upto
               /\ bcast'[i].kind # "output" => bcast'[i].from = bcast'[i].upto
          /\ \A i, j \in 0..Len(bcast') : i <= j => Upto(bcast', i) <= Upto(bcast', j)
      BY <1>t, <2>1, <2>2, <2>3, <2>4, AppendEvent
    <2>6. ChunkPending' = ChunkPending
      BY <2>3 DEF ChunkPending
    <2>7. BroadcastInv'
      BY <1>t, <2>2, <2>3, <2>5, <2>6 DEF BroadcastInv
    <2>8. \A a \in Nat : OnBoundary(a) => OnBoundary(a)'
      BY <1>t, <2>2, <2>3, <2>5, <2>6 DEF OnBoundary
    <2> QED
      BY <1>t, <2>3, <2>5, <2>7, <2>8
  <1>6. CASE IoGrab \/ IoRebuild \/ MarkExited \/ Evict \/ KillSession
             \/ DebouncedResize \/ ResizerGrab \/ ResizerRebuild
    <2>1. /\ bcast' = bcast /\ chunk' = chunk /\ produced' = produced
          /\ ChunkPending' = ChunkPending
      BY <1>6 DEF IoGrab, IoRebuild, MarkExited, Evict, KillSession,
         DebouncedResize, ResizerGrab, ResizerRebuild, ChunkPending, ringVars
    <2>2. BroadcastInv'
      BY <2>1 DEF BroadcastInv, Upto
    <2> QED
      BY <1>t, <2>1, <2>2 DEF OnBoundary, Upto
  <1>7. ASSUME bcast' = bcast PROVE \A i \in 0..Len(bcast) : Upto(bcast', i) = Upto(bcast, i)
    BY <1>7 DEF Upto
  <1> QED
    BY <1>1, <1>3, <1>4, <1>5, <1>6, <1>7, <1>t DEF Session

-----------------------------------------------------------------------------
(***************************************************************************)
(* The frames on a wire.                                                   *)
(***************************************************************************)

LEMMA SentReaches ==
  ASSUME TypeOK, NEW c \in Clients, NEW a \in Nat, Reaches(c, a)
  PROVE  Sent(c) = a
  <1>1. wire[c] \in Seq(MsgType)
    BY DEF TypeOK
  <1>2. (wire[c] = << >>) <=> (Len(wire[c]) = 0)
    BY <1>1, EmptySeq
  <1> QED
    BY <1>2 DEF Sent, Reaches, NoSeq

\* A frame that continues the wire keeps it chained.
LEMMA ExtendWire ==
  ASSUME TypeOK, NEW c \in Clients, NEW m \in MsgType, Write(c, <<m>>),
         seen'[c] = seen[c], NEW a, Reaches(c, a), WireChained(c),
         m.kind \in {"output", "replay"} => m.from = a,
         m.kind \in {"note", "lag", "exited"} => m.seq = a
  PROVE  WireChained(c)' /\ Reaches(c, m.seq)'
  <1> DEFINE n == Len(wire[c])
  <1>1. /\ n \in Nat /\ wire'[c] # << >> /\ Len(wire'[c]) = n + 1
        /\ \A i \in 1..n : wire'[c][i] = wire[c][i]
        /\ wire'[c][n + 1] = m
    BY Appended
  <1>2. Reaches(c, m.seq)'
    BY <1>1 DEF Reaches
  <1>3. a = IF n = 0 THEN seen[c] ELSE wire[c][n].seq
    <2>1. (wire[c] = << >>) <=> (n = 0)
      BY EmptySeq DEF TypeOK
    <2> QED
      BY <2>1 DEF Reaches
  <1> HIDE DEF n
  <1>4. ASSUME NEW i \in 1..(n + 1)
        PROVE  /\ wire'[c][i].kind \in {"output", "replay"} =>
                    wire'[c][i].from = Before(c, i)'
               /\ wire'[c][i].kind \in {"note", "lag", "exited"} =>
                    wire'[c][i].seq = Before(c, i)'
    <2>1. CASE i = n + 1
      <3>1. Before(c, i)' = a
        <4>1. CASE n = 0
          BY <1>3, <2>1, <4>1 DEF Before
        <4>2. CASE n # 0
          <5>1. i - 1 = n /\ i # 1 /\ n \in 1..n
            BY <1>1, <2>1, <4>2
          <5> QED
            BY <1>1, <1>3, <4>2, <5>1 DEF Before
        <4> QED
          BY <4>1, <4>2
      <3> QED
        BY <1>1, <2>1, <3>1
    <2>2. CASE i # n + 1
      <3>1. i \in 1..n
        BY <1>1, <2>2
      <3>2. Before(c, i)' = Before(c, i)
        BY <1>1, <3>1 DEF Before
      <3> QED
        BY <1>1, <3>1, <3>2 DEF WireChained, n
    <2> QED
      BY <2>1, <2>2
  <1> QED
    BY <1>1, <1>2, <1>4 DEF WireChained

\* A client that reads a frame has reached the offset the frame ends with.
LEMMA ConsumeWire ==
  ASSUME TypeOK, NEW c \in Clients, Receive(c), seen'[c] = wire[c][1].seq,
         WireChained(c)
  PROVE  WireChained(c)' /\ \A a : Reaches(c, a) => Reaches(c, a)'
  <1> DEFINE n == Len(wire[c])
  <1>1. /\ n \in Nat /\ n > 0 /\ Len(wire'[c]) = n - 1
        /\ (wire'[c] = << >>) <=> (n = 1)
        /\ \A i \in 1..Len(wire'[c]) : wire'[c][i] = wire[c][i + 1]
    BY Received
  <1>2. wire[c] # << >>
    BY <1>1
  <1> HIDE DEF n
  <1>3. ASSUME NEW i \in 1..(n - 1)
        PROVE  /\ wire'[c][i].kind \in {"output", "replay"} =>
                    wire'[c][i].from = Before(c, i)'
               /\ wire'[c][i].kind \in {"note", "lag", "exited"} =>
                    wire'[c][i].seq = Before(c, i)'
    <2>1. wire'[c][i] = wire[c][i + 1] /\ i + 1 \in 1..n
      BY <1>1
    <2>2. Before(c, i)' = Before(c, i + 1)
      <3>1. Before(c, i + 1) = wire[c][i].seq
        BY DEF Before
      <3>2. CASE i = 1
        BY <3>1, <3>2 DEF Before
      <3>3. CASE i # 1
        <4>1. i - 1 \in 1..(n - 1) /\ (i - 1) + 1 = i
          BY <1>1, <3>3
        <4>2. wire'[c][i - 1] = wire[c][i]
          BY <1>1, <4>1
        <4> QED
          BY <3>1, <3>3, <4>2 DEF Before
      <3> QED
        BY <3>2, <3>3
    <2> QED
      BY <2>1, <2>2 DEF WireChained, n
  <1>4. ASSUME NEW a, Reaches(c, a) PROVE Reaches(c, a)'
    <2>1. wire[c][n].seq = a
      BY <1>2, <1>4 DEF Reaches, n
    <2>2. CASE n = 1
      BY <1>1, <2>1, <2>2 DEF Reaches
    <2>3. CASE n # 1
      <3>1. wire'[c] # << >> /\ wire'[c][n - 1] = wire[c][n]
        BY <1>1, <2>3
      <3> QED
        BY <1>1, <2>1, <3>1 DEF Reaches
    <2> QED
      BY <2>2, <2>3
  <1> QED
    BY <1>1, <1>3, <1>4 DEF WireChained

-----------------------------------------------------------------------------
(***************************************************************************)
(* Every step keeps the deliveries in line.                                *)
(***************************************************************************)

\* The session's steps do not disturb a connection.
LEMMA SessionDelivery ==
  ASSUME TypeOK, NEW c \in Clients, DeliveryInv(c),
         UNCHANGED <<hPc, fwd, want, rx, attached, wire, phase, seen>>,
         produced \in Nat, produced' \in Nat, produced <= produced',
         Len(bcast) \in Nat, Len(bcast') \in Nat, Len(bcast) <= Len(bcast'),
         \A i \in 0..Len(bcast) : Upto(bcast', i) = Upto(bcast, i),
         \A a \in Nat : a <= produced /\ OnBoundary(a) => OnBoundary(a)'
  PROVE  DeliveryInv(c)'
  <1> DEFINE Busy == fwd[c] \/ hPc[c] \in {"revive", "resnap", "check"}
  <1>1. rx[c] \in Nat /\ attached[c] \in Nat
    BY DEF TypeOK
  <1>2. WireChained(c)' /\ \A a : Reaches(c, a)' = Reaches(c, a)
    BY DEF DeliveryInv, WireChained, Before, Reaches
  <1>3. ASSUME Busy
        PROVE  /\ rx[c] <= Len(bcast') /\ attached[c] <= produced'
               /\ OnBoundary(attached[c])'
               /\ Upto(bcast', rx[c]) = Upto(bcast, rx[c])
    <2>1. rx[c] <= Len(bcast) /\ attached[c] <= produced /\ OnBoundary(attached[c])
      BY <1>3 DEF DeliveryInv
    <2>2. rx[c] \in 0..Len(bcast)
      BY <1>1, <2>1
    <2>3. ASSUME NEW a \in Nat, a = attached[c] PROVE OnBoundary(attached[c])'
      <3>1. OnBoundary(a)' /\ attached'[c] = a
        BY <2>1, <2>3
      <3> QED
        BY <3>1 DEF OnBoundary
    <2> QED
      BY <1>1, <2>1, <2>2, <2>3
  <1>4. hPc[c] = "capture" => rx[c] <= Len(bcast')
    BY <1>1 DEF DeliveryInv
  <1> QED
    BY <1>2, <1>3, <1>4 DEF DeliveryInv

\* Program counters of a handler that has not captured its answer yet.
Preparing == {"lookup", "stop", "resize", "grab", "rebuild", "subscribe", "capture"}

\* The offset at which attach_bytes captures is a boundary of chunks.
LEMMA CaptureOnBoundary ==
  ASSUME TypeOK, BroadcastInv
  PROVE  /\ OnBoundary(produced)
         /\ \A i \in 0..Len(bcast) : Upto(bcast, i) <= produced
  <1>t. Len(bcast) \in Nat /\ produced \in Nat
    BY RingAssumption DEF TypeOK, RingTypeOK
  <1>1. Upto(bcast, Len(bcast)) <= produced
    <2>1. Upto(bcast, Len(bcast)) \in Nat
      BY <1>t, UptoTyped
    <2> QED
      BY <1>t, <2>1 DEF BroadcastInv
  <1>2. ASSUME NEW i \in 0..Len(bcast) PROVE Upto(bcast, i) <= produced
    <2>1. /\ Upto(bcast, i) \in Nat /\ Upto(bcast, Len(bcast)) \in Nat
          /\ Upto(bcast, i) <= Upto(bcast, Len(bcast))
      BY <1>t, UptoTyped DEF BroadcastInv
    <2> QED
      BY <1>t, <1>1, <2>1
  <1>3. \A i \in 1..Len(bcast) : bcast[i].seq <= produced
    <2> SUFFICES ASSUME NEW i \in 1..Len(bcast) PROVE bcast[i].seq <= produced
      OBVIOUS
    <2>1. bcast[i].seq = Upto(bcast, i) /\ i \in 0..Len(bcast)
      BY DEF BroadcastInv, Upto
    <2> QED
      BY <1>2, <2>1
  <1>4. ChunkPending => chunk.seq <= produced
    BY <1>t DEF BroadcastInv
  <1> QED
    BY <1>2, <1>3, <1>4 DEF OnBoundary

\* The answer of attach_bytes continues what the client has seen.
LEMMA CapturedAnswer ==
  ASSUME RingInv, TypeOK, ~Exhausted, NEW c \in Clients,
         CaptureReplay(c) \/ CaptureSnapshot(c) \/ CaptureRaw(c)
  PROVE  \E m \in MsgType :
           /\ Write(c, <<m>>) /\ attached'[c] = produced /\ m.seq = produced
           /\ m.kind \in {"replay", "snapshot", "scrollback"}
           /\ m.kind = "replay" => m.from = want[c]
  <1>t. /\ produced \in Nat /\ IsWindow(ring, produced) /\ ring.next = produced
        /\ ring.start \in Nat /\ ScrollEnd(Scrollback(ring)) \in Nat
        /\ attached \in [Clients -> Nat]
    BY RingAssumption, ScrollbackTyped DEF TypeOK, RingTypeOK, RingInv, IsWindow
  <1>b. term.upto \in Nat /\ term.clean \in BOOLEAN
    BY DEF TypeOK, TermType
  <1>1. CASE CaptureReplay(c)
    <2> DEFINE end == want[c] + Len(ReplayFrom(ring, want[c]))
               m == Msg("replay", want[c], end, end, TRUE)
    <2>1. want[c] \in Nat /\ HasReplay(ring, want[c])
      BY <1>1, ReplayEndTyped DEF CaptureReplay, CanReplay
    <2>2. Stretch(ReplayFrom(ring, want[c]), want[c], produced) /\ want[c] <= produced
      BY <1>t, <2>1, ReplayIsStretch
    <2>3. end = produced
      BY <1>t, <2>1, <2>2 DEF Stretch
    <2>4. m \in MsgType /\ m.kind = "replay" /\ m.from = want[c] /\ m.seq = produced
      BY <1>t, <2>1, <2>3, MsgTyped DEF MsgKinds, Msg
    <2>5. Write(c, <<m>>) /\ attached' = [attached EXCEPT ![c] = m.seq]
      BY <1>1 DEF CaptureReplay, Reply
    <2> HIDE DEF m
    <2> QED
      BY <1>t, <2>4, <2>5
  <1>2. CASE CaptureSnapshot(c)
    <2> DEFINE m == Msg("snapshot", 0, term.upto, ring.next, term.clean)
    <2>1. m \in MsgType /\ m.kind = "snapshot" /\ m.seq = produced
      BY <1>t, <1>b, MsgTyped DEF MsgKinds, Msg
    <2>2. Write(c, <<m>>) /\ attached' = [attached EXCEPT ![c] = m.seq]
      BY <1>2 DEF CaptureSnapshot, Reply
    <2> HIDE DEF m
    <2> QED
      BY <1>t, <2>1, <2>2
  <1>3. CASE CaptureRaw(c)
    <2> DEFINE m == Msg("scrollback", ring.start, ScrollEnd(Scrollback(ring)),
                        ring.next, TRUE)
    <2>1. m \in MsgType /\ m.kind = "scrollback" /\ m.seq = produced
      BY <1>t, MsgTyped DEF MsgKinds, Msg
    <2>2. Write(c, <<m>>) /\ attached' = [attached EXCEPT ![c] = m.seq]
      BY <1>3 DEF CaptureRaw, Reply
    <2> HIDE DEF m
    <2> QED
      BY <1>t, <2>1, <2>2
  <1> QED
    BY <1>1, <1>2, <1>3

\* The answer after a rebuild of the projection carries the captured offset.
LEMMA RebuiltAnswer ==
  ASSUME TypeOK, NEW c \in Clients, Resnap(c)
  PROVE  \E m \in MsgType :
           /\ Write(c, <<m>>) /\ m.seq = attached[c]
           /\ m.kind \in {"snapshot", "scrollback"}
  <1>1. term.upto \in Nat /\ term.clean \in BOOLEAN
    BY DEF TypeOK, TermType
  <1>2. attached[c] \in Nat /\ held[c] \in [start : Nat, data : Seq(Nat)]
    BY DEF TypeOK, Rebuilders
  <1>3. held[c].start \in Nat /\ ScrollEnd(held[c]) \in Nat
    BY <1>2, ScrollEndTyped
  <1> DEFINE m1 == Msg("snapshot", 0, term.upto, attached[c], term.clean)
             m2 == Msg("scrollback", held[c].start, ScrollEnd(held[c]),
                       attached[c], TRUE)
  <1>4. m1 \in MsgType /\ m1.kind = "snapshot" /\ m1.seq = attached[c]
    BY <1>1, <1>2, MsgTyped DEF MsgKinds, Msg
  <1>5. m2 \in MsgType /\ m2.kind = "scrollback" /\ m2.seq = attached[c]
    BY <1>2, <1>3, MsgTyped DEF MsgKinds, Msg
  <1>6. Write(c, <<m1>>) \/ Write(c, <<m2>>)
    BY DEF Resnap
  <1> HIDE DEF m1, m2
  <1> QED
    BY <1>4, <1>5, <1>6

LEMMA HandlerDelivery ==
  ASSUME RingInv, TypeOK, Control, ~Exhausted, BroadcastInv,
         NEW c \in Clients, DeliveryInv(c), Handler(c)
  PROVE  DeliveryInv(c)'
  <1> USE DEF clientVars
  <1>t. /\ hPc \in [Clients -> HPcs] /\ fwd \in [Clients -> BOOLEAN]
        /\ rx \in [Clients -> Nat] /\ attached \in [Clients -> Nat]
        /\ wire \in [Clients -> Seq(MsgType)]
        /\ rx[c] \in Nat /\ attached[c] \in Nat
    BY DEF TypeOK
  <1>p. produced \in Nat /\ Len(bcast) \in Nat /\ bcast \in Seq(MsgType)
    BY RingAssumption DEF TypeOK, RingTypeOK
  <1>u. /\ UNCHANGED <<ring, produced, ioPc, chunk, bcast>>
        /\ \A a \in Nat : OnBoundary(a) => OnBoundary(a)'
    <2>1. UNCHANGED <<ring, produced, ioPc, chunk, bcast>>
      BY ConnectionLeavesStream
    <2> QED
      BY <2>1 DEF OnBoundary, ChunkPending
  <1>c. WireChained(c)
    BY DEF DeliveryInv
  <1>w. /\ wire[c] = << >> => Len(wire[c]) = 0 /\ Reaches(c, seen[c])
        /\ ControlInv(c)
    BY DEF Reaches, Control
  <1>1. CASE LookupLive(c) \/ StopForwarder(c) \/ AttachClient(c)
             \/ ClientGrab(c) \/ ClientRebuild(c)
    <2>1. /\ hPc[c] \in Preparing /\ hPc'[c] \in Preparing \ {"capture"}
          /\ want' = want /\ seen' = seen /\ wire' = wire
          /\ fwd'[c] = fwd[c] \/ fwd'[c] = FALSE
      BY <1>t, <1>1 DEF LookupLive, StopForwarder, AttachClient, ClientGrab,
         ClientRebuild, Step, Preparing
    <2>2. ~fwd[c]
      BY <1>w, <2>1 DEF ControlInv, Preparing
    <2>3. WireChained(c)'
      BY <1>c, <2>1 DEF WireChained, Before
    <2> QED
      BY <2>1, <2>2, <2>3 DEF DeliveryInv, Preparing
  <1>2. CASE Subscribe(c)
    <2>1. /\ hPc[c] = "subscribe" /\ hPc'[c] = "capture" /\ rx'[c] = Len(bcast)
          /\ want' = want /\ seen' = seen /\ wire' = wire /\ fwd' = fwd
          /\ bcast' = bcast
      BY <1>t, <1>u, <1>2 DEF Subscribe, Step
    <2>2. ~fwd[c]
      BY <1>w, <2>1 DEF ControlInv
    <2>3. WireChained(c)'
      BY <1>c, <2>1 DEF WireChained, Before
    <2> QED
      BY <1>p, <2>1, <2>2, <2>3 DEF DeliveryInv
  <1>3. CASE LookupRestored(c)
    <2> DEFINE end == ScrollEnd(Scrollback(ring))
               a == Msg("history", ring.start, end, end, TRUE)
               b == Marker("exited", end)
    <2>1. /\ hPc[c] = "lookup" /\ hPc'[c] = "idle" /\ fwd' = fwd
          /\ wire'[c] = wire[c] \o <<a, b>>
      BY <1>t, <1>3 DEF LookupRestored, Step, Write
    <2>2. wire[c] = << >> /\ ~fwd[c]
      BY <1>w, <2>1 DEF ControlInv
    <2>3. wire'[c] = <<a, b>>
      BY <2>1, <2>2
    <2>4. a.kind = "history" /\ b.kind = "exited" /\ a.seq = b.seq
      BY DEF Msg, Marker
    <2> HIDE DEF a, b
    <2>5. Len(wire'[c]) = 2 /\ wire'[c][1] = a /\ wire'[c][2] = b
      BY <2>3
    <2>6. WireChained(c)'
      BY <2>4, <2>5 DEF WireChained, Before
    <2> QED
      BY <2>1, <2>2, <2>6 DEF DeliveryInv
  <1>4. CASE LookupGone(c) \/ AttachClientFails(c)
    <2>1. /\ hPc[c] \notin {"idle", "check"} /\ hPc'[c] = "idle" /\ fwd' = fwd
          /\ Write(c, <<Marker("error", 0)>>)
      BY <1>t, <1>4 DEF LookupGone, AttachClientFails, Step
    <2>2. wire[c] = << >> /\ ~fwd[c]
      BY <1>w, <2>1 DEF ControlInv
    <2>3. Marker("error", 0) \in MsgType /\ Marker("error", 0).kind = "error"
      BY MarkerTyped DEF MsgKinds, Marker, Msg
    <2>4. Len(wire'[c]) = 1 /\ wire'[c][1] = Marker("error", 0)
      BY <2>1, <2>2, <2>3, FirstFrame
    <2>5. WireChained(c)'
      BY <2>3, <2>4 DEF WireChained
    <2> QED
      BY <2>1, <2>2, <2>5 DEF DeliveryInv
  <1>5. CASE CaptureReplay(c) \/ CaptureSnapshot(c) \/ CaptureRaw(c)
    <2>1. PICK m \in MsgType :
            /\ Write(c, <<m>>) /\ attached'[c] = produced /\ m.seq = produced
            /\ m.kind \in {"replay", "snapshot", "scrollback"}
            /\ m.kind = "replay" => m.from = want[c]
      BY <1>5, CapturedAnswer
    <2>2. /\ hPc[c] = "capture" /\ hPc'[c] = "check" /\ fwd' = fwd /\ rx' = rx
          /\ seen' = seen
      BY <1>t, <1>5 DEF CaptureReplay, CaptureSnapshot, CaptureRaw, Step
    <2>3. wire[c] = << >> /\ ~fwd[c] /\ want[c] = seen[c] /\ rx[c] <= Len(bcast)
      BY <1>w, <2>2 DEF ControlInv, DeliveryInv
    <2>4. WireChained(c)' /\ Reaches(c, m.seq)'
      BY <1>c, <1>w, <2>1, <2>2, <2>3, ExtendWire
    <2>5. OnBoundary(produced)' /\ Upto(bcast', rx'[c]) <= produced'
      BY <1>t, <1>p, <1>u, <2>2, <2>3, CaptureOnBoundary
    <2>6. Reaches(c, attached[c])' /\ OnBoundary(attached[c])'
      BY <1>u, <2>1, <2>4, <2>5 DEF Reaches, OnBoundary
    <2> QED
      BY <1>p, <1>u, <2>1, <2>2, <2>3, <2>4, <2>5, <2>6 DEF DeliveryInv
  <1>6. CASE CaptureDead(c)
    <2>1. /\ hPc[c] = "capture" /\ hPc'[c] = "revive" /\ fwd' = fwd /\ rx' = rx
          /\ seen' = seen /\ wire' = wire /\ attached'[c] = ring.next
      BY <1>t, <1>6 DEF CaptureDead, Step
    <2>2. ring.next = produced
      BY DEF RingInv, IsWindow
    <2>3. ~fwd[c] /\ rx[c] <= Len(bcast)
      BY <1>w, <2>1 DEF ControlInv, DeliveryInv
    <2>a. OnBoundary(produced) /\ Upto(bcast, rx[c]) <= produced
      BY <1>t, <1>p, <2>3, CaptureOnBoundary
    <2>4. OnBoundary(produced)' /\ Upto(bcast', rx'[c]) <= produced'
      BY <1>p, <1>u, <2>1, <2>a
    <2>5. OnBoundary(attached[c])' /\ WireChained(c)'
      BY <1>c, <1>u, <2>1, <2>2, <2>4 DEF OnBoundary, WireChained, Before
    <2> QED
      BY <1>p, <1>u, <2>1, <2>2, <2>3, <2>4, <2>5 DEF DeliveryInv
  <1>7. CASE Revive(c)
    <2>1. /\ hPc[c] = "revive" /\ hPc'[c] = "resnap" /\ fwd' = fwd /\ rx' = rx
          /\ seen' = seen /\ wire' = wire /\ attached' = attached
      BY <1>t, <1>7 DEF Revive, Step
    <2>2. ~fwd[c]
      BY <1>w, <2>1 DEF ControlInv
    <2>3. OnBoundary(attached[c])' /\ WireChained(c)'
      BY <1>c, <1>u, <2>1 DEF OnBoundary, ChunkPending, WireChained, Before, DeliveryInv
    <2> QED
      BY <1>u, <2>1, <2>2, <2>3 DEF DeliveryInv
  <1>8. CASE Resnap(c)
    <2>1. PICK m \in MsgType :
            /\ Write(c, <<m>>) /\ m.seq = attached[c]
            /\ m.kind \in {"snapshot", "scrollback"}
      BY <1>8, RebuiltAnswer
    <2>2. /\ hPc[c] = "resnap" /\ hPc'[c] = "check" /\ fwd' = fwd /\ rx' = rx
          /\ seen' = seen /\ attached' = attached
      BY <1>t, <1>8 DEF Resnap, Step
    <2>3. wire[c] = << >> /\ ~fwd[c]
      BY <1>w, <2>2 DEF ControlInv
    <2>4. WireChained(c)' /\ Reaches(c, m.seq)'
      BY <1>c, <1>w, <2>1, <2>2, <2>3, ExtendWire
    <2>5. OnBoundary(attached[c])' /\ Reaches(c, attached[c])'
      BY <1>u, <2>1, <2>2, <2>4 DEF OnBoundary, ChunkPending, DeliveryInv, Reaches
    <2> QED
      BY <1>u, <2>2, <2>3, <2>4, <2>5 DEF DeliveryInv
  <1>9. CASE CheckExited(c)
    <2> DEFINE m == Marker("exited", Sent(c))
    <2>1. /\ hPc[c] = "check" /\ hPc'[c] = "idle" /\ fwd' = fwd /\ seen' = seen
          /\ Write(c, <<m>>)
      BY <1>t, <1>9 DEF CheckExited, Step
    <2>2. m \in MsgType /\ m.kind = "exited" /\ m.seq = Sent(c)
      BY SentTyped, MarkerTyped DEF MsgKinds, Marker, Msg
    <2> HIDE DEF m
    <2>3. Reaches(c, attached[c]) /\ ~fwd[c]
      BY <1>w, <2>1 DEF DeliveryInv, ControlInv
    <2>4. Sent(c) = attached[c]
      BY <1>t, <2>3, SentReaches
    <2>5. WireChained(c)'
      BY <1>c, <2>1, <2>2, <2>3, <2>4, ExtendWire
    <2> QED
      BY <2>1, <2>3, <2>5 DEF DeliveryInv
  <1>10. CASE CheckRunning(c)
    <2>1. /\ hPc[c] = "check" /\ hPc'[c] = "idle" /\ seen' = seen
          /\ wire' = wire /\ rx' = rx /\ attached' = attached
      BY <1>t, <1>10 DEF CheckRunning, Step
    <2>2. /\ Reaches(c, attached[c]) /\ OnBoundary(attached[c])
          /\ rx[c] <= Len(bcast) /\ attached[c] <= produced
          /\ Upto(bcast, rx[c]) <= attached[c]
      BY <2>1 DEF DeliveryInv
    <2>3. Upto(bcast, rx[c]) \in Nat
      BY <1>t, <1>p, <2>2, UptoTyped
    <2>4. Later(attached[c], Upto(bcast, rx[c])) = attached[c]
      BY <1>t, <2>2, <2>3 DEF Later
    <2>5. Reaches(c, Later(attached[c], Upto(bcast, rx[c])))'
      BY <1>u, <2>1, <2>2, <2>4 DEF Reaches
    <2>6. OnBoundary(attached[c])' /\ WireChained(c)'
      BY <1>c, <1>u, <2>1, <2>2 DEF OnBoundary, ChunkPending, WireChained, Before
    <2> QED
      BY <1>u, <2>1, <2>2, <2>5, <2>6 DEF DeliveryInv
  <1>f. ASSUME fwd[c]
        PROVE  /\ hPc[c] = "idle" /\ rx[c] <= Len(bcast) /\ attached[c] <= produced
               /\ OnBoundary(attached[c])
               /\ Upto(bcast, rx[c]) \in Nat
               /\ Later(attached[c], Upto(bcast, rx[c])) \in Nat
               /\ Reaches(c, Later(attached[c], Upto(bcast, rx[c])))
               /\ Sent(c) = Later(attached[c], Upto(bcast, rx[c]))
    <2>1. /\ hPc[c] = "idle" /\ rx[c] <= Len(bcast) /\ attached[c] <= produced
          /\ OnBoundary(attached[c])
          /\ Reaches(c, Later(attached[c], Upto(bcast, rx[c])))
      BY <1>f, <1>w DEF ControlInv, DeliveryInv
    <2>2. Upto(bcast, rx[c]) \in Nat
      BY <1>t, <1>p, <2>1, UptoTyped
    <2>3. Later(attached[c], Upto(bcast, rx[c])) \in Nat
      BY <1>t, <2>2 DEF Later
    <2> QED
      BY <2>1, <2>2, <2>3, SentReaches
  <1>11. CASE ForwardLag(c)
    <2> DEFINE m == Marker("lag", Sent(c))
    <2>1. /\ fwd[c] /\ fwd'[c] = FALSE /\ hPc' = hPc /\ seen' = seen
          /\ Write(c, <<m>>)
      BY <1>t, <1>11 DEF ForwardLag
    <2>2. m \in MsgType /\ m.kind = "lag" /\ m.seq = Sent(c)
      BY SentTyped, MarkerTyped DEF MsgKinds, Marker, Msg
    <2> HIDE DEF m
    <2>3. WireChained(c)'
      BY <1>c, <1>f, <2>1, <2>2, ExtendWire
    <2> QED
      BY <1>f, <2>1, <2>3 DEF DeliveryInv
  <1>e. ASSUME fwd[c], rx[c] < Len(bcast)
        PROVE  LET e == bcast[rx[c] + 1]
               IN  /\ e \in MsgType
                   /\ Upto(bcast, rx[c] + 1) = e.upto
                   /\ e.from = Upto(bcast, rx[c]) /\ e.seq = e.upto
                   /\ e.kind # "output" => e.from = e.upto
                   /\ e.kind \in {"output", "note", "exited"}
                   /\ e.from <= e.upto
                   /\ e.kind = "output" =>
                        e.seq <= attached[c] \/ attached[c] <= e.from
    <2> DEFINE e == bcast[rx[c] + 1]
    <2>1. rx[c] + 1 \in 1..Len(bcast) /\ (rx[c] + 1) - 1 = rx[c]
          /\ rx[c] \in 0..Len(bcast) /\ rx[c] + 1 \in 0..Len(bcast)
          /\ rx[c] <= rx[c] + 1 /\ rx[c] + 1 # 0
      BY <1>t, <1>p, <1>e
    <2>2. e \in MsgType
      BY <1>p, <2>1
    <2>3. Upto(bcast, rx[c] + 1) = e.upto
      BY <2>1 DEF Upto
    <2>4. /\ e.from = Upto(bcast, rx[c]) /\ e.seq = e.upto
          /\ e.kind # "output" => e.from = e.upto
          /\ e.kind \in {"output", "note", "exited"}
      BY <2>1 DEF BroadcastInv
    <2>5. e.from <= e.upto
      BY <2>1, <2>3, <2>4 DEF BroadcastInv
    <2>6. e.kind = "output" => e.seq <= attached[c] \/ attached[c] <= e.from
      BY <1>e, <1>f, <2>1 DEF OnBoundary
    <2> QED
      BY <2>2, <2>3, <2>4, <2>5, <2>6
  <1>12. CASE ForwardSkip(c)
    <2> DEFINE e == bcast[rx[c] + 1]
    <2>1. /\ fwd[c] /\ rx[c] < Len(bcast) /\ fwd' = fwd /\ hPc' = hPc
          /\ seen' = seen /\ wire' = wire /\ attached' = attached
          /\ rx'[c] = rx[c] + 1
          /\ e.kind = "output" /\ e.seq <= attached[c]
      BY <1>t, <1>12 DEF ForwardSkip, OutputWasReplayed
    <2>2. /\ e \in MsgType /\ Upto(bcast, rx[c] + 1) = e.upto
          /\ e.from = Upto(bcast, rx[c]) /\ e.seq = e.upto /\ e.from <= e.upto
      BY <1>e, <2>1
    <2>3. e.upto \in Nat /\ e.from \in Nat
      BY <2>2 DEF MsgType
    <2> HIDE DEF e
    <2>4. Later(attached[c], Upto(bcast, rx[c] + 1))
            = Later(attached[c], Upto(bcast, rx[c]))
      BY <1>t, <2>1, <2>2, <2>3 DEF Later
    <2>5. Reaches(c, Later(attached[c], Upto(bcast, rx[c])))'
      BY <1>f, <1>u, <2>1, <2>4 DEF Reaches
    <2>6. OnBoundary(attached[c])' /\ WireChained(c)'
      BY <1>c, <1>f, <1>u, <2>1 DEF OnBoundary, ChunkPending, WireChained, Before
    <2>7. rx'[c] <= Len(bcast')
      BY <1>t, <1>p, <1>u, <2>1
    <2> QED
      BY <1>f, <1>u, <2>1, <2>5, <2>6, <2>7 DEF DeliveryInv
  <1>13. CASE ForwardEvent(c)
    <2> DEFINE e == bcast[rx[c] + 1]
    <2>1. /\ fwd[c] /\ rx[c] < Len(bcast) /\ fwd' = fwd /\ hPc' = hPc
          /\ seen' = seen /\ attached' = attached
          /\ rx'[c] = rx[c] + 1
          /\ ~(e.kind = "output" /\ e.seq <= attached[c])
      BY <1>t, <1>13 DEF ForwardEvent, OutputWasReplayed
    <2>a. PICK m \in MsgType :
            /\ Write(c, <<m>>) /\ m.kind = e.kind
            /\ e.kind = "output" => m = e
            /\ e.kind # "output" => m.seq = Sent(c)
      BY <1>13, ForwardedFrame
    <2>2. /\ e \in MsgType
          /\ Write(c, <<m>>) /\ m.kind = e.kind
          /\ e.kind = "output" => m = e
          /\ e.kind # "output" => m.seq = Sent(c)
      BY <1>13, <2>a, ForwardedFrame
    <2>3. /\ Upto(bcast, rx[c] + 1) = e.upto
          /\ e.from = Upto(bcast, rx[c]) /\ e.seq = e.upto /\ e.from <= e.upto
          /\ e.kind # "output" => e.from = e.upto
          /\ e.kind \in {"output", "note", "exited"}
          /\ e.kind = "output" => e.seq <= attached[c] \/ attached[c] <= e.from
      BY <1>e, <2>1
    <2>4. e.upto \in Nat /\ e.from \in Nat /\ e.seq \in Nat
      BY <2>2 DEF MsgType
    <2> HIDE DEF e
    <2>5. /\ Reaches(c, Later(attached[c], Upto(bcast, rx[c])))
          /\ Sent(c) = Later(attached[c], Upto(bcast, rx[c]))
          /\ Upto(bcast, rx[c]) \in Nat
      BY <1>f, <2>1
    <2>6. e.kind = "output" =>
            /\ Later(attached[c], Upto(bcast, rx[c])) = e.from
            /\ Later(attached[c], Upto(bcast, rx[c] + 1)) = m.seq
      BY <1>t, <2>1, <2>2, <2>3, <2>4 DEF Later
    <2>7. e.kind # "output" =>
            Later(attached[c], Upto(bcast, rx[c] + 1)) = m.seq
      BY <2>2, <2>3, <2>5
    <2>8. WireChained(c)' /\ Reaches(c, m.seq)'
      <3>1. /\ m.kind \in {"output", "replay"} =>
                 m.from = Later(attached[c], Upto(bcast, rx[c]))
            /\ m.kind \in {"note", "lag", "exited"} =>
                 m.seq = Later(attached[c], Upto(bcast, rx[c]))
        BY <2>2, <2>3, <2>5, <2>6
      <3>a. PICK a : a = Later(attached[c], Upto(bcast, rx[c]))
        OBVIOUS
      <3>2. /\ Reaches(c, a)
            /\ m.kind \in {"output", "replay"} => m.from = a
            /\ m.kind \in {"note", "lag", "exited"} => m.seq = a
        BY <2>5, <3>1, <3>a
      <3>3. m \in MsgType /\ Write(c, <<m>>) /\ seen'[c] = seen[c]
        BY <2>1, <2>2
      <3> QED
        BY <1>c, <3>2, <3>3, ExtendWire
    <2>9. Reaches(c, Later(attached[c], Upto(bcast, rx[c])))'
      <3>1. Later(attached'[c], Upto(bcast', rx'[c])) = m.seq
        BY <1>u, <2>1, <2>6, <2>7
      <3> QED
        BY <2>8, <3>1 DEF Reaches
    <2>10. OnBoundary(attached[c])'
      BY <1>f, <1>u, <2>1 DEF OnBoundary, ChunkPending
    <2>11. rx'[c] <= Len(bcast')
      BY <1>t, <1>p, <1>u, <2>1
    <2> QED
      BY <1>f, <1>u, <2>1, <2>8, <2>9, <2>10, <2>11 DEF DeliveryInv
  <1> QED
    BY <1>1, <1>2, <1>3, <1>4, <1>5, <1>6, <1>7, <1>8, <1>9, <1>10, <1>11,
       <1>12, <1>13, Handler(c) DEF Handler

LEMMA ClientDelivery ==
  ASSUME TypeOK, Control, NEW c \in Clients, DeliveryInv(c),
         Reader(c) \/ User(c)
  PROVE  DeliveryInv(c)'
  <1>t. /\ hPc \in [Clients -> HPcs] /\ fwd \in [Clients -> BOOLEAN]
        /\ want \in [Clients -> Nat \cup {NoSeq}]
        /\ seen \in [Clients -> Nat \cup {NoSeq}]
        /\ wire \in [Clients -> Seq(MsgType)]
    BY DEF TypeOK
  <1>u. UNCHANGED <<ring, produced, ioPc, chunk, bcast>>
    BY ConnectionLeavesStream
  <1>c. WireChained(c) /\ ControlInv(c)
    BY DEF DeliveryInv, Control
  <1>1. CASE ReceiveAttached(c) \/ ReceiveOutput(c) \/ ReceiveNote(c)
             \/ ReceiveLag(c) \/ ReceiveEnd(c)
    <2>1. Receive(c)
      BY <1>1 DEF ReceiveAttached, ReceiveOutput, ReceiveNote, ReceiveLag, ReceiveEnd
    <2>2. /\ Len(wire[c]) \in Nat /\ Len(wire[c]) > 0
          /\ Head(wire[c]) = wire[c][1] /\ Len(wire'[c]) = Len(wire[c]) - 1
          /\ hPc'[c] = hPc[c] /\ fwd'[c] = fwd[c] /\ rx'[c] = rx[c]
          /\ want'[c] = want[c] /\ attached'[c] = attached[c]
      BY <2>1, Received
    <2>3. hPc[c] \in {"idle", "check"}
      <3>1. wire[c] # << >>
        BY <2>2
      <3> QED
        BY <1>c, <3>1 DEF ControlInv
    <2>4. CASE wire[c][1].kind = "error"
      \* Nothing follows an Error.
      <3>1. Len(wire'[c]) = 0 /\ ~fwd'[c] /\ hPc'[c] = "idle"
        <4>1. 1 \in 1..Len(wire[c]) /\ wire[c][1].kind \in {"lag", "error"}
          BY <2>2, <2>4
        <4>2. 1 = Len(wire[c]) /\ ~fwd[c] /\ hPc[c] = "idle"
          BY <1>c, <4>1 DEF ControlInv
        <4> QED
          BY <2>2, <4>2
      <3>2. WireChained(c)'
        BY <3>1 DEF WireChained
      <3> QED
        BY <3>1, <3>2 DEF DeliveryInv
    <2>5. CASE wire[c][1].kind # "error"
      <3>1. seen'[c] = wire[c][1].seq
        <4>1. CASE ReceiveAttached(c) \/ ReceiveOutput(c)
          BY <1>t, <2>2, <4>1 DEF ReceiveAttached, ReceiveOutput
        <4>2. CASE ReceiveNote(c) \/ ReceiveLag(c) \/ ReceiveEnd(c)
          <5>1. wire[c][1].kind \in {"note", "lag", "exited"} /\ seen' = seen
            BY <2>2, <2>5, <4>2 DEF ReceiveNote, ReceiveLag, ReceiveEnd
          <5> QED
            BY <1>c, <2>2, <5>1 DEF WireChained, Before
        <4> QED
          BY <1>1, <4>1, <4>2
      <3>2. WireChained(c)' /\ \A a : Reaches(c, a) => Reaches(c, a)'
        BY <1>c, <2>1, <3>1, ConsumeWire
      <3>3. fwd[c] \/ hPc[c] = "check" =>
              /\ OnBoundary(attached[c])'
              /\ Upto(bcast', rx'[c]) = Upto(bcast, rx[c])
        BY <1>u, <2>2 DEF DeliveryInv, OnBoundary, ChunkPending
      <3>4. hPc[c] = "check" => Reaches(c, attached[c])'
        <4> SUFFICES ASSUME hPc[c] = "check" PROVE Reaches(c, attached[c])'
          OBVIOUS
        <4>1. PICK a : a = attached[c]
          OBVIOUS
        <4>2. Reaches(c, a)'
          BY <3>2, <4>1 DEF DeliveryInv
        <4> QED
          BY <2>2, <4>1, <4>2 DEF Reaches
      <3>5. fwd[c] => Reaches(c, Later(attached[c], Upto(bcast, rx[c])))'
        <4> SUFFICES ASSUME fwd[c]
                     PROVE  Reaches(c, Later(attached[c], Upto(bcast, rx[c])))'
          OBVIOUS
        <4>1. PICK a : a = Later(attached[c], Upto(bcast, rx[c]))
          OBVIOUS
        <4>2. Reaches(c, a)'
          BY <3>2, <4>1 DEF DeliveryInv
        <4>3. Later(attached'[c], Upto(bcast', rx'[c])) = a
          BY <2>2, <3>3, <4>1
        <4> QED
          BY <4>2, <4>3 DEF Reaches
      <3> QED
        BY <1>u, <2>2, <2>3, <3>2, <3>3, <3>4, <3>5 DEF DeliveryInv
    <2> QED
      BY <2>4, <2>5
  <1>2. CASE AttachCold(c) \/ AttachWarm(c) \/ AttachAfterLag(c)
    <2>1. /\ phase[c] \in {"idle", "lagged"} /\ hPc'[c] = "lookup"
          /\ wire' = wire /\ fwd' = fwd /\ want'[c] = seen'[c]
      BY <1>t, <1>2 DEF AttachCold, AttachWarm, AttachAfterLag, SendAttach, Step
    <2>2. wire[c] = << >> /\ ~fwd[c]
      BY <1>c, <2>1 DEF ControlInv
    <2>3. WireChained(c)'
      <3>1. Len(wire'[c]) = 0
        BY <2>1, <2>2
      <3> QED
        BY <3>1 DEF WireChained
    <2> QED
      BY <2>1, <2>2, <2>3 DEF DeliveryInv
  <1>3. CASE Disconnect(c)
    <2>1. hPc'[c] = "idle" /\ fwd'[c] = FALSE /\ wire'[c] = << >>
      BY <1>t, <1>3 DEF Disconnect
    <2>2. WireChained(c)'
      <3>1. Len(wire'[c]) = 0
        BY <2>1
      <3> QED
        BY <3>1 DEF WireChained
    <2> QED
      BY <2>1, <2>2 DEF DeliveryInv
  <1> QED
    BY <1>1, <1>2, <1>3 DEF Reader, User

LEMMA DeliveryFrame ==
  ASSUME NEW d \in Clients, DeliveryInv(d),
         UNCHANGED <<ring, produced, ioPc, chunk, bcast>>,
         hPc'[d] = hPc[d], fwd'[d] = fwd[d], want'[d] = want[d],
         rx'[d] = rx[d], attached'[d] = attached[d],
         wire'[d] = wire[d], seen'[d] = seen[d]
  PROVE  DeliveryInv(d)'
  BY DEF DeliveryInv, WireChained, Before, Reaches, OnBoundary, ChunkPending

LEMMA StreamStep ==
  ASSUME RingInv, RingInv', TypeOK, TypeOK', Control, StreamInv, [Next]_vars
  PROVE  StreamInv'
  <1> SUFFICES ASSUME ~Exhausted'
               PROVE  BroadcastInv' /\ \A c \in Clients : DeliveryInv(c)'
    BY DEF StreamInv
  <1>t. /\ produced \in Nat /\ produced' \in Nat
        /\ Len(bcast) \in Nat /\ Len(bcast') \in Nat
    BY RingAssumption DEF TypeOK, RingTypeOK
  <1>1. CASE Session
    <2>1. ~Exhausted
      <3>1. produced <= produced'
        <4>1. ASSUME NEW n \in 1..MaxChunk, ReadChunk(n) PROVE produced <= produced'
          BY <1>t, <4>1, RingAssumption DEF ReadChunk, Push
        <4>2. produced' = produced \/ \E n \in 1..MaxChunk : ReadChunk(n)
          BY <1>1 DEF Session, IoGrab, IoRebuild, Publish, MarkExited,
             AnnounceExit, StateChange, Evict, KillSession, DebouncedResize,
             ResizerGrab, ResizerRebuild, ringVars
        <4> QED
          BY <1>t, <4>1, <4>2
      <3> QED
        BY <1>t, <3>1, RingAssumption DEF Exhausted
    <2>2. BroadcastInv /\ \A c \in Clients : DeliveryInv(c)
      BY <2>1 DEF StreamInv
    <2>3. /\ BroadcastInv'
          /\ produced <= produced'
          /\ Len(bcast) <= Len(bcast')
          /\ \A i \in 0..Len(bcast) : Upto(bcast', i) = Upto(bcast, i)
          /\ \A a \in Nat : a <= produced /\ OnBoundary(a) => OnBoundary(a)'
      BY <1>1, <2>2, BroadcastStep
    <2>4. UNCHANGED <<hPc, fwd, want, rx, attached, wire, phase, seen>>
      BY <1>1, SessionLeavesConnections
    <2>5. \A c \in Clients : DeliveryInv(c)'
      BY <1>t, <2>2, <2>3, <2>4, SessionDelivery
    <2> QED
      BY <2>3, <2>5
  <1>2. ASSUME NEW c \in Clients, Handler(c) \/ Reader(c) \/ User(c)
        PROVE  BroadcastInv' /\ \A d \in Clients : DeliveryInv(d)'
    <2>1. UNCHANGED <<ring, produced, ioPc, chunk, bcast>>
      BY <1>2, ConnectionLeavesStream
    <2>2. ~Exhausted
      BY <2>1 DEF Exhausted
    <2>3. BroadcastInv /\ \A d \in Clients : DeliveryInv(d)
      BY <2>2 DEF StreamInv
    <2>4. BroadcastInv'
      BY <2>1, <2>3 DEF BroadcastInv, ChunkPending, Upto
    <2>5. DeliveryInv(c)'
      BY <1>2, <2>2, <2>3, HandlerDelivery, ClientDelivery
    <2>6. ASSUME NEW d \in Clients, d # c PROVE DeliveryInv(d)'
      BY <1>2, <2>1, <2>3, <2>6, ConnectionLeavesOthers, DeliveryFrame
    <2> QED
      BY <2>4, <2>5, <2>6
  <1>3. CASE UNCHANGED vars
    <2>1. /\ UNCHANGED <<ring, produced, ioPc, chunk, bcast>>
          /\ UNCHANGED <<hPc, fwd, want, rx, attached, wire, phase, seen>>
      BY <1>3 DEF vars, ringVars, sessionVars, handlerVars, clientVars
    <2>2. BroadcastInv /\ \A d \in Clients : DeliveryInv(d)
      BY <2>1 DEF StreamInv, Exhausted
    <2>3. BroadcastInv'
      BY <2>1, <2>2 DEF BroadcastInv, ChunkPending, Upto
    <2> QED
      BY <2>1, <2>2, <2>3, DeliveryFrame
  <1> QED
    BY <1>1, <1>2, <1>3 DEF Next

LEMMA InitStream == Init => StreamInv
  <1> SUFFICES ASSUME Init PROVE BroadcastInv /\ \A c \in Clients : DeliveryInv(c)
    BY DEF StreamInv
  <1>1. Len(bcast) = 0 /\ produced = 0 /\ ~ChunkPending
    BY DEF Init, RingInit, ChunkPending
  <1>2. BroadcastInv
    BY <1>1 DEF BroadcastInv, Upto
  <1>3. ASSUME NEW c \in Clients PROVE DeliveryInv(c)
    <2>1. hPc[c] = "idle" /\ fwd[c] = FALSE /\ wire[c] = << >>
      BY DEF Init
    <2>2. Len(wire[c]) = 0
      BY <2>1
    <2> QED
      BY <2>1, <2>2 DEF DeliveryInv, WireChained
  <1> QED
    BY <1>2, <1>3

LEMMA StreamAlways == Spec => []StreamInv
  BY InitStream, StreamStep, StreamTypeCorrect, RingAlways, ControlAlways, PTL
  DEF Spec

(***************************************************************************)
(* OffsetsContiguous in general: for any number of clients, any ring,      *)
(* queue and chunk sizes, and whether or not the terminal emulator panics, *)
(* the replay of an attach and the live output after it neither skip nor   *)
(* repeat a byte (ipc.rs:773-823, forward.rs:27-29, session.rs:240-276).   *)
(***************************************************************************)
THEOREM ReplayJoinsLiveOutput == Spec => []OffsetsContiguous
  <1>1. StreamInv => OffsetsContiguous
    BY DEF StreamInv, OffsetsContiguous, DeliveryInv, WireChained, Before
  <1> QED
    BY <1>1, StreamAlways, PTL

-----------------------------------------------------------------------------
(***************************************************************************)
(* The exit of the session.                                                *)
(***************************************************************************)

\* The exit is the last event of the I/O thread.
LastEventInv ==
  \A i \in 1..Len(bcast) : bcast[i].kind = "exited" =>
    /\ ioPc = "done"
    /\ \A j \in (i + 1)..Len(bcast) : bcast[j].kind = "note"

\* Once the exit is on the wire only AgentStateChanged is left to forward.
ExitInv(c) ==
  \A i \in 1..Len(wire[c]) : wire[c][i].kind = "exited" =>
    /\ \A j \in (i + 1)..Len(wire[c]) : wire[c][j].kind \in {"note", "lag"}
    /\ hPc[c] = "idle"
    /\ fwd[c] => /\ ioPc = "done"
                 /\ \A j \in (rx[c] + 1)..Len(bcast) : bcast[j].kind = "note"

\* The exit stands at the end of the stream.
ExitSeqInv ==
  ~Exhausted =>
    /\ \A i \in 1..Len(bcast) :
         bcast[i].kind = "exited" => bcast[i].upto = produced
    /\ \A c \in Clients : \A i \in 1..Len(wire[c]) :
         fwd[c] /\ wire[c][i].kind = "exited" => wire[c][i].seq = produced

Exits == LastEventInv /\ ExitSeqInv /\ \A c \in Clients : ExitInv(c)

\* One more event in the channel: which steps send which, and when.
LEMMA SessionSends ==
  ASSUME TypeOK, Control, Session
  PROVE  \/ /\ bcast' = bcast
            /\ ioPc = "done" => ioPc' = "done" /\ produced' = produced
         \/ \E e \in MsgType :
              /\ bcast' = Append(bcast, e) /\ produced' = produced
              /\ ioPc = "done" => ioPc' = "done"
              /\ \/ e.kind = "note"
                 \/ e.kind = "output" /\ ioPc # "done"
                 \/ /\ e.kind = "exited" /\ ioPc = "exiting" /\ ioPc' = "done"
                    /\ e.upto = BcastEnd
  <1> USE DEF ringVars
  <1>1. ASSUME NEW n \in 1..MaxChunk, ReadChunk(n)
        PROVE  bcast' = bcast /\ ioPc # "done"
    BY <1>1 DEF ReadChunk
  <1>2. CASE IoGrab \/ IoRebuild \/ MarkExited
    BY <1>2 DEF IoGrab, IoRebuild, MarkExited
  <1>3. CASE Publish
    BY <1>3 DEF Publish, Broadcast, TypeOK, Control, ChannelInv
  <1>4. CASE AnnounceExit
    <2>1. Marker("exited", BcastEnd) \in MsgType
      BY BcastEndTyped, MarkerTyped DEF TypeOK, MsgKinds
    <2>2. /\ Marker("exited", BcastEnd).kind = "exited"
          /\ Marker("exited", BcastEnd).upto = BcastEnd
      BY DEF Marker, Msg
    <2> QED
      BY <1>4, <2>1, <2>2 DEF AnnounceExit, Broadcast
  <1>5. CASE StateChange
    <2>1. Marker("note", BcastEnd) \in MsgType
      BY BcastEndTyped, MarkerTyped DEF TypeOK, MsgKinds
    <2>2. Marker("note", BcastEnd).kind = "note"
      BY DEF Marker, Msg
    <2> QED
      BY <1>5, <2>1, <2>2 DEF StateChange, Broadcast
  <1>6. CASE Evict \/ KillSession \/ DebouncedResize \/ ResizerGrab \/ ResizerRebuild
    BY <1>6 DEF Evict, KillSession, DebouncedResize, ResizerGrab, ResizerRebuild
  <1> QED
    BY <1>1, <1>2, <1>3, <1>4, <1>5, <1>6 DEF Session

LEMMA SessionExits ==
  ASSUME TypeOK, TypeOK', Control, StreamInv, Exits, Session
  PROVE  Exits'
  <1>u. UNCHANGED <<hPc, fwd, want, rx, attached, wire, phase, seen>>
    BY SessionLeavesConnections
  <1>t. /\ bcast \in Seq(MsgType) /\ Len(bcast) \in Nat /\ produced \in Nat
        /\ \A c \in Clients : rx[c] \in Nat
    BY RingAssumption DEF TypeOK, RingTypeOK
  <1>1. ASSUME bcast' = bcast,
               ioPc = "done" => ioPc' = "done" /\ produced' = produced
        PROVE  Exits'
    <2>1. LastEventInv' /\ \A c \in Clients : ExitInv(c)'
      BY <1>1, <1>u DEF Exits, LastEventInv, ExitInv
    <2>2. ASSUME ~Exhausted'
          PROVE  /\ \A i \in 1..Len(bcast) :
                      bcast[i].kind = "exited" => bcast[i].upto = produced'
                 /\ \A c \in Clients : \A i \in 1..Len(wire[c]) :
                      fwd[c] /\ wire[c][i].kind = "exited" => wire[c][i].seq = produced'
      <3>1. CASE ioPc = "done"
        BY <1>1, <2>2, <3>1 DEF Exits, ExitSeqInv, Exhausted
      <3>2. CASE ioPc # "done"
        BY <3>2 DEF Exits, LastEventInv, ExitInv
      <3> QED
        BY <3>1, <3>2
    <2> QED
      BY <1>1, <1>u, <2>1, <2>2 DEF Exits, ExitSeqInv
  <1>2. ASSUME NEW e \in MsgType, bcast' = Append(bcast, e), produced' = produced,
               ioPc = "done" => ioPc' = "done",
               \/ e.kind = "note"
               \/ e.kind = "output" /\ ioPc # "done"
               \/ /\ e.kind = "exited" /\ ioPc = "exiting" /\ ioPc' = "done"
                  /\ e.upto = BcastEnd
        PROVE  Exits'
    <2> DEFINE n == Len(bcast)
    <2>1. /\ Len(bcast') = n + 1 /\ bcast'[n + 1] = e
          /\ \A i \in 1..n : bcast'[i] = bcast[i]
      BY <1>2, <1>t, AppendProperties
    <2>2. ioPc # "done" => \A i \in 1..n : bcast[i].kind # "exited"
      BY DEF Exits, LastEventInv
    <2> HIDE DEF n
    <2>3. LastEventInv'
      <3> SUFFICES ASSUME NEW i \in 1..(n + 1), bcast'[i].kind = "exited"
                   PROVE  /\ ioPc' = "done"
                          /\ \A j \in (i + 1)..(n + 1) : bcast'[j].kind = "note"
        BY <2>1 DEF LastEventInv
      <3>1. CASE i = n + 1
        BY <1>2, <1>t, <2>1, <3>1 DEF n
      <3>2. CASE i \in 1..n
        <4>1. ioPc = "done" /\ \A j \in (i + 1)..n : bcast[j].kind = "note"
          BY <2>1, <3>2 DEF Exits, LastEventInv, n
        <4>2. e.kind = "note"
          BY <1>2, <4>1
        <4> QED
          BY <1>2, <1>t, <2>1, <4>1, <4>2 DEF n
      <3> QED
        BY <1>t, <3>1, <3>2 DEF n
    <2>4. ASSUME NEW c \in Clients PROVE ExitInv(c)'
      <3> SUFFICES ASSUME NEW i \in 1..Len(wire[c]), wire[c][i].kind = "exited"
                   PROVE  /\ \A j \in (i + 1)..Len(wire[c]) :
                               wire[c][j].kind \in {"note", "lag"}
                          /\ hPc[c] = "idle"
                          /\ fwd[c] =>
                               /\ ioPc' = "done"
                               /\ \A j \in (rx[c] + 1)..(n + 1) : bcast'[j].kind = "note"
        BY <1>u, <2>1 DEF ExitInv
      <3>1. /\ \A j \in (i + 1)..Len(wire[c]) : wire[c][j].kind \in {"note", "lag"}
            /\ hPc[c] = "idle"
            /\ fwd[c] => /\ ioPc = "done"
                         /\ \A j \in (rx[c] + 1)..n : bcast[j].kind = "note"
        BY DEF Exits, ExitInv, n
      <3>2. ASSUME fwd[c], NEW j \in (rx[c] + 1)..(n + 1) PROVE bcast'[j].kind = "note"
        BY <1>2, <1>t, <2>1, <3>1, <3>2 DEF n
      <3> QED
        BY <1>2, <3>1, <3>2
    <2>5. ExitSeqInv'
      <3> SUFFICES ASSUME ~Exhausted
                   PROVE  /\ \A i \in 1..(n + 1) :
                               bcast'[i].kind = "exited" => bcast'[i].upto = produced
                          /\ \A c \in Clients : \A i \in 1..Len(wire[c]) :
                               fwd[c] /\ wire[c][i].kind = "exited" =>
                                 wire[c][i].seq = produced
        BY <1>2, <1>u, <2>1 DEF ExitSeqInv, Exhausted
      <3>1. e.kind = "exited" => e.upto = produced
        <4>1. ASSUME e.kind = "exited" PROVE BcastEnd = produced
          BY <1>2, <4>1, BcastEndIsUpto DEF StreamInv, BroadcastInv, ChunkPending
        <4> QED
          BY <1>2, <4>1
      <3>2. ASSUME NEW i \in 1..(n + 1), bcast'[i].kind = "exited"
            PROVE  bcast'[i].upto = produced
        <4>1. CASE i = n + 1
          BY <2>1, <3>1, <3>2, <4>1
        <4>2. CASE i \in 1..n
          BY <2>1, <3>2, <4>2 DEF Exits, ExitSeqInv, n
        <4> QED
          BY <1>t, <4>1, <4>2 DEF n
      <3> QED
        BY <3>2 DEF Exits, ExitSeqInv
    <2> QED
      BY <2>3, <2>4, <2>5 DEF Exits
  <1> QED
    BY <1>1, <1>2, SessionSends

\* A connection that nothing is on.
LEMMA EmptyExits ==
  ASSUME NEW c \in Clients, wire'[c] = << >>
  PROVE  /\ ExitInv(c)'
         /\ \A i \in 1..Len(wire'[c]) : wire'[c][i].kind # "exited"
  <1>1. Len(wire'[c]) = 0
    OBVIOUS
  <1> QED
    BY <1>1 DEF ExitInv

\* A frame other than the exit is written where no exit is.
LEMMA PlainFrame ==
  ASSUME TypeOK, NEW c \in Clients, NEW m \in MsgType, Write(c, <<m>>),
         m.kind # "exited",
         \A i \in 1..Len(wire[c]) : wire[c][i].kind # "exited"
  PROVE  /\ ExitInv(c)'
         /\ \A i \in 1..Len(wire'[c]) : wire'[c][i].kind # "exited"
  <1>1. /\ Len(wire[c]) \in Nat /\ Len(wire'[c]) = Len(wire[c]) + 1
        /\ \A i \in 1..Len(wire[c]) : wire'[c][i] = wire[c][i]
        /\ wire'[c][Len(wire[c]) + 1] = m
    BY Appended
  <1>2. \A i \in 1..Len(wire'[c]) : wire'[c][i].kind # "exited"
    BY <1>1
  <1> QED
    BY <1>2 DEF ExitInv

\* What a step of connection c must show.
ExitOf(c) ==
  /\ ExitInv(c)
  /\ \A i \in 1..Len(wire[c]) :
       ~Exhausted /\ fwd[c] /\ wire[c][i].kind = "exited" => wire[c][i].seq = produced

LEMMA HandlerExits ==
  ASSUME RingInv, TypeOK, Control, StreamInv, Exits, NEW c \in Clients, Handler(c)
  PROVE  ExitOf(c)'
  <1>t. /\ hPc \in [Clients -> HPcs] /\ fwd \in [Clients -> BOOLEAN]
        /\ rx \in [Clients -> Nat] /\ rx[c] \in Nat
        /\ wire \in [Clients -> Seq(MsgType)] /\ Len(wire[c]) \in Nat
        /\ bcast \in Seq(MsgType) /\ Len(bcast) \in Nat
    BY DEF TypeOK
  <1>u. UNCHANGED <<produced, ioPc, bcast>>
    BY ConnectionLeavesStream
  <1>c. /\ hPc[c] \notin {"idle", "check"} => ~fwd[c] /\ wire[c] = << >>
        /\ fwd[c] => hPc[c] = "idle"
    BY DEF Control, ControlInv
  <1>e. /\ ExitInv(c)
        /\ hPc[c] # "idle" => \A i \in 1..Len(wire[c]) : wire[c][i].kind # "exited"
    BY DEF Exits, ExitInv
  <1>1. CASE \/ LookupLive(c) \/ StopForwarder(c) \/ AttachClient(c) \/ ClientGrab(c)
             \/ ClientRebuild(c) \/ Subscribe(c) \/ CaptureDead(c) \/ Revive(c)
    <2>1. hPc[c] \notin {"idle", "check"} /\ wire' = wire
      BY <1>1 DEF LookupLive, StopForwarder, AttachClient, ClientGrab,
         ClientRebuild, Subscribe, CaptureDead, Revive, Step
    <2> QED
      BY <1>c, <2>1, EmptyExits DEF ExitOf
  <1>2. CASE LookupRestored(c)
    <2> DEFINE end == ScrollEnd(Scrollback(ring))
               a == Msg("history", ring.start, end, end, TRUE)
               b == Marker("exited", end)
    <2>1. /\ hPc[c] = "lookup" /\ hPc'[c] = "idle" /\ fwd' = fwd
          /\ wire' = [wire EXCEPT ![c] = wire[c] \o <<a, b>>]
      BY <1>t, <1>2 DEF LookupRestored, Step, Write
    <2>2. a.kind = "history"
      BY DEF Msg
    <2> HIDE DEF a, b
    <2>3. wire[c] = << >> /\ ~fwd[c] /\ <<a, b>> = << >> \o <<a, b>>
      BY <1>c, <2>1
    <2>4. wire'[c] = <<a, b>>
      BY <1>t, <2>1, <2>3
    <2>5. Len(wire'[c]) = 2 /\ wire'[c][1].kind = "history"
      BY <2>2, <2>4
    <2> QED
      BY <2>1, <2>3, <2>5 DEF ExitOf, ExitInv
  <1>3. ASSUME NEW m \in MsgType, Write(c, <<m>>), m.kind # "exited", hPc[c] # "idle"
        PROVE  ExitOf(c)'
    BY <1>3, <1>e, PlainFrame DEF ExitOf
  <1>4. CASE LookupGone(c) \/ AttachClientFails(c)
    <2>1. Marker("error", 0) \in MsgType /\ Marker("error", 0).kind = "error"
      BY MarkerTyped DEF MsgKinds, Marker, Msg
    <2> QED
      BY <1>3, <1>4, <2>1 DEF LookupGone, AttachClientFails, Step
  <1>5. CASE CaptureReplay(c) \/ CaptureSnapshot(c) \/ CaptureRaw(c) \/ Resnap(c)
    <2>1. PICK m \in MsgType : Write(c, <<m>>) /\ m.kind \in AttachReplies
      BY <1>5, AnswerExists
    <2>2. hPc[c] # "idle" /\ m.kind # "exited"
      BY <1>5, <2>1 DEF CaptureReplay, CaptureSnapshot, CaptureRaw, Resnap, Step,
         AttachReplies
    <2> QED
      BY <1>3, <2>1, <2>2
  <1>6. CASE CheckExited(c)
    <2> DEFINE m == Marker("exited", Sent(c))
    <2>1. m \in MsgType
      BY SentTyped, MarkerTyped DEF MsgKinds
    <2>2. /\ Write(c, <<m>>) /\ hPc[c] = "check" /\ hPc'[c] = "idle" /\ fwd' = fwd
      BY <1>t, <1>6 DEF CheckExited, Step
    <2> HIDE DEF m
    <2>3. /\ Len(wire'[c]) = Len(wire[c]) + 1
          /\ \A i \in 1..Len(wire[c]) : wire'[c][i] = wire[c][i]
      BY <2>1, <2>2, Appended
    <2>4. \A i \in 1..Len(wire[c]) : wire[c][i].kind # "exited"
      BY <1>e, <2>2
    <2>5. ~fwd'[c]
      BY <1>c, <2>2
    <2>6. ASSUME NEW i \in 1..Len(wire'[c]), wire'[c][i].kind = "exited"
          PROVE  (i + 1)..Len(wire'[c]) = {}
      <3>1. i = Len(wire[c]) + 1
        BY <1>t, <2>3, <2>4, <2>6
      <3> QED
        BY <1>t, <2>3, <3>1
    <2> QED
      BY <2>2, <2>5, <2>6 DEF ExitOf, ExitInv
  <1>7. CASE CheckRunning(c)
    <2>1. hPc[c] # "idle" /\ wire' = wire
      BY <1>7 DEF CheckRunning, Step
    <2> QED
      BY <1>e, <2>1 DEF ExitOf, ExitInv
  <1>8. CASE ForwardSkip(c)
    <2>1. /\ rx'[c] = rx[c] + 1 /\ UNCHANGED <<hPc, fwd, wire>>
      BY <1>t, <1>8 DEF ForwardSkip
    <2>2. ExitInv(c)'
      BY <1>e, <1>t, <1>u, <2>1 DEF ExitInv
    <2> QED
      BY <1>u, <2>1, <2>2 DEF ExitOf, Exits, ExitSeqInv, Exhausted
  <1>9. CASE ForwardLag(c)
    <2> DEFINE m == Marker("lag", Sent(c))
    <2>1. m \in MsgType /\ m.kind = "lag"
      BY SentTyped, MarkerTyped DEF MsgKinds, Marker, Msg
    <2>2. Write(c, <<m>>) /\ fwd[c] /\ ~fwd'[c] /\ UNCHANGED hPc
      BY <1>t, <1>9 DEF ForwardLag
    <2> HIDE DEF m
    <2>3. /\ Len(wire'[c]) = Len(wire[c]) + 1
          /\ \A i \in 1..Len(wire[c]) : wire'[c][i] = wire[c][i]
          /\ wire'[c][Len(wire[c]) + 1] = m
      BY <2>1, <2>2, Appended
    <2>4. ASSUME NEW i \in 1..Len(wire'[c]), wire'[c][i].kind = "exited"
          PROVE  /\ \A j \in (i + 1)..Len(wire'[c]) : wire'[c][j].kind \in {"note", "lag"}
                 /\ hPc'[c] = "idle"
      <3>1. i \in 1..Len(wire[c]) /\ wire[c][i].kind = "exited"
        BY <1>t, <2>1, <2>3, <2>4
      <3>2. /\ \A j \in (i + 1)..Len(wire[c]) : wire[c][j].kind \in {"note", "lag"}
            /\ hPc[c] = "idle"
        BY <1>e, <3>1 DEF ExitInv
      <3>3. ASSUME NEW j \in (i + 1)..Len(wire'[c])
            PROVE  wire'[c][j].kind \in {"note", "lag"}
        <4>1. j = Len(wire[c]) + 1 \/ j \in (i + 1)..Len(wire[c])
          BY <1>t, <2>3
        <4> QED
          BY <1>t, <2>1, <2>3, <3>1, <3>2, <4>1
      <3> QED
        BY <2>2, <3>2, <3>3
    <2> QED
      BY <2>2, <2>4 DEF ExitOf, ExitInv
  <1>10. CASE ForwardEvent(c)
    <2> DEFINE e == bcast[rx[c] + 1]
               n == Len(wire[c])
    <2>1. PICK m \in MsgType :
            /\ Write(c, <<m>>) /\ m.kind = e.kind
            /\ e.kind # "output" => m.seq = Sent(c)
      BY <1>10, ForwardedFrame
    <2>2. /\ fwd[c] /\ rx[c] + 1 \in 1..Len(bcast) /\ rx'[c] = rx[c] + 1
          /\ UNCHANGED <<hPc, fwd>>
      BY <1>t, <1>10 DEF ForwardEvent
    <2>3. /\ Len(wire'[c]) = n + 1 /\ wire'[c][n + 1] = m
          /\ \A i \in 1..n : wire'[c][i] = wire[c][i]
      BY <2>1, Appended
    <2>4. hPc'[c] = "idle"
      BY <1>c, <2>2
    <2>5. m.kind = "exited" =>
            /\ ioPc = "done"
            /\ \A j \in (rx[c] + 2)..Len(bcast) : bcast[j].kind = "note"
      <3>1. e.kind = "exited" =>
              /\ ioPc = "done"
              /\ \A j \in ((rx[c] + 1) + 1)..Len(bcast) : bcast[j].kind = "note"
        BY <2>2 DEF Exits, LastEventInv
      <3>2. (rx[c] + 1) + 1 = rx[c] + 2
        BY <1>t
      <3> QED
        BY <2>1, <3>1, <3>2
    <2>6. m.kind = "exited" /\ ~Exhausted => m.seq = produced
      <3> SUFFICES ASSUME m.kind = "exited", ~Exhausted PROVE m.seq = produced
        OBVIOUS
      <3>1. e.kind = "exited" /\ e.upto = produced /\ m.seq = Sent(c)
        BY <2>1, <2>2 DEF Exits, ExitSeqInv
      <3>2. e.from = Upto(bcast, rx[c]) /\ e.from = e.upto
        BY <1>t, <2>2, <3>1 DEF StreamInv, BroadcastInv
      <3>3. /\ Reaches(c, Later(attached[c], Upto(bcast, rx[c])))
            /\ attached[c] <= produced
        BY <2>2 DEF StreamInv, DeliveryInv
      <3>4. produced \in Nat /\ attached[c] \in Nat
        BY RingAssumption DEF TypeOK, RingTypeOK
      <3>5. Later(attached[c], Upto(bcast, rx[c])) = produced
        BY <3>1, <3>2, <3>3, <3>4 DEF Later
      <3>6. Reaches(c, produced)
        BY <3>3, <3>5
      <3> QED
        BY <3>1, <3>4, <3>6, SentReaches
    <2> HIDE DEF e, n
    <2>7. ASSUME NEW i \in 1..(n + 1), wire'[c][i].kind = "exited"
          PROVE  /\ \A j \in (i + 1)..(n + 1) : wire'[c][j].kind \in {"note", "lag"}
                 /\ ioPc = "done"
                 /\ \A j \in (rx[c] + 2)..Len(bcast) : bcast[j].kind = "note"
                 /\ ~Exhausted => wire'[c][i].seq = produced
      <3>1. CASE i = n + 1
        BY <1>t, <2>3, <2>5, <2>6, <2>7, <3>1 DEF n
      <3>2. CASE i \in 1..n
        <4>1. /\ \A j \in (i + 1)..n : wire[c][j].kind \in {"note", "lag"}
              /\ ioPc = "done"
              /\ \A j \in (rx[c] + 1)..Len(bcast) : bcast[j].kind = "note"
          BY <1>e, <2>2, <2>3, <2>7, <3>2 DEF ExitInv, n
        <4>2. m.kind = "note"
          BY <1>t, <2>1, <2>2, <4>1 DEF e
        <4>3. ~Exhausted => wire[c][i].seq = produced
          BY <2>2, <2>3, <2>7, <3>2 DEF Exits, ExitSeqInv, n
        <4>4. ASSUME NEW j \in (i + 1)..(n + 1)
              PROVE  wire'[c][j].kind \in {"note", "lag"}
          <5>0. n \in Nat
            BY <1>t DEF n
          <5>1. j = n + 1 \/ j \in (i + 1)..n
            BY <3>2, <5>0
          <5>2. \A k \in (i + 1)..n : k \in 1..n
            BY <3>2
          <5> QED
            BY <2>3, <4>1, <4>2, <5>1, <5>2
        <4>5. \A j \in (rx[c] + 2)..Len(bcast) : j \in (rx[c] + 1)..Len(bcast)
          BY <1>t
        <4> QED
          BY <2>3, <3>2, <4>1, <4>3, <4>4, <4>5
      <3> QED
        BY <1>t, <3>1, <3>2 DEF n
    <2>8. Len(wire'[c]) = n + 1 /\ rx'[c] + 1 = rx[c] + 2 /\ Exhausted' = Exhausted
      BY <1>t, <1>u, <2>2, <2>3 DEF Exhausted
    <2>9. ExitInv(c)'
      BY <1>u, <2>4, <2>7, <2>8 DEF ExitInv
    <2>10. ASSUME NEW i \in 1..Len(wire'[c]), ~Exhausted', wire'[c][i].kind = "exited"
           PROVE  wire'[c][i].seq = produced'
      BY <1>u, <2>7, <2>8, <2>10
    <2> QED
      BY <2>9, <2>10 DEF ExitOf
  <1> QED
    BY <1>1, <1>2, <1>4, <1>5, <1>6, <1>7, <1>8, <1>9, <1>10 DEF Handler

LEMMA ClientExits ==
  ASSUME TypeOK, Control, Exits, NEW c \in Clients, Reader(c) \/ User(c)
  PROVE  ExitOf(c)'
  <1>t. wire \in [Clients -> Seq(MsgType)]
    BY DEF TypeOK
  <1>u. UNCHANGED <<produced, ioPc, bcast>>
    BY ConnectionLeavesStream
  <1>e. ExitOf(c)
    BY DEF Exits, ExitSeqInv, ExitOf
  <1>1. CASE Receive(c)
    <2>1. /\ Len(wire[c]) \in Nat /\ Len(wire'[c]) = Len(wire[c]) - 1
          /\ \A i \in 1..Len(wire'[c]) : wire'[c][i] = wire[c][i + 1]
          /\ hPc'[c] = hPc[c] /\ fwd'[c] = fwd[c] /\ rx'[c] = rx[c]
      BY <1>1, Received
    <2> SUFFICES ASSUME NEW i \in 1..Len(wire'[c]), wire'[c][i].kind = "exited"
                 PROVE  /\ \A j \in (i + 1)..Len(wire'[c]) :
                             wire'[c][j].kind \in {"note", "lag"}
                        /\ hPc'[c] = "idle"
                        /\ fwd'[c] =>
                             /\ ioPc' = "done"
                             /\ \A j \in (rx'[c] + 1)..Len(bcast') :
                                  bcast'[j].kind = "note"
                        /\ ~Exhausted' /\ fwd'[c] => wire'[c][i].seq = produced'
      BY DEF ExitOf, ExitInv
    <2>2. i + 1 \in 1..Len(wire[c]) /\ wire[c][i + 1].kind = "exited"
      BY <2>1
    <2>3. ASSUME NEW j \in (i + 1)..Len(wire'[c])
          PROVE  wire'[c][j].kind \in {"note", "lag"}
      <3>1. j + 1 \in ((i + 1) + 1)..Len(wire[c]) /\ wire'[c][j] = wire[c][j + 1]
        BY <2>1, <2>3
      <3> QED
        BY <1>e, <2>2, <3>1 DEF ExitOf, ExitInv
    <2> QED
      BY <1>e, <1>u, <2>1, <2>2, <2>3 DEF ExitOf, ExitInv, Exhausted
  <1>2. CASE AttachCold(c) \/ AttachWarm(c) \/ AttachAfterLag(c)
    <2>1. phase[c] \in {"idle", "lagged"} /\ wire' = wire
      BY <1>2 DEF AttachCold, AttachWarm, AttachAfterLag
    <2>2. wire'[c] = << >>
      BY <2>1 DEF Control, ControlInv
    <2> QED
      BY <2>2, EmptyExits DEF ExitOf
  <1>3. CASE Disconnect(c)
    <2>1. wire'[c] = << >>
      BY <1>t, <1>3 DEF Disconnect
    <2> QED
      BY <2>1, EmptyExits DEF ExitOf
  <1> QED
    BY <1>1, <1>2, <1>3 DEF Reader, User, ReceiveAttached, ReceiveOutput,
       ReceiveNote, ReceiveLag, ReceiveEnd

LEMMA ExitsStep ==
  ASSUME RingInv, TypeOK, TypeOK', Control, StreamInv, Exits, [Next]_vars
  PROVE  Exits'
  <1>1. ASSUME NEW c \in Clients, Handler(c) \/ Reader(c) \/ User(c)
        PROVE  Exits'
    <2>1. UNCHANGED <<produced, ioPc, bcast>>
      BY <1>1, ConnectionLeavesStream
    <2>2. ExitOf(c)'
      BY <1>1, HandlerExits, ClientExits
    <2>3. ASSUME NEW d \in Clients, d # c PROVE ExitOf(d)'
      <3>1. /\ hPc'[d] = hPc[d] /\ fwd'[d] = fwd[d] /\ rx'[d] = rx[d]
            /\ wire'[d] = wire[d]
        BY <1>1, <2>3, ConnectionLeavesOthers
      <3> QED
        BY <2>1, <3>1 DEF Exits, ExitSeqInv, ExitOf, ExitInv, Exhausted
    <2>4. \A d \in Clients : ExitOf(d)'
      BY <2>2, <2>3
    <2>5. LastEventInv'
      BY <2>1 DEF Exits, LastEventInv
    <2> QED
      BY <2>1, <2>4, <2>5 DEF Exits, ExitSeqInv, ExitOf, Exhausted
  <1>2. CASE UNCHANGED vars
    BY <1>2 DEF vars, ringVars, sessionVars, handlerVars, Exits, LastEventInv,
       ExitSeqInv, ExitInv, Exhausted
  <1> QED
    BY <1>1, <1>2, SessionExits DEF Next

LEMMA InitExits == Init => Exits
  <1> SUFFICES ASSUME Init PROVE Exits
    OBVIOUS
  <1>1. Len(bcast) = 0
    BY DEF Init
  <1>2. ASSUME NEW c \in Clients PROVE Len(wire[c]) = 0
    <2>1. wire[c] = << >>
      BY DEF Init
    <2> QED
      BY <2>1
  <1> QED
    BY <1>1, <1>2 DEF Exits, LastEventInv, ExitSeqInv, ExitInv

LEMMA ExitsAlways == Spec => []Exits
  BY InitExits, ExitsStep, StreamTypeCorrect, RingAlways, ControlAlways,
     StreamAlways, PTL DEF Spec

(***************************************************************************)
(* ExitComesOnceAndLast in general: however many state changes follow the  *)
(* exit and however far a receiver is behind, an attachment is told of the *)
(* exit once, and after every byte that was read from the PTY              *)
(* (session.rs:700-725 and 883-887, ipc.rs:785-823).                       *)
(***************************************************************************)
THEOREM ExitIsOnceAndLast == Spec => []ExitComesOnceAndLast
  <1>1. TypeOK /\ Exits => ExitComesOnceAndLast
    <2> SUFFICES ASSUME TypeOK, Exits PROVE ExitComesOnceAndLast
      OBVIOUS
    <2>1. ExitAnnouncedOnce
      <3> SUFFICES ASSUME NEW c \in Clients, NEW i \in 1..Len(wire[c]),
                          NEW j \in 1..Len(wire[c]), i < j,
                          wire[c][i].kind = "exited"
                   PROVE  wire[c][j].kind \in {"note", "lag"}
        BY DEF ExitAnnouncedOnce
      <3>1. Len(wire[c]) \in Nat
        BY DEF TypeOK
      <3>2. j \in (i + 1)..Len(wire[c])
        BY <3>1
      <3> QED
        BY <3>2 DEF Exits, ExitInv
    <2>2. ForwardedExitAfterAllOutput
      BY DEF Exits, ExitSeqInv, ForwardedExitAfterAllOutput
    <2> QED
      BY <2>1, <2>2 DEF ExitComesOnceAndLast
  <1> QED
    BY <1>1, ExitsAlways, StreamTypeCorrect, PTL
-----------------------------------------------------------------------------
(***************************************************************************)
(* The screens, while the terminal emulator does not panic.                *)
(***************************************************************************)

\* The projection has parsed the whole stream, and nobody has to rebuild it.
NoPanicInv ==
  /\ term.alive /\ term.clean /\ term.upto = produced
  /\ ioPc \notin {"grab", "rebuild"} /\ rzPc = "wait"
  /\ \A c \in Clients : hPc[c] \notin {"grab", "rebuild", "revive", "resnap"}

\* Frame m, the i-th on the wire of c, shows the bytes its offset counts.
Exact(c, i, m) ==
  /\ m.kind # "scrollback"
  /\ m.kind \in {"output", "replay"} =>
       m.from <= m.upto /\ m.upto = m.seq /\ m.seq <= produced
  /\ m.kind = "snapshot" =>
       /\ m.clean /\ m.upto = m.seq /\ m.seq <= produced
       /\ i = 1 /\ seen[c] <= m.seq

\* The screen shows the bytes up to the cached offset.
ScreenInv(c) ==
  phase[c] \notin {"history", "ended"} =>
    /\ whole[c] /\ seen[c] <= produced
    /\ shown[c] = IF seen[c] = NoSeq THEN 0 ELSE seen[c]
    /\ phase[c] \in {"streaming", "lagged", "exited"} => seen[c] # NoSeq
    /\ \A i \in 1..Len(wire[c]) : Exact(c, i, wire[c][i])

Screens ==
  ~ParserMayPanic =>
    /\ NoPanicInv
    /\ ~Exhausted => \A c \in Clients : ScreenInv(c)

LEMMA NoPanicTerm ==
  ASSUME ~ParserMayPanic
  PROVE  /\ Resized = {term}
         /\ \A from, upto : term.alive => Ingested(from, upto) =
              {[alive |-> TRUE, upto |-> upto, clean |-> term.clean /\ term.upto = from]}
  BY DEF Resized, Ingested

LEMMA NoPanicSession ==
  ASSUME TypeOK, ~ParserMayPanic, NoPanicInv, Session
  PROVE  NoPanicInv'
  <1> USE DEF ringVars, rebuildVars, handlerVars
  <1>1. ASSUME NEW n \in 1..MaxChunk, ReadChunk(n) PROVE NoPanicInv'
    <2> DEFINE t == [alive |-> TRUE, upto |-> produced + n,
                     clean |-> term.clean /\ term.upto = produced]
    <2>1. term' \in {t}
      BY <1>1, NoPanicTerm DEF ReadChunk, NoPanicInv
    <2>2. t.alive /\ t.clean /\ t.upto = produced + n
      BY DEF NoPanicInv
    <2> HIDE DEF t
    <2>3. term'.alive /\ term'.clean /\ term'.upto = produced'
      BY <1>1, <2>1, <2>2 DEF ReadChunk, Push
    <2> QED
      BY <1>1, <2>3 DEF ReadChunk, NoPanicInv
  <1>2. CASE IoGrab \/ IoRebuild \/ ResizerGrab \/ ResizerRebuild
    BY <1>2 DEF IoGrab, IoRebuild, ResizerGrab, ResizerRebuild, NoPanicInv
  <1>3. CASE DebouncedResize
    BY <1>3, NoPanicTerm DEF DebouncedResize, NoPanicInv
  <1>4. CASE Publish \/ MarkExited \/ AnnounceExit \/ StateChange \/ Evict \/ KillSession
    BY <1>4 DEF Publish, MarkExited, AnnounceExit, StateChange, Evict, KillSession,
       NoPanicInv
  <1> QED
    BY <1>1, <1>2, <1>3, <1>4 DEF Session

LEMMA NoPanicConnection ==
  ASSUME TypeOK, ~ParserMayPanic, NoPanicInv, NEW c \in Clients,
         Handler(c) \/ Reader(c) \/ User(c)
  PROVE  NoPanicInv'
  <1> USE DEF ringVars, sessionVars, rebuildVars, handlerVars
  <1>t. hPc \in [Clients -> HPcs]
    BY DEF TypeOK
  <1>u. UNCHANGED <<produced, ioPc>>
    BY ConnectionLeavesStream
  <1>o. \A d \in Clients \ {c} : hPc'[d] = hPc[d]
    BY ConnectionLeavesOthers
  <1>1. ASSUME UNCHANGED <<term, rzPc>>,
               hPc'[c] \notin {"grab", "rebuild", "revive", "resnap"}
        PROVE  NoPanicInv'
    BY <1>1, <1>u, <1>o DEF NoPanicInv
  <1>2. CASE AttachClient(c)
    <2>1. term' \in {term}
      BY <1>2, NoPanicTerm DEF AttachClient
    <2>2. hPc'[c] = "subscribe" /\ UNCHANGED rzPc
      BY <1>2, <1>t, <2>1 DEF AttachClient, Step, NoPanicInv
    <2> QED
      BY <1>1, <2>1, <2>2
  <1>3. CASE ClientGrab(c) \/ ClientRebuild(c) \/ CaptureDead(c) \/ Revive(c) \/ Resnap(c)
    BY <1>3 DEF ClientGrab, ClientRebuild, CaptureDead, Revive, Resnap, Step, NoPanicInv
  <1>4. CASE \/ LookupLive(c) \/ LookupRestored(c) \/ LookupGone(c) \/ StopForwarder(c)
             \/ AttachClientFails(c) \/ Subscribe(c) \/ CaptureReplay(c)
             \/ CaptureSnapshot(c) \/ CaptureRaw(c) \/ CheckExited(c) \/ CheckRunning(c)
    BY <1>1, <1>4, <1>t DEF LookupLive, LookupRestored, LookupGone, StopForwarder,
       AttachClientFails, Subscribe, CaptureReplay, CaptureSnapshot, CaptureRaw,
       CheckExited, CheckRunning, Step
  <1>5. CASE ForwardLag(c) \/ ForwardSkip(c) \/ ForwardEvent(c)
    BY <1>5 DEF ForwardLag, ForwardSkip, ForwardEvent, NoPanicInv
  <1>6. CASE Receive(c)
    BY <1>6 DEF Receive, NoPanicInv
  <1>7. CASE AttachCold(c) \/ AttachWarm(c) \/ AttachAfterLag(c) \/ Disconnect(c)
    BY <1>1, <1>7, <1>t DEF AttachCold, AttachWarm, AttachAfterLag, Disconnect,
       SendAttach, Step
  <1> QED
    BY <1>2, <1>3, <1>4, <1>5, <1>6, <1>7 DEF Handler, Reader, User,
       ReceiveAttached, ReceiveOutput, ReceiveNote, ReceiveLag, ReceiveEnd

\* An exact frame is written.
LEMMA WriteExact ==
  ASSUME TypeOK, NEW c \in Clients, ScreenInv(c), NEW m \in MsgType,
         Write(c, <<m>>), Exact(c, Len(wire[c]) + 1, m),
         UNCHANGED <<clientVars, produced>>
  PROVE  ScreenInv(c)'
  <1> SUFFICES ASSUME phase[c] \notin {"history", "ended"} PROVE ScreenInv(c)'
    BY DEF ScreenInv, clientVars
  <1>1. /\ Len(wire[c]) \in Nat /\ Len(wire'[c]) = Len(wire[c]) + 1
        /\ \A i \in 1..Len(wire[c]) : wire'[c][i] = wire[c][i]
        /\ wire'[c][Len(wire[c]) + 1] = m
    BY Appended
  <1>2. ASSUME NEW i \in 1..Len(wire'[c]) PROVE Exact(c, i, wire'[c][i])
    <2>1. CASE i = Len(wire[c]) + 1
      BY <1>1, <2>1
    <2>2. CASE i \in 1..Len(wire[c])
      BY <1>1, <2>2 DEF ScreenInv
    <2> QED
      BY <1>1, <2>1, <2>2
  <1>3. \A i \in 1..Len(wire'[c]) : Exact(c, i, wire[c][i])'
    BY <1>2 DEF Exact, clientVars
  <1> QED
    BY <1>3 DEF ScreenInv, clientVars

\* Nothing is written.
LEMMA ScreenFrame ==
  ASSUME TypeOK, NEW c \in Clients, ScreenInv(c), wire'[c] = wire[c],
         phase'[c] = phase[c], seen'[c] = seen[c], shown'[c] = shown[c],
         whole'[c] = whole[c], produced' \in Nat, produced <= produced'
  PROVE  ScreenInv(c)'
  <1>t. produced \in Nat /\ seen[c] \in Int /\ wire[c] \in Seq(MsgType)
    BY RingAssumption DEF TypeOK, RingTypeOK, NoSeq
  <1>1. ASSUME NEW i \in 1..Len(wire[c]), Exact(c, i, wire[c][i])
        PROVE  Exact(c, i, wire[c][i])'
    <2>1. wire[c][i] \in MsgType
      BY <1>t
    <2>2. wire[c][i].seq \in Nat
      BY <2>1 DEF MsgType
    <2> QED
      BY <1>1, <1>t, <2>2 DEF Exact
  <1> QED
    BY <1>1, <1>t DEF ScreenInv

\* The answer of attach_bytes is exact.
LEMMA CapturedExact ==
  ASSUME RingInv, TypeOK, ~Exhausted, Control, NoPanicInv, ~ParserMayPanic,
         NEW c \in Clients, seen[c] <= produced,
         CaptureReplay(c) \/ CaptureSnapshot(c) \/ CaptureRaw(c)
  PROVE  \E m \in MsgType : Write(c, <<m>>) /\ Exact(c, Len(wire[c]) + 1, m)
  <1>t. produced \in Nat /\ IsWindow(ring, produced) /\ ring.next = produced
    BY RingAssumption DEF TypeOK, RingTypeOK, RingInv, IsWindow
  <1>0. Len(wire[c]) + 1 = 1
    <2>1. hPc[c] = "capture"
      BY DEF CaptureReplay, CaptureSnapshot, CaptureRaw, Step
    <2>2. wire[c] = << >>
      BY <2>1 DEF Control, ControlInv
    <2> QED
      BY <2>2
  <1>1. CASE CaptureReplay(c)
    <2> DEFINE end == want[c] + Len(ReplayFrom(ring, want[c]))
               m == Msg("replay", want[c], end, end, TRUE)
    <2>1. want[c] \in Nat /\ HasReplay(ring, want[c])
      BY <1>1, ReplayEndTyped DEF CaptureReplay, CanReplay
    <2>2. Stretch(ReplayFrom(ring, want[c]), want[c], produced) /\ want[c] <= produced
      BY <1>t, <2>1, ReplayIsStretch
    <2>3. end = produced
      BY <1>t, <2>1, <2>2 DEF Stretch
    <2>4. /\ m \in MsgType /\ m.kind = "replay" /\ m.from = want[c]
          /\ m.seq = produced /\ m.upto = produced
      BY <1>t, <2>1, <2>3, MsgTyped DEF MsgKinds, Msg
    <2>5. Write(c, <<m>>)
      BY <1>1 DEF CaptureReplay, Reply
    <2> HIDE DEF m
    <2>6. Exact(c, 1, m)
      BY <1>t, <2>2, <2>4 DEF Exact
    <2> QED
      BY <1>0, <2>4, <2>5, <2>6
  <1>2. CASE CaptureSnapshot(c)
    <2> DEFINE m == Msg("snapshot", 0, term.upto, ring.next, term.clean)
    <2>1. /\ m \in MsgType /\ m.kind = "snapshot" /\ m.upto = produced
          /\ m.seq = produced /\ m.clean
      BY <1>t, MsgTyped DEF MsgKinds, Msg, NoPanicInv, TypeOK, TermType
    <2>2. Write(c, <<m>>)
      BY <1>2 DEF CaptureSnapshot, Reply
    <2> HIDE DEF m
    <2>3. Exact(c, 1, m)
      BY <1>t, <2>1 DEF Exact
    <2> QED
      BY <1>0, <2>1, <2>2, <2>3
  <1>3. CASE CaptureRaw(c)
    BY <1>3 DEF CaptureRaw
  <1> QED
    BY <1>1, <1>2, <1>3

LEMMA HandlerScreen ==
  ASSUME RingInv, TypeOK, ~Exhausted, Control, BroadcastInv, NoPanicInv,
         ~ParserMayPanic, NEW c \in Clients, DeliveryInv(c), ScreenInv(c), Handler(c)
  PROVE  ScreenInv(c)'
  <1>t. /\ produced \in Nat /\ Len(bcast) \in Nat /\ bcast \in Seq(MsgType)
        /\ wire \in [Clients -> Seq(MsgType)] /\ rx[c] \in Nat
    BY RingAssumption DEF TypeOK, RingTypeOK
  <1>u. UNCHANGED <<produced, clientVars>>
    BY ConnectionLeavesStream DEF Handler, LookupLive, LookupRestored, LookupGone,
       StopForwarder, AttachClient, AttachClientFails, ClientGrab, ClientRebuild,
       Subscribe, CaptureReplay, CaptureSnapshot, CaptureRaw, CaptureDead, Revive,
       Resnap, CheckExited, CheckRunning, ForwardLag, ForwardSkip, ForwardEvent
  <1>0. ASSUME wire' = wire PROVE ScreenInv(c)'
    BY <1>0, <1>t, <1>u, ScreenFrame DEF clientVars
  <1>1. CASE \/ LookupLive(c) \/ StopForwarder(c) \/ AttachClient(c) \/ Subscribe(c)
             \/ CheckRunning(c) \/ ForwardSkip(c)
    BY <1>0, <1>1 DEF LookupLive, StopForwarder, AttachClient, Subscribe,
       CheckRunning, ForwardSkip
  <1>2. CASE ClientGrab(c) \/ ClientRebuild(c) \/ CaptureDead(c) \/ Revive(c) \/ Resnap(c)
    BY <1>2 DEF ClientGrab, ClientRebuild, CaptureDead, Revive, Resnap, Step, NoPanicInv
  <1>3. ASSUME NEW kind \in {"error", "exited", "lag"}, NEW at \in Nat,
               Write(c, <<Marker(kind, at)>>)
        PROVE  ScreenInv(c)'
    <2>1. Marker(kind, at) \in MsgType /\ Marker(kind, at).kind = kind
      BY MarkerTyped DEF MsgKinds, Marker, Msg
    <2>2. Exact(c, Len(wire[c]) + 1, Marker(kind, at))
      BY <2>1 DEF Exact
    <2> QED
      BY <1>3, <1>u, <2>1, <2>2, WriteExact
  <1>4. CASE \/ LookupGone(c) \/ AttachClientFails(c) \/ CheckExited(c) \/ ForwardLag(c)
    BY <1>3, <1>4, SentTyped DEF LookupGone, AttachClientFails, CheckExited, ForwardLag
  <1>5. CASE LookupRestored(c)
    <2> DEFINE end == ScrollEnd(Scrollback(ring))
               a == Msg("history", ring.start, end, end, TRUE)
               b == Marker("exited", end)
    <2>1. hPc[c] = "lookup" /\ wire' = [wire EXCEPT ![c] = wire[c] \o <<a, b>>]
      BY <1>5 DEF LookupRestored, Step, Write
    <2>2. a.kind = "history" /\ b.kind = "exited"
      BY DEF Msg, Marker
    <2> HIDE DEF a, b
    <2>3. wire[c] = << >> /\ <<a, b>> = << >> \o <<a, b>>
      BY <2>1 DEF Control, ControlInv
    <2>4. wire'[c] = <<a, b>>
      BY <1>t, <2>1, <2>3
    <2>5. /\ Len(wire'[c]) = 2
          /\ wire'[c][1].kind = "history" /\ wire'[c][2].kind = "exited"
      BY <2>2, <2>4
    <2>6. ASSUME NEW i \in 1..Len(wire'[c]) PROVE Exact(c, i, wire[c][i])'
      <3>1. i = 1 \/ i = 2
        BY <2>5
      <3> QED
        BY <2>5, <3>1 DEF Exact
    <2> QED
      BY <1>u, <2>6 DEF ScreenInv, clientVars
  <1>6. CASE CaptureReplay(c) \/ CaptureSnapshot(c) \/ CaptureRaw(c)
    <2>1. CASE phase[c] \in {"history", "ended"}
      BY <1>u, <2>1 DEF ScreenInv, clientVars
    <2>2. CASE phase[c] \notin {"history", "ended"}
      <3>1. PICK m \in MsgType : Write(c, <<m>>) /\ Exact(c, Len(wire[c]) + 1, m)
        BY <1>6, <2>2, CapturedExact DEF ScreenInv
      <3> QED
        BY <1>u, <3>1, WriteExact
    <2> QED
      BY <2>1, <2>2
  <1>7. CASE ForwardEvent(c)
    <2> DEFINE e == bcast[rx[c] + 1]
    <2>1. PICK m \in MsgType :
            /\ Write(c, <<m>>) /\ m.kind = e.kind
            /\ e.kind = "output" => m = e
      BY <1>7, ForwardedFrame
    <2>2. rx[c] + 1 \in 1..Len(bcast) /\ rx[c] \in 0..Len(bcast)
      BY <1>t, <1>7 DEF ForwardEvent
    <2>3. /\ Upto(bcast, rx[c] + 1) = e.upto /\ (rx[c] + 1) - 1 = rx[c]
          /\ e.kind \in {"output", "note", "exited"} /\ e.seq = e.upto
          /\ e.from = Upto(bcast, rx[c])
      BY <1>t, <2>2 DEF BroadcastInv, Upto
    <2>4. Upto(bcast, rx[c]) <= Upto(bcast, rx[c] + 1)
      BY <1>t, <2>2 DEF BroadcastInv
    <2>5. Upto(bcast, rx[c] + 1) <= produced
      BY <1>t, <2>2, CaptureOnBoundary
    <2> HIDE DEF e
    <2>6. Exact(c, Len(wire[c]) + 1, m)
      BY <2>1, <2>3, <2>4, <2>5 DEF Exact
    <2> QED
      BY <1>u, <2>1, <2>6, WriteExact
  <1> QED
    BY <1>1, <1>2, <1>4, <1>5, <1>6, <1>7 DEF Handler

\* A client reads an answer or an Output: its screen grows to the offset read.
LEMMA ReadFrame ==
  ASSUME TypeOK, NEW c \in Clients, WireChained(c), ScreenInv(c),
         phase[c] \notin {"history", "ended"},
         ReceiveAttached(c) \/ ReceiveOutput(c)
  PROVE  \/ phase'[c] = "history"
         \/ /\ phase'[c] = "streaming"
            /\ whole'[c] /\ shown'[c] = seen'[c] /\ seen'[c] \in Nat
            /\ shown[c] <= shown'[c] /\ seen'[c] <= produced
  <1> DEFINE m == wire[c][1]
  <1>t. /\ phase \in [Clients -> Phases] /\ whole \in [Clients -> BOOLEAN]
        /\ seen \in [Clients -> Nat \cup {NoSeq}] /\ shown \in [Clients -> Nat]
        /\ produced \in Nat
    BY RingAssumption DEF TypeOK, RingTypeOK
  <1>1. Receive(c)
    BY DEF ReceiveAttached, ReceiveOutput
  <1>2. Head(wire[c]) = m /\ m \in MsgType /\ 1 \in 1..Len(wire[c])
    BY <1>1, Received
  <1>3. m.seq \in Nat /\ m.upto \in Nat /\ m.from \in Nat
    BY <1>2 DEF MsgType
  <1>4. Exact(c, 1, m)
    BY <1>2 DEF ScreenInv
  <1>5. m.kind \in {"output", "replay"} => m.from = seen[c]
    BY <1>2 DEF WireChained, Before
  <1>6. whole[c] /\ shown[c] = IF seen[c] = NoSeq THEN 0 ELSE seen[c]
    BY DEF ScreenInv
  <1>7. seen'[c] = m.seq /\ shown'[c] = m.upto
    BY <1>2, <1>t DEF ReceiveAttached, ReceiveOutput
  <1> HIDE DEF m
  <1>8. CASE m.kind \in {"output", "replay"}
    <2>1. seen[c] # NoSeq /\ seen[c] = shown[c]
      BY <1>3, <1>5, <1>6, <1>8 DEF NoSeq
    <2>2. whole'[c] = TRUE
      BY <1>2, <1>5, <1>6, <1>8, <1>t, <2>1 DEF ReceiveAttached, ReceiveOutput
    <2>3. phase'[c] = "streaming"
      BY <1>2, <1>8, <1>t DEF ReceiveAttached, ReceiveOutput
    <2> QED
      BY <1>3, <1>4, <1>5, <1>7, <1>8, <2>1, <2>2, <2>3 DEF Exact
  <1>9. CASE m.kind = "snapshot"
    <2>1. whole'[c] = m.clean /\ phase'[c] = "streaming"
      BY <1>2, <1>9, <1>t DEF ReceiveAttached, ReceiveOutput
    <2>2. shown[c] <= m.seq
      BY <1>3, <1>4, <1>6, <1>9, <1>t DEF Exact
    <2> QED
      BY <1>3, <1>4, <1>7, <1>9, <2>1, <2>2 DEF Exact
  <1>10. CASE m.kind = "history"
    BY <1>2, <1>10, <1>t DEF ReceiveAttached, ReceiveOutput
  <1> QED
    BY <1>2, <1>4, <1>8, <1>9, <1>10 DEF ReceiveAttached, ReceiveOutput, Exact

LEMMA ClientScreen ==
  ASSUME TypeOK, Control, NEW c \in Clients, DeliveryInv(c), ScreenInv(c),
         Reader(c) \/ User(c)
  PROVE  ScreenInv(c)'
  <1>t. /\ phase \in [Clients -> Phases] /\ whole \in [Clients -> BOOLEAN]
        /\ seen \in [Clients -> Nat \cup {NoSeq}] /\ shown \in [Clients -> Nat]
        /\ wire \in [Clients -> Seq(MsgType)] /\ produced \in Nat
    BY RingAssumption DEF TypeOK, RingTypeOK
  <1>u. UNCHANGED produced
    BY ConnectionLeavesStream
  <1>1. CASE ReceiveAttached(c) \/ ReceiveOutput(c) \/ ReceiveNote(c)
             \/ ReceiveLag(c) \/ ReceiveEnd(c)
    <2>1. Receive(c)
      BY <1>1 DEF ReceiveAttached, ReceiveOutput, ReceiveNote, ReceiveLag, ReceiveEnd
    <2>2. CASE phase[c] \in {"history", "ended"}
      <3>1. phase'[c] \in {"history", "ended"}
        BY <1>1, <1>t, <2>2 DEF ReceiveAttached, ReceiveOutput, ReceiveNote,
           ReceiveLag, ReceiveEnd
      <3> QED
        BY <3>1 DEF ScreenInv
    <2>3. CASE phase[c] \notin {"history", "ended"}
      <3>1. ASSUME NEW i \in 1..Len(wire'[c]) PROVE Exact(c, i, wire[c][i])'
        <4>1. wire'[c][i] = wire[c][i + 1] /\ i + 1 \in 1..Len(wire[c])
              /\ i + 1 # 1
          BY <2>1, Received
        <4>2. Exact(c, i + 1, wire[c][i + 1])
          BY <2>3, <4>1 DEF ScreenInv
        <4> QED
          BY <1>u, <4>1, <4>2 DEF Exact
      <3>2. CASE ReceiveAttached(c) \/ ReceiveOutput(c)
        <4>1. \/ phase'[c] = "history"
              \/ /\ phase'[c] = "streaming"
                 /\ whole'[c] /\ shown'[c] = seen'[c] /\ seen'[c] \in Nat
                 /\ seen'[c] <= produced
          BY <2>3, <3>2, ReadFrame DEF DeliveryInv
        <4> QED
          BY <1>u, <3>1, <4>1 DEF ScreenInv, NoSeq
      <3>3. CASE ReceiveNote(c) \/ ReceiveLag(c) \/ ReceiveEnd(c)
        <4>1. /\ UNCHANGED <<seen, shown, whole>>
              /\ \/ phase[c] = "streaming" /\ phase'[c] \in {"streaming", "lagged", "exited"}
                 \/ phase'[c] = "ended"
          BY <1>t, <2>3, <3>3 DEF ReceiveNote, ReceiveLag, ReceiveEnd
        <4> QED
          BY <1>u, <3>1, <4>1 DEF ScreenInv
      <3> QED
        BY <1>1, <3>2, <3>3
    <2> QED
      BY <2>2, <2>3
  <1>2. CASE AttachCold(c) \/ AttachWarm(c) \/ AttachAfterLag(c) \/ Disconnect(c)
    <2>1. Len(wire'[c]) = 0
      <3>1. wire'[c] = << >>
        <4>1. CASE Disconnect(c)
          BY <1>t, <4>1 DEF Disconnect
        <4>2. CASE AttachCold(c) \/ AttachWarm(c) \/ AttachAfterLag(c)
          BY <4>2 DEF AttachCold, AttachWarm, AttachAfterLag, Control, ControlInv
        <4> QED
          BY <1>2, <4>1, <4>2
      <3> QED
        BY <3>1
    <2>2. CASE AttachCold(c)
      <3>1. /\ whole'[c] = TRUE /\ seen'[c] = NoSeq /\ shown'[c] = 0
            /\ phase'[c] = "waiting"
        BY <1>t, <2>2 DEF AttachCold, SendAttach
      <3> QED
        BY <1>t, <1>u, <2>1, <3>1 DEF ScreenInv, NoSeq
    <2>3. CASE AttachWarm(c) \/ AttachAfterLag(c)
      <3>1. /\ UNCHANGED <<seen, shown, whole>> /\ phase'[c] = "waiting"
            /\ phase[c] \in {"idle", "lagged"}
        BY <1>t, <2>3 DEF AttachWarm, AttachAfterLag, SendAttach
      <3> QED
        BY <1>u, <2>1, <3>1 DEF ScreenInv
    <2>4. CASE Disconnect(c)
      <3>1. /\ UNCHANGED <<seen, shown, whole>>
            /\ phase'[c] \in {"idle", "ended"} \/ phase'[c] = phase[c]
            /\ phase[c] \in {"history", "ended"} => phase'[c] = "ended"
        BY <1>t, <2>4 DEF Disconnect
      <3> QED
        BY <1>u, <2>1, <3>1 DEF ScreenInv
    <2> QED
      BY <1>2, <2>2, <2>3, <2>4
  <1> QED
    BY <1>1, <1>2 DEF Reader, User

\* What the steps of others leave alone on a client.
LEMMA OthersLeaveScreens ==
  ASSUME TypeOK, NEW d \in Clients
  PROVE  /\ Session => shown'[d] = shown[d] /\ whole'[d] = whole[d]
         /\ \A c \in Clients : Handler(c) => shown'[d] = shown[d] /\ whole'[d] = whole[d]
         /\ \A c \in Clients \ {d} :
              Reader(c) \/ User(c) => shown'[d] = shown[d] /\ whole'[d] = whole[d]
  <1> USE DEF clientVars
  <1>1. Session => UNCHANGED <<shown, whole>>
    BY DEF Session, ReadChunk, IoGrab, IoRebuild, Publish, MarkExited, AnnounceExit,
       StateChange, Evict, KillSession, DebouncedResize, ResizerGrab, ResizerRebuild
  <1>2. ASSUME NEW c \in Clients, Handler(c) PROVE UNCHANGED <<shown, whole>>
    BY <1>2 DEF Handler, LookupLive, LookupRestored, LookupGone, StopForwarder,
       AttachClient, AttachClientFails, ClientGrab, ClientRebuild, Subscribe,
       CaptureReplay, CaptureSnapshot, CaptureRaw, CaptureDead, Revive, Resnap,
       CheckExited, CheckRunning, ForwardLag, ForwardSkip, ForwardEvent
  <1>3. ASSUME NEW c \in Clients \ {d}, Reader(c) \/ User(c)
        PROVE  shown'[d] = shown[d] /\ whole'[d] = whole[d]
    BY <1>3 DEF TypeOK, Reader, User, ReceiveAttached, ReceiveOutput, ReceiveNote,
       ReceiveLag, ReceiveEnd, AttachAfterLag, AttachCold, AttachWarm, Disconnect
  <1> QED
    BY <1>1, <1>2, <1>3

LEMMA SessionGrows ==
  ASSUME TypeOK, Session
  PROVE  produced <= produced'
  <1>t. produced \in Nat
    BY RingAssumption DEF TypeOK, RingTypeOK
  <1>1. ASSUME NEW n \in 1..MaxChunk, ReadChunk(n) PROVE produced <= produced'
    BY <1>t, <1>1, RingAssumption DEF ReadChunk, Push
  <1>2. produced' = produced \/ \E n \in 1..MaxChunk : ReadChunk(n)
    BY DEF Session, IoGrab, IoRebuild, Publish, MarkExited, AnnounceExit, StateChange,
       Evict, KillSession, DebouncedResize, ResizerGrab, ResizerRebuild, ringVars
  <1> QED
    BY <1>t, <1>1, <1>2

LEMMA ScreensStep ==
  ASSUME RingInv, TypeOK, TypeOK', Control, StreamInv, Screens, [Next]_vars
  PROVE  Screens'
  <1> SUFFICES ASSUME ~ParserMayPanic
               PROVE  NoPanicInv' /\ (~Exhausted' => \A c \in Clients : ScreenInv(c)')
    BY DEF Screens
  <1>t. produced \in Nat /\ produced' \in Nat
    BY RingAssumption DEF TypeOK, RingTypeOK
  <1>n. NoPanicInv
    BY DEF Screens
  <1>1. CASE Session
    <2>1. ASSUME ~Exhausted', NEW c \in Clients PROVE ScreenInv(c)'
      <3>1. produced <= produced'
        BY <1>1, SessionGrows
      <3>2. ~Exhausted
        BY <1>t, <2>1, <3>1, RingAssumption DEF Exhausted
      <3>3. ScreenInv(c)
        BY <3>2 DEF Screens
      <3>4. UNCHANGED <<wire, phase, seen>>
        BY <1>1, SessionLeavesConnections
      <3>5. shown'[c] = shown[c] /\ whole'[c] = whole[c]
        BY <1>1, OthersLeaveScreens
      <3> QED
        BY <1>t, <3>1, <3>3, <3>4, <3>5, ScreenFrame
    <2> QED
      BY <1>1, <1>n, <2>1, NoPanicSession
  <1>2. ASSUME NEW c \in Clients, Handler(c) \/ Reader(c) \/ User(c)
        PROVE  NoPanicInv' /\ (~Exhausted' => \A d \in Clients : ScreenInv(d)')
    <2>1. UNCHANGED produced
      BY <1>2, ConnectionLeavesStream
    <2>2. ASSUME ~Exhausted', NEW d \in Clients PROVE ScreenInv(d)'
      <3>1. ~Exhausted
        BY <2>1, <2>2 DEF Exhausted
      <3>2. ScreenInv(d) /\ BroadcastInv /\ DeliveryInv(d)
        BY <3>1 DEF Screens, StreamInv
      <3>3. CASE d = c
        BY <1>2, <1>n, <3>1, <3>2, <3>3, HandlerScreen, ClientScreen
      <3>4. CASE d # c
        <4>1. wire'[d] = wire[d] /\ phase'[d] = phase[d] /\ seen'[d] = seen[d]
          BY <1>2, <3>4, ConnectionLeavesOthers
        <4>2. shown'[d] = shown[d] /\ whole'[d] = whole[d]
          BY <1>2, <3>4, OthersLeaveScreens
        <4> QED
          BY <1>t, <2>1, <3>2, <4>1, <4>2, ScreenFrame
      <3> QED
        BY <3>3, <3>4
    <2> QED
      BY <1>2, <1>n, <2>2, NoPanicConnection
  <1>3. CASE UNCHANGED vars
    <2>1. /\ UNCHANGED <<produced, term, ioPc, rzPc, hPc>>
          /\ UNCHANGED <<wire, phase, seen, shown, whole>>
      BY <1>3 DEF vars, ringVars, sessionVars, rebuildVars, handlerVars, clientVars
    <2>2. NoPanicInv'
      BY <1>n, <2>1 DEF NoPanicInv
    <2>3. ASSUME ~Exhausted', NEW c \in Clients PROVE ScreenInv(c)'
      <3>1. ScreenInv(c)
        BY <2>1, <2>3 DEF Screens, Exhausted
      <3> QED
        BY <1>t, <2>1, <3>1, ScreenFrame
    <2> QED
      BY <2>2, <2>3
  <1> QED
    BY <1>1, <1>2, <1>3 DEF Next

LEMMA InitScreens == Init => Screens
  <1> SUFFICES ASSUME Init PROVE NoPanicInv /\ \A c \in Clients : ScreenInv(c)
    BY DEF Screens
  <1>1. term.alive /\ term.clean /\ term.upto = 0 /\ produced = 0
    BY DEF Init, RingInit, NewTerm
  <1>2. NoPanicInv
    BY <1>1 DEF Init, NoPanicInv
  <1>3. ASSUME NEW c \in Clients PROVE ScreenInv(c)
    <2>1. /\ whole[c] = TRUE /\ seen[c] = NoSeq /\ shown[c] = 0
          /\ phase[c] = "idle" /\ wire[c] = << >>
      BY DEF Init
    <2>2. Len(wire[c]) = 0
      BY <2>1
    <2> QED
      BY <1>1, <2>1, <2>2 DEF ScreenInv, NoSeq
  <1> QED
    BY <1>2, <1>3

LEMMA ScreensAlways == Spec => []Screens
  BY InitScreens, ScreensStep, StreamTypeCorrect, RingAlways, ControlAlways,
     StreamAlways, PTL DEF Spec

(***************************************************************************)
(* ScreenExact in general: while the terminal emulator does not panic, the *)
(* screen of every client of a live session shows exactly the bytes up to  *)
(* its last_seen_seq, however attaches, replays, snapshots, lags and       *)
(* reconnections interleave (session.rs:240-276, attach_loop.rs).          *)
(***************************************************************************)
THEOREM ScreensAreExact == Spec => []ScreenExact
  <1>1. Screens => ScreenExact
    BY DEF Screens, ScreenInv, ScreenExact
  <1> QED
    BY <1>1, ScreensAlways, PTL

-----------------------------------------------------------------------------
(***************************************************************************)
(* The session implements ByteStream.                                      *)
(***************************************************************************)

\* A step of client c changes its own screen only, and how it may do so.
LEMMA ClientShows ==
  ASSUME TypeOK, Control, ~Exhausted, NEW c \in Clients, DeliveryInv(c),
         ScreenInv(c), ScreenInv(c)', Reader(c) \/ User(c)
  PROVE  \/ ScreenOf(c)' = ScreenOf(c)
         \/ ScreenOf(c)' = 1..0
         \/ \E n \in 0..produced : ScreenOf(c) \subseteq 1..n /\ ScreenOf(c)' = 1..n
  <1>t. /\ phase \in [Clients -> Phases] /\ whole \in [Clients -> BOOLEAN]
        /\ shown \in [Clients -> Nat] /\ produced \in Nat
    BY RingAssumption DEF TypeOK, RingTypeOK
  <1>1. CASE phase[c] \in {"history", "ended"}
    <2>1. phase'[c] \in {"history", "ended"}
      BY <1>1, <1>t DEF Reader, User, ReceiveAttached, ReceiveOutput, ReceiveNote,
         ReceiveLag, ReceiveEnd, AttachAfterLag, AttachCold, AttachWarm, Disconnect
    <2> QED
      BY <2>1 DEF ScreenOf
  <1>2. CASE phase'[c] \in {"history", "ended"}
    BY <1>2 DEF ScreenOf
  <1>3. CASE /\ phase[c] \notin {"history", "ended"}
             /\ phase'[c] \notin {"history", "ended"}
    <2>1. ScreenOf(c) = 1..shown[c] /\ ScreenOf(c)' = 1..shown'[c]
      BY <1>3 DEF ScreenOf, ScreenInv
    <2>2. CASE ReceiveAttached(c) \/ ReceiveOutput(c)
      <3>1. /\ shown'[c] \in Nat /\ shown[c] <= shown'[c]
            /\ shown'[c] <= produced
        BY <1>3, <2>2, ReadFrame DEF DeliveryInv
      <3>2. shown'[c] \in 0..produced /\ 1..shown[c] \subseteq 1..shown'[c]
        BY <1>t, <3>1
      <3> QED
        BY <2>1, <3>2
    <2>3. CASE AttachCold(c)
      <3>1. shown'[c] = 0
        BY <1>t, <2>3 DEF AttachCold
      <3> QED
        BY <2>1, <3>1
    <2>4. CASE ReceiveNote(c) \/ ReceiveLag(c) \/ ReceiveEnd(c)
               \/ AttachAfterLag(c) \/ AttachWarm(c) \/ Disconnect(c)
      <3>1. shown' = shown
        BY <2>4 DEF ReceiveNote, ReceiveLag, ReceiveEnd, AttachAfterLag,
           AttachWarm, Disconnect
      <3> QED
        BY <2>1, <3>1
    <2> QED
      BY <2>2, <2>3, <2>4 DEF Reader, User
  <1> QED
    BY <1>1, <1>2, <1>3

LEMMA InitImplements == Init => Promise!Init
  <1> SUFFICES ASSUME Init PROVE Promise!Init
    OBVIOUS
  <1>1. produced = 0
    BY DEF Init, RingInit
  <1>2. ASSUME NEW c \in Clients PROVE ScreenOf(c) = 1..0
    <2>1. phase[c] = "idle" /\ whole[c] = TRUE /\ shown[c] = 0
      BY DEF Init
    <2> QED
      BY <2>1 DEF ScreenOf
  <1> QED
    BY <1>1, <1>2 DEF Promise!Init, Promise!Prefix

\* One screen is drawn, cleared or left alone, and nothing else changes.
LEMMA ScreenChange ==
  ASSUME NEW c \in Clients, UNCHANGED produced,
         \A d \in Clients \ {c} : ScreenOf(d)' = ScreenOf(d),
         \/ ScreenOf(c)' = ScreenOf(c)
         \/ ScreenOf(c)' = 1..0
         \/ \E n \in 0..produced : ScreenOf(c) \subseteq 1..n /\ ScreenOf(c)' = 1..n
  PROVE  [Promise!Next]_(Promise!vars)
  <1> DEFINE screen  == [d \in Clients |-> ScreenOf(d)]
             screen2 == [d \in Clients |-> ScreenOf(d)']
  <1>1. CASE ScreenOf(c)' = ScreenOf(c)
    <2>1. screen2 = screen
      BY <1>1
    <2> QED
      BY <2>1 DEF Promise!vars
  <1>2. CASE ScreenOf(c)' = 1..0
    <2>1. screen2 = [screen EXCEPT ![c] = 1..0]
      BY <1>2
    <2>2. Promise!Clear(c)
      BY <2>1 DEF Promise!Clear, Promise!Prefix
    <2> QED
      BY <2>2 DEF Promise!Next
  <1>3. ASSUME NEW n \in 0..produced, ScreenOf(c) \subseteq 1..n, ScreenOf(c)' = 1..n
        PROVE  Promise!Next
    <2>1. screen2 = [screen EXCEPT ![c] = 1..n]
      BY <1>3
    <2>2. screen[c] \subseteq 1..n
      BY <1>3
    <2>3. Promise!Show(c)
      BY <2>1, <2>2 DEF Promise!Show, Promise!Prefix
    <2> QED
      BY <2>3 DEF Promise!Next
  <1> QED
    BY <1>1, <1>2, <1>3

LEMMA StepImplements ==
  ASSUME ~ParserMayPanic, MaxBytes <= MaxSeq, RingInv, TypeOK, TypeOK', Control,
         StreamInv, Screens, Screens', [Next]_vars
  PROVE  [Promise!Next]_(Promise!vars)
  <1>t. /\ produced \in Nat /\ produced <= MaxBytes
        /\ produced' \in Nat /\ produced' <= MaxBytes
    BY RingAssumption DEF TypeOK, RingTypeOK
  <1>e. ~Exhausted /\ ~Exhausted'
    BY <1>t, RingAssumption DEF Exhausted
  <1>i. \A c \in Clients : DeliveryInv(c) /\ ScreenInv(c) /\ ScreenInv(c)'
    BY <1>e DEF StreamInv, Screens
  <1>0. ASSUME \A d \in Clients : ScreenOf(d)' = ScreenOf(d)
        PROVE  [d \in Clients |-> ScreenOf(d)'] = [d \in Clients |-> ScreenOf(d)]
    BY <1>0
  <1>1. CASE Session
    <2>1. UNCHANGED phase
      BY <1>1, SessionLeavesConnections
    <2>2. \A d \in Clients : ScreenOf(d)' = ScreenOf(d)
      BY <1>1, <2>1, OthersLeaveScreens DEF ScreenOf
    <2>3. ASSUME NEW n \in 1..MaxChunk, ReadChunk(n) PROVE Promise!Next
      <3>1. produced' = produced + n
        BY <2>3 DEF ReadChunk, Push
      <3>2. produced' \in (produced + 1)..MaxBytes
        BY <1>t, <3>1, RingAssumption
      <3> QED
        BY <1>0, <2>2, <3>2 DEF Promise!Next, Promise!Produce
    <2>4. produced' = produced \/ \E n \in 1..MaxChunk : ReadChunk(n)
      BY <1>1 DEF Session, IoGrab, IoRebuild, Publish, MarkExited, AnnounceExit,
         StateChange, Evict, KillSession, DebouncedResize, ResizerGrab,
         ResizerRebuild, ringVars
    <2> QED
      BY <1>0, <2>2, <2>3, <2>4 DEF Promise!vars
  <1>2. ASSUME NEW c \in Clients, Handler(c) \/ Reader(c) \/ User(c)
        PROVE  [Promise!Next]_(Promise!vars)
    <2>1. UNCHANGED produced
      BY <1>2, ConnectionLeavesStream
    <2>2. ASSUME NEW d \in Clients \ {c} PROVE ScreenOf(d)' = ScreenOf(d)
      <3>1. phase'[d] = phase[d]
        BY <1>2, ConnectionLeavesOthers
      <3>2. shown'[d] = shown[d] /\ whole'[d] = whole[d]
        BY <1>2, OthersLeaveScreens
      <3> QED
        BY <3>1, <3>2 DEF ScreenOf
    <2>3. CASE Handler(c)
      <3>1. shown'[c] = shown[c] /\ whole'[c] = whole[c]
        BY <2>3, OthersLeaveScreens
      <3>2. phase' = phase
        BY <2>3 DEF clientVars, Handler, LookupLive, LookupRestored, LookupGone,
           StopForwarder, AttachClient, AttachClientFails, ClientGrab, ClientRebuild,
           Subscribe, CaptureReplay, CaptureSnapshot, CaptureRaw, CaptureDead, Revive,
           Resnap, CheckExited, CheckRunning, ForwardLag, ForwardSkip, ForwardEvent
      <3>3. ScreenOf(c)' = ScreenOf(c)
        BY <3>1, <3>2 DEF ScreenOf
      <3> QED
        BY <2>1, <2>2, <3>3, ScreenChange
    <2>4. CASE Reader(c) \/ User(c)
      <3>1. \/ ScreenOf(c)' = ScreenOf(c)
            \/ ScreenOf(c)' = 1..0
            \/ \E n \in 0..produced : ScreenOf(c) \subseteq 1..n /\ ScreenOf(c)' = 1..n
        BY <1>e, <1>i, <2>4, ClientShows
      <3> QED
        BY <2>1, <2>2, <3>1, ScreenChange
    <2> QED
      BY <1>2, <2>3, <2>4
  <1>3. CASE UNCHANGED vars
    <2>1. UNCHANGED <<produced, phase, shown, whole>>
      BY <1>3 DEF vars, ringVars, clientVars
    <2>2. \A d \in Clients : ScreenOf(d)' = ScreenOf(d)
      BY <2>1 DEF ScreenOf
    <2> QED
      BY <1>0, <2>1, <2>2 DEF Promise!vars
  <1> QED
    BY <1>1, <1>2, <1>3 DEF Next

(***************************************************************************)
(* ImplementsByteStream in general: while the terminal emulator does not   *)
(* panic and the 64-bit offset is not used up, a live terminal shows a     *)
(* prefix of the stream that only grows, through replays, snapshots, lags  *)
(* and reconnections (session.rs:226-276, ipc.rs:706-824, forward.rs).     *)
(***************************************************************************)
THEOREM SessionImplementsByteStream ==
  ASSUME ~ParserMayPanic, MaxBytes <= MaxSeq
  PROVE  Spec => ImplementsByteStream
  <1>1. /\ RingInv /\ TypeOK /\ TypeOK' /\ Control /\ StreamInv
        /\ Screens /\ Screens' /\ [Next]_vars
        => [Promise!Next]_(Promise!vars)
    BY StepImplements
  <1> QED
    BY <1>1, InitImplements, RingAlways, StreamTypeCorrect, ControlAlways,
       StreamAlways, ScreensAlways, PTL DEF Spec, ImplementsByteStream, Promise!Spec

=============================================================================
