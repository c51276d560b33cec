------------------------------ MODULE PtyRing ------------------------------
(***************************************************************************)
(* The raw PTY byte ring of one session (crates/daemon/src/ring.rs).       *)
(*                                                                         *)
(* A byte is abstracted to its position in the PTY's output stream: the    *)
(* first byte the child ever prints is 1, the next 2, and so on.  The ring *)
(* is then checked against the only thing that matters about its content,  *)
(* namely which stretch of the stream it holds.  u64::MAX is the constant  *)
(* MaxSeq, so that the exhausted-counter branch is reached.                *)
(***************************************************************************)
EXTENDS Integers, Sequences

CONSTANTS
  Capacity,   \* PTY_RING_CAPACITY, bytes the ring keeps
  MaxSeq,     \* u64::MAX, the largest offset
  MaxChunk,   \* largest number of bytes one push carries
  MaxBytes    \* bound: bytes the child prints in a behaviour

ASSUME RingAssumption ==
  /\ Capacity \in Nat \ {0}
  /\ MaxSeq \in Nat
  /\ MaxChunk \in Nat
  /\ MaxBytes \in Nat

VARIABLES
  ring,       \* PtyRingBuffer: start_seq, next_seq and data
  produced    \* history: bytes the child has printed so far

ringVars == <<ring, produced>>

(***************************************************************************)
(* PtyRingBuffer::new                                                      *)
(***************************************************************************)
EmptyRing == [start |-> 0, next |-> 0, data |-> <<>>]

\* The chunk of n bytes that the child prints next.
NextBytes(n) == [i \in 1..n |-> produced + i]

\* Fault variant of Kept: keeps the first bytes of an oversized chunk.
KeptHead(bytes) ==
  IF Len(bytes) > Capacity THEN SubSeq(bytes, 1, Capacity) ELSE bytes

\* The bytes of a chunk that fit the ring: its last Capacity ones.
Kept(bytes) ==
  IF Len(bytes) > Capacity
  THEN SubSeq(bytes, Len(bytes) - Capacity + 1, Len(bytes))
  ELSE bytes

\* data.drain(..overflow), then data.extend(bytes).
Extended(data, kept) ==
  LET excess   == Len(data) + Len(kept) - Capacity
      overflow == IF excess > 0 THEN excess ELSE 0
  IN  SubSeq(data, overflow + 1, Len(data)) \o kept

(***************************************************************************)
(* PtyRingBuffer::push.  A chunk the counter cannot absorb poisons the     *)
(* window: both ends at MaxSeq and no data.                                *)
(***************************************************************************)
PushRing(r, bytes) ==
  IF Len(bytes) = 0 THEN r
  ELSE IF r.next + Len(bytes) > MaxSeq
  THEN [start |-> MaxSeq, next |-> MaxSeq, data |-> <<>>]
  ELSE LET data == Extended(r.data, Kept(bytes))
           next == r.next + Len(bytes)
       IN  [start |-> next - Len(data), next |-> next, data |-> data]

\* ring.push(bytes).saturating_add(bytes.len()): the Output.seq of a chunk.
SaturatingSeq(r, n) == IF r.next + n > MaxSeq THEN MaxSeq ELSE r.next + n

\* Fault variant of HasReplay: an offset beyond the end is not refused.
HasReplayUnbounded(r, seq) == r.start <= seq

(***************************************************************************)
(* PtyRingBuffer::replay_from: None outside the window, otherwise the      *)
(* bytes from the offset to the end.                                       *)
(***************************************************************************)
HasReplay(r, seq) == r.start <= seq /\ seq <= r.next

ReplayFrom(r, seq) == SubSeq(r.data, seq - r.start + 1, Len(r.data))

RingInit ==
  /\ ring = EmptyRing
  /\ produced = 0

\* One read of the PTY pushed to the ring.
Push(n) ==
  /\ produced + n <= MaxBytes
  /\ ring' = PushRing(ring, NextBytes(n))
  /\ produced' = produced + n

RingNext == \E n \in 0..MaxChunk : Push(n)

RingSpec == RingInit /\ [][RingNext]_ringVars

-----------------------------------------------------------------------------

\* The 64-bit offset can no longer number the bytes of the stream.
Exhausted == produced > MaxSeq

\* Bytes lo+1 .. hi of the stream, in order and each once.
Stretch(s, lo, hi) ==
  /\ Len(s) = hi - lo
  /\ \A i \in 1..Len(s) : s[i] = lo + i

(***************************************************************************)
(* Type invariant of the ring.                                             *)
(***************************************************************************)
RingTypeOK ==
  /\ ring \in [start : 0..MaxSeq, next : 0..MaxSeq, data : Seq(Nat)]
  /\ produced \in 0..MaxBytes

(***************************************************************************)
(* After any sequence of pushes, chunks larger than the ring included, the *)
(* ring holds exactly the last min(Capacity, produced) bytes of the stream *)
(* in order, and start_seq/next_seq are the true offsets of its ends       *)
(* (PtyRingBuffer::push, ring.rs:24-52).                                   *)
(***************************************************************************)
WindowIsSuffix ==
  ~Exhausted =>
    /\ ring.next = produced
    /\ Stretch(ring.data, ring.start, ring.next)
    /\ ring.start = IF produced > Capacity THEN produced - Capacity ELSE 0

(***************************************************************************)
(* A replay the ring agrees to serve carries exactly the bytes after the   *)
(* requested offset, whatever the offset (replay_from, ring.rs:54-69).     *)
(***************************************************************************)
ReplayIsExact ==
  ~Exhausted =>
    \A seq \in 0..MaxSeq :
      HasReplay(ring, seq) => Stretch(ReplayFrom(ring, seq), seq, produced)

(***************************************************************************)
(* Offsets never move back, also when the counter runs out (push,          *)
(* ring.rs:24-52): a client's saved offset is never ahead of the ring.     *)
(***************************************************************************)
OffsetsAdvance ==
  [][/\ ring'.next >= ring.next
     /\ ring'.start >= ring.start]_ringVars

=============================================================================
