--------------------------- MODULE PtyRingProofs ---------------------------
(***************************************************************************)
(* Proofs about the PTY byte ring, for every capacity, counter width and   *)
(* chunk size.                                                             *)
(***************************************************************************)
EXTENDS PtyRing, SequenceTheorems, TLAPS

\* The smallest offset a ring that has seen n bytes can still replay.
WindowStart(n) == IF n > Capacity THEN n - Capacity ELSE 0

\* r holds the last bytes of a stream of n bytes.
IsWindow(r, n) ==
  /\ r = [start |-> WindowStart(n), next |-> n, data |-> r.data]
  /\ r.data \in Seq(Nat)
  /\ Stretch(r.data, WindowStart(n), n)

-----------------------------------------------------------------------------
(***************************************************************************)
(* Stretches: cutting the front off one and joining two adjacent ones.     *)
(***************************************************************************)

\* The chunk a push carries is the stretch that follows the stream so far.
LEMMA ChunkIsStretch ==
  ASSUME NEW lo \in Nat, NEW n \in Nat
  PROVE  LET b == [i \in 1..n |-> lo + i]
         IN  b \in Seq(Nat) /\ Len(b) = n /\ Stretch(b, lo, lo + n)
  BY DEF Stretch

\* Dropping the first d bytes of a stretch (data.drain(..d)) leaves the
\* stretch that starts d bytes later.
LEMMA DropStretch ==
  ASSUME NEW lo \in Nat, NEW hi \in Nat, lo <= hi,
         NEW b \in Seq(Nat), Stretch(b, lo, hi),
         NEW d \in 0..(hi - lo)
  PROVE  /\ SubSeq(b, d + 1, Len(b)) \in Seq(Nat)
         /\ Stretch(SubSeq(b, d + 1, Len(b)), lo + d, hi)
  <1> DEFINE s == SubSeq(b, d + 1, Len(b))
  <1>1. Len(b) = hi - lo /\ Len(b) \in Nat /\ \A i \in 1..Len(b) : b[i] = lo + i
    BY DEF Stretch
  <1>2. d + 1 \in Int /\ Len(b) \in Int
    BY <1>1
  <1>3. \A i \in (d + 1)..Len(b) : b[i] \in Nat
    BY <1>1
  <1>4. s = [i \in 1..(Len(b) - d) |-> b[i + d]]
    BY <1>1
  <1>5. s \in Seq(Nat) /\ Len(s) = hi - (lo + d)
    BY <1>1, <1>3, <1>4
  <1>6. \A i \in 1..Len(s) : s[i] = (lo + d) + i
    BY <1>1, <1>4, <1>5
  <1> HIDE DEF s
  <1>7. QED
    BY <1>5, <1>6 DEF Stretch, s

LEMMA JoinStretches ==
  ASSUME NEW lo \in Nat, NEW mid \in Nat, NEW hi \in Nat,
         lo <= mid, mid <= hi,
         NEW a \in Seq(Nat), Stretch(a, lo, mid),
         NEW b \in Seq(Nat), Stretch(b, mid, hi)
  PROVE  a \o b \in Seq(Nat) /\ Stretch(a \o b, lo, hi)
  <1>1. /\ Len(a) = mid - lo /\ \A i \in 1..Len(a) : a[i] = lo + i
        /\ Len(b) = hi - mid /\ \A i \in 1..Len(b) : b[i] = mid + i
    BY DEF Stretch
  <1>a. a \o b \in Seq(Nat) /\ Len(a \o b) = Len(a) + Len(b)
    BY ConcatProperties
  <1>2. a \o b \in Seq(Nat) /\ Len(a \o b) = hi - lo
    BY <1>1, <1>a
  <1>3. \A i \in 1..(hi - lo) : (a \o b)[i] = lo + i
    <2> SUFFICES ASSUME NEW i \in 1..(hi - lo)
                 PROVE  (a \o b)[i] = lo + i
      OBVIOUS
    <2>1. (a \o b)[i] = IF i <= Len(a) THEN a[i] ELSE b[i - Len(a)]
      BY <1>1, ConcatProperties
    <2>2. CASE i <= Len(a)
      BY <1>1, <2>1, <2>2
    <2>3. CASE ~(i <= Len(a))
      BY <1>1, <2>1, <2>3
    <2> QED
      BY <2>2, <2>3
  <1> QED
    BY <1>2, <1>3 DEF Stretch

-----------------------------------------------------------------------------
(***************************************************************************)
(* PtyRingBuffer::push and replay_from.                                    *)
(***************************************************************************)

\* The part of a chunk that fits the ring is the end of it.
LEMMA KeptIsStretch ==
  ASSUME NEW lo \in Nat, NEW n \in Nat,
         NEW b \in Seq(Nat), Stretch(b, lo, lo + n)
  PROVE  LET k == IF n > Capacity THEN Capacity ELSE n
         IN  Kept(b) \in Seq(Nat) /\ Stretch(Kept(b), lo + n - k, lo + n)
  <1>1. Len(b) = n
    BY DEF Stretch
  <1>2. CASE n > Capacity
    <2>1. n - Capacity \in 0..n /\ Capacity \in Nat
      BY <1>2, RingAssumption
    <2>2. Kept(b) = SubSeq(b, (n - Capacity) + 1, Len(b))
      BY <1>1, <1>2 DEF Kept
    <2>3. /\ SubSeq(b, (n - Capacity) + 1, Len(b)) \in Seq(Nat)
          /\ Stretch(SubSeq(b, (n - Capacity) + 1, Len(b)),
                     lo + (n - Capacity), lo + n)
      <3>1. /\ lo + n \in Nat /\ lo <= lo + n
            /\ n - Capacity \in 0..((lo + n) - lo)
        BY <2>1
      <3> DEFINE hi == lo + n
                 d == n - Capacity
      <3>2. hi \in Nat /\ lo <= hi /\ d \in 0..(hi - lo) /\ Stretch(b, lo, hi)
        BY <3>1
      <3> HIDE DEF hi, d
      <3>3. /\ SubSeq(b, d + 1, Len(b)) \in Seq(Nat)
            /\ Stretch(SubSeq(b, d + 1, Len(b)), lo + d, hi)
        BY <3>2, DropStretch
      <3> QED
        BY <3>3 DEF hi, d
    <2>4. lo + (n - Capacity) = lo + n - Capacity
      BY <2>1
    <2> QED
      BY <1>2, <2>2, <2>3, <2>4
  <1>3. CASE ~(n > Capacity)
    BY <1>1, <1>3, RingAssumption DEF Kept
  <1> QED
    BY <1>2, <1>3

\* A push the counter absorbs moves the window to the end of the stream.
LEMMA PushKeepsWindow ==
  ASSUME NEW p \in Nat, NEW r, IsWindow(r, p),
         NEW n \in Nat, p + n <= MaxSeq,
         NEW b \in Seq(Nat), Stretch(b, p, p + n)
  PROVE  IsWindow(PushRing(r, b), p + n)
  <1> DEFINE k == IF n > Capacity THEN Capacity ELSE n
             w == WindowStart(p)
             excess == (p - w) + k - Capacity
             d == IF excess > 0 THEN excess ELSE 0
  <1>0. Capacity \in Nat \ {0}
    BY RingAssumption
  <1>1. Len(b) = n
    BY DEF Stretch
  <1>2. CASE n = 0
    BY <1>1, <1>2 DEF PushRing, IsWindow
  <1>3. CASE n # 0
    <2>1. r.next = p /\ r.data \in Seq(Nat) /\ Stretch(r.data, w, p)
      BY DEF IsWindow
    <2>2. w \in Nat /\ w <= p /\ k \in Nat /\ k <= n /\ d \in 0..(p - w)
      BY <1>0 DEF WindowStart
    <2>3. Len(r.data) = p - w
      BY <2>1 DEF Stretch
    <2>4. Kept(b) \in Seq(Nat) /\ Stretch(Kept(b), p + n - k, p + n)
      BY KeptIsStretch
    <2>5. Len(Kept(b)) = k
      BY <2>2, <2>4 DEF Stretch
    <2>6. Extended(r.data, Kept(b)) = SubSeq(r.data, d + 1, Len(r.data)) \o Kept(b)
      BY <2>3, <2>5 DEF Extended
    <2>7. /\ SubSeq(r.data, d + 1, Len(r.data)) \in Seq(Nat)
          /\ Stretch(SubSeq(r.data, d + 1, Len(r.data)), w + d, p)
      BY <2>1, <2>2, DropStretch
    <2>8. w + d \in Nat /\ w + d <= p /\ p + n - k \in Nat
      <3> HIDE DEF w, d, k, excess
      <3> QED
        BY <2>2
    <2> DEFINE data == Extended(r.data, Kept(b))
    <2>9. data \in Seq(Nat) /\ Stretch(data, WindowStart(p + n), p + n)
      <3>1. CASE n > Capacity
        <4>1. w + d = p /\ WindowStart(p + n) = p + n - k
          BY <1>0, <2>2, <3>1 DEF WindowStart
        <4>2. SubSeq(r.data, d + 1, Len(r.data)) = << >>
          <5> DEFINE s == SubSeq(r.data, d + 1, Len(r.data))
          <5>1. s \in Seq(Nat) /\ Len(s) = p - p
            BY <2>7, <4>1 DEF Stretch
          <5> HIDE DEF s
          <5>2. s = << >>
            BY <5>1, EmptySeq
          <5> QED
            BY <5>2 DEF s
        <4>3. data = Kept(b)
          <5>1. << >> \o Kept(b) = Kept(b)
            BY <2>4, ConcatEmptySeq
          <5> QED
            BY <2>6, <4>2, <5>1
        <4> QED
          BY <2>4, <4>1, <4>3
      <3>2. CASE ~(n > Capacity)
        <4>1. p + n - k = p /\ WindowStart(p + n) = w + d
          BY <1>0, <2>2, <3>2 DEF WindowStart
        <4>2. Stretch(Kept(b), p, p + n)
          BY <2>4, <4>1
        <4>3. p + n \in Nat /\ p <= p + n
          OBVIOUS
        <4> DEFINE s == SubSeq(r.data, d + 1, Len(r.data))
                   lo == w + d
                   hi == p + n
        <4>4. /\ lo \in Nat /\ hi \in Nat /\ lo <= p /\ p <= hi
              /\ s \in Seq(Nat) /\ Stretch(s, lo, p)
              /\ Kept(b) \in Seq(Nat) /\ Stretch(Kept(b), p, hi)
          BY <2>4, <2>7, <2>8, <4>2, <4>3
        <4>5. data = s \o Kept(b) /\ lo = WindowStart(p + n)
          BY <2>6, <4>1
        <4> HIDE DEF s, lo, data, hi
        <4>6. s \o Kept(b) \in Seq(Nat) /\ Stretch(s \o Kept(b), lo, hi)
          BY <4>4, JoinStretches
        <4> QED
          BY <4>5, <4>6 DEF hi
      <3> QED
        BY <3>1, <3>2
    <2>10. PushRing(r, b) = [start |-> (p + n) - Len(data), next |-> p + n, data |-> data]
      BY <1>1, <1>3, <2>1, RingAssumption DEF PushRing
    <2>11. Len(data) = (p + n) - WindowStart(p + n) /\ WindowStart(p + n) \in Nat
      BY <1>0, <2>9 DEF Stretch, WindowStart
    <2> HIDE DEF data
    <2>12. (p + n) - Len(data) = WindowStart(p + n)
      BY <2>11
    <2> QED
      BY <2>9, <2>10, <2>12 DEF IsWindow
  <1> QED
    BY <1>2, <1>3

\* A replay served from a window carries the bytes after the offset.
LEMMA ReplayIsStretch ==
  ASSUME NEW p \in Nat, NEW r, IsWindow(r, p),
         NEW seq \in Nat, HasReplay(r, seq)
  PROVE  /\ ReplayFrom(r, seq) \in Seq(Nat)
         /\ Stretch(ReplayFrom(r, seq), seq, p)
         /\ seq <= p
  <1>1. /\ r.start = WindowStart(p) /\ r.next = p
        /\ r.data \in Seq(Nat) /\ Stretch(r.data, r.start, p)
    BY DEF IsWindow
  <1>2. /\ r.start \in Nat /\ r.start <= p
        /\ seq - r.start \in 0..(p - r.start) /\ seq <= p
    BY <1>1, RingAssumption DEF WindowStart, HasReplay
  <1>3. r.start + (seq - r.start) = seq
    BY <1>2
  <1> QED
    BY <1>1, <1>2, <1>3, DropStretch DEF ReplayFrom

-----------------------------------------------------------------------------
(***************************************************************************)
(* The inductive invariant: while the counter can number the stream the    *)
(* ring is its window, and afterwards it is poisoned.                      *)
(***************************************************************************)
PoisonedRing == [start |-> MaxSeq, next |-> MaxSeq, data |-> <<>>]

RingInv ==
  /\ produced \in 0..MaxBytes
  /\ IF Exhausted THEN ring = PoisonedRing ELSE IsWindow(ring, produced)

LEMMA EmptyRingIsWindow == IsWindow(EmptyRing, 0)
  <1>1. WindowStart(0) = 0
    BY RingAssumption DEF WindowStart
  <1>2. << >> \in Seq(Nat) /\ Len(<< >>) = 0
    OBVIOUS
  <1>3. EmptyRing.data = << >>
    BY DEF EmptyRing
  <1>4. Stretch(EmptyRing.data, 0, 0)
    BY <1>2, <1>3 DEF Stretch
  <1> QED
    BY <1>1, <1>2, <1>3, <1>4 DEF IsWindow, EmptyRing

\* Push preserves the invariant, whatever the size of the chunk.
LEMMA PushKeepsRingInv ==
  ASSUME RingInv, NEW n \in Nat, Push(n)
  PROVE  RingInv'
  <1> DEFINE b == NextBytes(n)
  <1>1. produced \in Nat /\ produced' = produced + n /\ produced' \in 0..MaxBytes
    BY RingAssumption DEF RingInv, Push
  <1>2. b \in Seq(Nat) /\ Len(b) = n /\ Stretch(b, produced, produced + n)
    BY <1>1, ChunkIsStretch DEF NextBytes
  <1>3. ring' = PushRing(ring, b)
    BY DEF Push
  <1> HIDE DEF b
  <1>4. CASE produced + n <= MaxSeq
    <2>1. ~Exhausted /\ ~Exhausted'
      BY <1>1, <1>4, RingAssumption DEF Exhausted
    <2>2. IsWindow(ring, produced)
      BY <2>1 DEF RingInv
    <2>3. IsWindow(ring', produced + n)
      BY <1>1, <1>2, <1>3, <1>4, <2>2, PushKeepsWindow
    <2> QED
      BY <1>1, <2>1, <2>3 DEF RingInv, Exhausted, IsWindow
  <1>5. CASE ~(produced + n <= MaxSeq)
    <2>1. Exhausted'
      BY <1>1, <1>5, RingAssumption DEF Exhausted
    <2>2. ring' = PoisonedRing
      <3>1. CASE Exhausted
        <4>1. ring.next = MaxSeq /\ ring = PoisonedRing
          BY <3>1 DEF RingInv, PoisonedRing
        <4> QED
          BY <1>2, <1>3, <4>1, RingAssumption DEF PushRing, PoisonedRing
      <3>2. CASE ~Exhausted
        <4>1. ring.next = produced /\ n # 0
          BY <1>1, <1>5, <3>2, RingAssumption DEF RingInv, IsWindow, Exhausted
        <4> QED
          BY <1>1, <1>2, <1>3, <1>5, <4>1, RingAssumption DEF PushRing, PoisonedRing
      <3> QED
        BY <3>1, <3>2
    <2> QED
      BY <1>1, <2>1, <2>2 DEF RingInv, Exhausted, PoisonedRing
  <1> QED
    BY <1>4, <1>5

LEMMA RingInvInductive == RingSpec => []RingInv
  <1>1. RingInit => RingInv
    BY EmptyRingIsWindow, RingAssumption DEF RingInit, RingInv, Exhausted
  <1>2. RingInv /\ [RingNext]_ringVars => RingInv'
    <2> SUFFICES ASSUME RingInv, [RingNext]_ringVars PROVE RingInv'
      OBVIOUS
    <2>1. ASSUME NEW n \in 0..MaxChunk, Push(n) PROVE RingInv'
      BY <2>1, PushKeepsRingInv, RingAssumption
    <2>2. CASE UNCHANGED ringVars
      BY <2>2 DEF ringVars, RingInv, Exhausted, IsWindow
    <2> QED
      BY <2>1, <2>2 DEF RingNext
  <1> QED
    BY <1>1, <1>2, PTL DEF RingSpec

-----------------------------------------------------------------------------
LEMMA RingInvTypeOK == RingInv => RingTypeOK
  <1> SUFFICES ASSUME RingInv PROVE RingTypeOK
    OBVIOUS
  <1>1. CASE Exhausted
    <2>1. << >> \in Seq(Nat) /\ MaxSeq \in 0..MaxSeq
      BY RingAssumption
    <2>2. ASSUME NEW e \in Seq(Nat)
          PROVE  [start |-> MaxSeq, next |-> MaxSeq, data |-> e]
                   \in [start : 0..MaxSeq, next : 0..MaxSeq, data : Seq(Nat)]
      BY <2>1
    <2>3. ring = [start |-> MaxSeq, next |-> MaxSeq, data |-> << >>]
      BY <1>1 DEF RingInv, PoisonedRing
    <2>4. ring \in [start : 0..MaxSeq, next : 0..MaxSeq, data : Seq(Nat)]
      BY <2>1, <2>2, <2>3
    <2> QED
      BY <2>4 DEF RingInv, RingTypeOK
  <1>2. CASE ~Exhausted
    <2>1. produced \in 0..MaxSeq /\ WindowStart(produced) \in 0..MaxSeq
      BY <1>2, RingAssumption DEF RingInv, Exhausted, WindowStart
    <2>2. /\ ring = [start |-> WindowStart(produced), next |-> produced,
                     data |-> ring.data]
          /\ ring.data \in Seq(Nat)
      BY <1>2 DEF RingInv, IsWindow
    <2> QED
      BY <2>1, <2>2 DEF RingTypeOK, RingInv
  <1> QED
    BY <1>1, <1>2

(***************************************************************************)
(* The ring is well typed after any sequence of pushes.                    *)
(***************************************************************************)
THEOREM RingTypeCorrect == RingSpec => []RingTypeOK
  BY RingInvInductive, RingInvTypeOK, PTL

(***************************************************************************)
(* The ring always holds exactly the last bytes of the stream              *)
(* (PtyRingBuffer::push, ring.rs:24-52).                                   *)
(***************************************************************************)
THEOREM RingHoldsSuffix == RingSpec => []WindowIsSuffix
  <1>1. RingInv => WindowIsSuffix
    BY DEF RingInv, WindowIsSuffix, IsWindow, WindowStart
  <1> QED
    BY <1>1, RingInvInductive, PTL

(***************************************************************************)
(* Every replay the ring serves is exact (replay_from, ring.rs:54-69).     *)
(***************************************************************************)
THEOREM RingReplaysExactly == RingSpec => []ReplayIsExact
  <1>1. RingInv => ReplayIsExact
    <2> SUFFICES ASSUME RingInv, ~Exhausted, NEW seq \in 0..MaxSeq,
                        HasReplay(ring, seq)
                 PROVE  Stretch(ReplayFrom(ring, seq), seq, produced)
      BY DEF ReplayIsExact
    <2>1. produced \in Nat /\ IsWindow(ring, produced) /\ seq \in Nat
      BY RingAssumption DEF RingInv
    <2> QED
      BY <2>1, ReplayIsStretch
  <1> QED
    BY <1>1, RingInvInductive, PTL

(***************************************************************************)
(* No push moves an offset back, the one that exhausts the counter         *)
(* included (push, ring.rs:24-52).                                         *)
(***************************************************************************)
THEOREM RingOffsetsAdvance == RingSpec => OffsetsAdvance
  <1> DEFINE Forward == /\ ring'.next >= ring.next
                        /\ ring'.start >= ring.start
  <1>1. RingInv /\ RingInv' /\ [RingNext]_ringVars => [Forward]_ringVars
    <2> SUFFICES ASSUME RingInv, RingInv', NEW n \in 0..MaxChunk, Push(n)
                 PROVE  Forward
      BY DEF RingNext
    <2>1. produced \in Nat /\ n \in Nat /\ produced' = produced + n
      BY RingAssumption DEF RingInv, Push
    <2>2. CASE Exhausted
      <3>1. Exhausted'
        BY <2>1, <2>2, RingAssumption DEF Exhausted
      <3> QED
        BY <2>2, <3>1, RingAssumption DEF RingInv, PoisonedRing
    <2>3. CASE ~Exhausted
      <3>1. ring.next = produced /\ ring.start = WindowStart(produced)
        BY <2>3 DEF RingInv, IsWindow
      <3>2. CASE Exhausted'
        <4>1. ring'.next = MaxSeq /\ ring'.start = MaxSeq
          BY <3>2 DEF RingInv, PoisonedRing
        <4> QED
          BY <2>1, <2>3, <3>1, <4>1, RingAssumption DEF Exhausted, WindowStart
      <3>3. CASE ~Exhausted'
        <4>1. ring'.next = produced' /\ ring'.start = WindowStart(produced')
          BY <3>3 DEF RingInv, IsWindow
        <4> QED
          BY <2>1, <3>1, <4>1, RingAssumption DEF WindowStart
      <3> QED
        BY <3>2, <3>3
    <2> QED
      BY <2>2, <2>3
  <1> QED
    BY <1>1, RingInvInductive, PTL DEF RingSpec, OffsetsAdvance

=============================================================================
