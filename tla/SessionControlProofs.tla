-------------------------- MODULE SessionControlProofs ------------------------
(***************************************************************************)
(* Proofs about SessionControl, for any clients, sizes and limits.         *)
(***************************************************************************)
EXTENDS SessionControl, NaturalsInduction, WellFoundedInduction,
        SequenceTheorems, TLAPS

-----------------------------------------------------------------------------
(***************************************************************************)
(* Types.                                                                  *)
(***************************************************************************)
Pairs == [cols : Nat, rows : Nat]
Appliers == {NoApply, [pc |-> "read"], [pc |-> "ended"]}
              \cup [pc : {"apply"}, size : Pairs]

ViewTyped ==
  /\ sizes \in [Clients -> Sizes \cup {None}]
  /\ pinged \in BOOLEAN /\ crossed \in BOOLEAN
  /\ applier \in [Clients \cup {Resizer} -> Appliers]

Simple == {[pc |-> p] : p \in {"top", "poll", "write", "exit", "final", "announce",
                               "gone"}}
Reading == [pc : {"read", "infer"}, n : Nat, w : BOOLEAN, last : BOOLEAN]

IoTyped ==
  /\ io \in Simple \cup Reading
  /\ queue \in Seq(Seq(Nat)) /\ Len(queue) <= QueueCapacity
  /\ pending \in Seq(Nat) /\ accepted \in Seq(Nat) /\ written \in Seq(Nat)
  /\ acts \in Nat

AgentTyped ==
  /\ state \in AgentState
  /\ silence \in 0 .. IdleAfter /\ worked \in {None} \cup 0 .. BuildMin
  /\ setter \in [Clients -> AgentState \cup {None}]
  /\ pushes \subseteq {"awaiting", "build", "crashed"}

ExitTyped ==
  /\ exit \in {None, 0, 1}
  /\ exit = None <=> io.pc \notin {"final", "announce", "gone"}
  /\ raced \in BOOLEAN

\* Least is what its name says.
LEMMA LeastIsLeast ==
  ASSUME NEW S, S \subseteq Nat, S # {}
  PROVE  Least(S) \in S /\ \A m \in S : Least(S) <= m
  <1>1. IsWellFoundedOn(OpToRel(<, Nat), Nat)
    BY NatLessThanWellFounded
  <1>2. PICK n \in S : \A m \in S : ~(<<m, n>> \in OpToRel(<, Nat))
    BY <1>1, WFMin
  <1>3. \A m \in S : n <= m
    <2> TAKE m \in S
    <2>1. m \in Nat /\ n \in Nat
      OBVIOUS
    <2>2. ~(m < n)
      BY <1>2, <2>1 DEF OpToRel
    <2> QED
      BY <2>1, <2>2
  <1> QED
    BY <1>3 DEF Least

LEMMA MinimumTyped ==
  ASSUME ViewTyped
  PROVE  /\ Attached = {} => Minimum(Attached) = None
         /\ Attached # {} => Minimum(Attached) \in Pairs /\ Minimum(Attached) # None
  <1>1. Attached \subseteq Pairs
    BY ControlAssumption DEF Attached, ViewTyped, Pairs
  <1>2. ASSUME Attached # {} PROVE Minimum(Attached) \in Pairs
    <2> DEFINE C == {s.cols : s \in Attached}
               R == {s.rows : s \in Attached}
    <2>1. C \subseteq Nat /\ R \subseteq Nat /\ C # {} /\ R # {}
      BY <1>1, <1>2 DEF Pairs
    <2>2. Least(C) \in Nat /\ Least(R) \in Nat
      BY <2>1, LeastIsLeast
    <2>3. Minimum(Attached) = [cols |-> Least(C), rows |-> Least(R)]
      BY <1>2 DEF Minimum, min_client_size
    <2> HIDE DEF C, R
    <2> QED
      BY <2>2, <2>3 DEF Pairs
  <1> QED
    BY <1>2, ControlAssumption DEF Minimum, min_client_size, Pairs

-----------------------------------------------------------------------------
(***************************************************************************)
(* The viewport.                                                           *)
(***************************************************************************)

\* While no two resizes cross and none fails: at most one is being applied, and
\* unless another is on its way the PTY has, or is being given, the minimum.
Applying(a) == applier[a].pc = "apply"
Pending == pinged \/ \E a \in Clients \cup {Resizer} : applier[a].pc = "read"
GivesMinimum(a) == Applying(a) /\ applier[a].size = Minimum(Attached)

ViewInv ==
  ~crossed /\ exit = None =>
    /\ \A a, b \in Clients \cup {Resizer} : Applying(a) /\ Applying(b) => a = b
    /\ ~Pending /\ Attached # {} =>
         \/ \E a \in Clients \cup {Resizer} : GivesMinimum(a)
         \/ /\ pty = Minimum(Attached)
            /\ \A a \in Clients \cup {Resizer} : ~Applying(a)

\* The exit code, once set, stays.
LEMMA ExitStays ==
  ASSUME ExitTyped, [Next]_vars
  PROVE  exit' = exit \/ (exit = None /\ io.pc = "exit" /\ exit' # None)
  <1> USE DEF ending, vars, Silent
  <1>1. CASE MarkExited
    <2>1. exit = None /\ exit' \in {0, 1}
      BY <1>1 DEF MarkExited, ExitTyped, ExitCode
    <2> QED
      BY <1>1, <2>1, ControlAssumption DEF MarkExited
  <1>2. ASSUME UNCHANGED exit PROVE exit' = exit
    BY <1>2
  <1> QED
    BY <1>1, <1>2 DEF Next, Io, IdleThread, AttachClient, UpdateClientSize,
       DetachClient, AgentStateEvent, WriteInput, FinishSetState, WakeResizer,
       ReadMinimum, Resize, IoTop, Poll, Read, Infer, Write, SetFinalState,
       Announce, IdleReads, IdleJudges, IdleSets, Tick, ChildPrints,
       ChildReads, ChildExits, Kill

\* A client or the resize thread begins to read the minimum, or a message is
\* sent: whatever the sizes are, the PTY will be given their minimum.
LEMMA PendingKeeps ==
  ASSUME ViewTyped, ViewInv, crossed' = crossed,
         exit' = exit \/ exit' # None, Pending',
         \A a \in Clients \cup {Resizer} : Applying(a)' => Applying(a)
  PROVE  ViewInv'
  BY DEF ViewInv, ViewTyped

LEMMA ViewFrame ==
  ASSUME ViewTyped, ViewInv, UNCHANGED viewports, exit' = exit \/ exit' # None
  PROVE  ViewTyped' /\ ViewInv'
  <1> USE DEF viewports
  <1>1. ViewTyped'
    BY DEF ViewTyped
  <1>2. Attached' = Attached /\ (Pending' <=> Pending)
    BY DEF Attached, Pending
  <1>3. \A a \in Clients \cup {Resizer} :
          (Applying(a)' <=> Applying(a)) /\ (GivesMinimum(a)' <=> GivesMinimum(a))
    BY <1>2 DEF Applying, GivesMinimum
  <1> QED
    BY <1>1, <1>2, <1>3 DEF ViewInv

LEMMA ViewStep ==
  ASSUME ViewTyped, ViewInv, ExitTyped, [Next]_vars
  PROVE  ViewTyped' /\ ViewInv'
  <1> USE DEF viewports
  <1>e. exit' = exit \/ exit' # None
    BY ExitStays
  <1>t. /\ sizes \in [Clients -> Sizes \cup {None}]
        /\ applier \in [Clients \cup {Resizer} -> Appliers]
        /\ NoApply \in Appliers /\ [pc |-> "read"] \in Appliers
        /\ [pc |-> "ended"] \in Appliers
    BY DEF ViewTyped, Appliers
  <1>1. ASSUME NEW c \in Clients, NEW size \in Sizes, AttachClient(c, size)
        PROVE  ViewTyped' /\ ViewInv'
    <2>1. ViewTyped'
      BY <1>1, <1>t DEF AttachClient, ViewTyped
    <2>2. applier' = [applier EXCEPT ![c] = [pc |-> "read"]] /\ UNCHANGED crossed
      BY <1>1 DEF AttachClient
    <2>3. applier'[c].pc = "read"
      BY <1>t, <2>2
    <2>4. Pending'
      BY <2>3 DEF Pending
    <2>5. \A a \in Clients \cup {Resizer} : Applying(a)' => Applying(a)
      BY <1>t, <2>2 DEF Applying
    <2> QED
      BY <1>e, <2>1, <2>2, <2>4, <2>5, PendingKeeps
  <1>2. ASSUME NEW c \in Clients,
               (\E size \in Sizes : UpdateClientSize(c, size)) \/ DetachClient(c)
        PROVE  ViewTyped' /\ ViewInv'
    <2>1. /\ sizes' \in [Clients -> Sizes \cup {None}]
          /\ pinged' = TRUE /\ UNCHANGED <<applier, crossed>>
      BY <1>2, <1>t DEF UpdateClientSize, DetachClient
    <2>2. ViewTyped' /\ Pending'
      BY <2>1 DEF ViewTyped, Pending
    <2>3. \A a \in Clients \cup {Resizer} : Applying(a)' => Applying(a)
      BY <2>1 DEF Applying
    <2> QED
      BY <1>e, <2>1, <2>2, <2>3, PendingKeeps
  <1>3. CASE WakeResizer
    <2>1. ViewTyped'
      BY <1>3, <1>t DEF WakeResizer, ViewTyped
    <2>2. UNCHANGED crossed
      BY <1>3 DEF WakeResizer
    <2>3. CASE exit' # None
      BY <2>1, <2>3 DEF ViewInv
    <2>4. CASE exit = None
      <3>1. applier' = [applier EXCEPT ![Resizer] = [pc |-> "read"]]
        BY <1>3, <2>4 DEF WakeResizer
      <3>2. applier'[Resizer].pc = "read"
        BY <1>t, <3>1
      <3>3. Pending'
        BY <3>2 DEF Pending
      <3>4. \A a \in Clients \cup {Resizer} : Applying(a)' => Applying(a)
        BY <1>t, <3>1 DEF Applying
      <3> QED
        BY <1>e, <2>1, <2>2, <3>3, <3>4, PendingKeeps
    <2> QED
      BY <1>e, <2>3, <2>4
  <1>4. ASSUME NEW a \in Clients \cup {Resizer}, ReadMinimum(a)
        PROVE  ViewTyped' /\ ViewInv'
    <2> DEFINE size == Minimum(Attached)
               next == IF size = None THEN NoApply ELSE [pc |-> "apply", size |-> size]
    <2>1. /\ applier' = [applier EXCEPT ![a] = next]
          /\ crossed' = (crossed \/ \E b \in DOMAIN applier \ {a} :
                                       applier[b].pc = "apply")
          /\ UNCHANGED <<sizes, pty, pinged, exit>>
      BY <1>4 DEF ReadMinimum, ending
    <2>2. /\ Attached = {} => size = None
          /\ Attached # {} => size \in Pairs /\ size # None
      BY MinimumTyped
    <2> HIDE DEF size
    <2>3. next \in Appliers
      BY <2>2, ControlAssumption DEF Appliers, Pairs
    <2> HIDE DEF next
    <2>4. ViewTyped'
      BY <1>t, <2>1, <2>3 DEF ViewTyped
    <2>5. applier'[a] = next /\ \A b \in (Clients \cup {Resizer}) \ {a} : applier'[b] = applier[b]
      BY <1>t, <2>1
    <2>6. SUFFICES ASSUME ~crossed', exit' = None PROVE ViewInv'
      BY <2>4 DEF ViewInv
    <2>7. ~crossed /\ \A b \in (Clients \cup {Resizer}) \ {a} : ~Applying(b)
      BY <1>t, <2>1, <2>6 DEF Applying
    <2>8. \A b \in Clients \cup {Resizer} : Applying(b)' => b = a
      BY <2>5, <2>7 DEF Applying
    <2>9. Attached' = Attached /\ Minimum(Attached)' = size
      BY <2>1 DEF Attached, size, Minimum, min_client_size
    <2>10. Attached # {} => GivesMinimum(a)'
      <3> SUFFICES ASSUME Attached # {} PROVE GivesMinimum(a)'
        OBVIOUS
      <3>1. next = [pc |-> "apply", size |-> size]
        BY <2>2 DEF next
      <3>2. applier'[a].pc = "apply" /\ applier'[a].size = size
        BY <2>5, <3>1
      <3> QED
        BY <2>9, <3>2 DEF GivesMinimum, Applying
    <2> QED
      BY <2>8, <2>9, <2>10 DEF ViewInv
  <1>5. ASSUME NEW a \in Clients \cup {Resizer}, Resize(a)
        PROVE  ViewTyped' /\ ViewInv'
    <2>1. /\ Applying(a) /\ applier' = [applier EXCEPT ![a] = NoApply]
          /\ UNCHANGED <<sizes, pinged, exit>>
          /\ \/ pty' = applier[a].size /\ UNCHANGED crossed
             \/ UNCHANGED pty /\ crossed' = TRUE
      BY <1>5 DEF Resize, Applying, ending
    <2>2. ViewTyped'
      BY <1>t, <2>1 DEF ViewTyped
    <2>3. SUFFICES ASSUME ~crossed', exit' = None PROVE ViewInv'
      BY <2>2 DEF ViewInv
    <2>4. pty' = applier[a].size /\ ~crossed /\ exit = None
      BY <2>1, <2>3
    <2>5. \A b \in Clients \cup {Resizer} : Applying(b) => b = a
      BY <2>1, <2>4 DEF ViewInv
    <2>6. \A b \in Clients \cup {Resizer} : ~Applying(b)'
      BY <1>t, <2>1, <2>5 DEF Applying, NoApply
    <2>7. Attached' = Attached /\ Minimum(Attached)' = Minimum(Attached)
      BY <2>1 DEF Attached, Minimum, min_client_size
    <2>8. Pending => Pending'
      <3>1. \A b \in Clients \cup {Resizer} :
              applier[b].pc = "read" => applier'[b].pc = "read"
        BY <1>t, <2>1 DEF Applying
      <3> QED
        BY <2>1, <3>1 DEF Pending
    <2>9. ~Pending /\ Attached # {} => pty' = Minimum(Attached)
      BY <2>1, <2>4, <2>5 DEF ViewInv, GivesMinimum
    <2> QED
      BY <2>6, <2>7, <2>8, <2>9 DEF ViewInv
  <1>6. ASSUME UNCHANGED viewports PROVE ViewTyped' /\ ViewInv'
    BY <1>e, <1>6, ViewFrame
  <1>7. ASSUME Io \/ IdleThread \/ Tick \/ ChildPrints \/ ChildReads \/ ChildExits \/ Kill
        PROVE  UNCHANGED viewports
    BY <1>7 DEF Io, IdleThread, vars, Silent, Acting, IoTop, Poll, Read,
       Infer, Write, MarkExited, SetFinalState, Announce, IdleReads,
       IdleJudges, IdleSets, Tick, ChildPrints, ChildReads, ChildExits, Kill
  <1>8. ASSUME NEW c \in Clients,
               \/ \E new \in AgentState : AgentStateEvent(c, new)
               \/ WriteInput(c, NextBytes) \/ FinishSetState(c)
        PROVE  UNCHANGED viewports
    BY <1>8 DEF AgentStateEvent, WriteInput, FinishSetState
  <1>9. CASE UNCHANGED vars
    BY <1>6, <1>9 DEF vars
  <1> QED
    BY <1>1, <1>2, <1>3, <1>4, <1>5, <1>6, <1>7, <1>8, <1>9 DEF Next

-----------------------------------------------------------------------------
(***************************************************************************)
(* The types of the other variables.                                       *)
(***************************************************************************)

LEMMA SetStateTyped ==
  ASSUME AgentTyped, NEW new \in AgentState, SetState(new)
  PROVE  /\ state' \in AgentState /\ worked' \in {None} \cup 0 .. BuildMin
         /\ pushes' \subseteq {"awaiting", "build", "crashed"}
         /\ "crashed" \in pushes' <=> "crashed" \in pushes
  <1>1. CASE new = state
    BY <1>1 DEF SetState, AgentTyped
  <1>2. CASE new # state
    <2>1. state' \in AgentState
      BY <1>2 DEF SetState
    <2>2. worked' = 0 \/ worked' = None
      BY <1>2 DEF SetState
    <2>3. \E P \in {{}, {"awaiting"}, {"build"}} : pushes' = pushes \cup P
      BY <1>2 DEF SetState
    <2>4. 0 \in 0 .. BuildMin
      BY ControlAssumption
    <2>5. /\ pushes' \subseteq {"awaiting", "build", "crashed"}
          /\ "crashed" \in pushes' <=> "crashed" \in pushes
      BY <2>3 DEF AgentTyped
    <2> QED
      BY <2>1, <2>2, <2>4, <2>5
  <1> QED
    BY <1>1, <1>2

LEMMA AgentTypedStep ==
  ASSUME AgentTyped, ExitTyped, [Next]_vars
  PROVE  AgentTyped'
  <1> USE DEF viewports, agent, input, ending, vars, Silent, Acting
  <1>1. ASSUME NEW c \in Clients, NEW new \in AgentState,
               AgentStateEvent(c, new)
        PROVE  AgentTyped'
    BY <1>1 DEF AgentStateEvent, AgentTyped
  <1>2. ASSUME NEW c \in Clients, WriteInput(c, NextBytes) PROVE AgentTyped'
    BY <1>2, ControlAssumption DEF WriteInput, AgentTyped, AgentState
  <1>3. ASSUME NEW c \in Clients, FinishSetState(c) PROVE AgentTyped'
    <2>1. setter[c] \in AgentState
      BY <1>3 DEF FinishSetState, AgentTyped
    <2> QED
      BY <1>3, <2>1, SetStateTyped DEF FinishSetState, AgentTyped
  <1>4. ASSUME Read PROVE AgentTyped'
    BY <1>4, ControlAssumption DEF Read, AgentTyped
  <1>5. ASSUME Infer PROVE AgentTyped'
    <2>1. PICK inferred \in AgentState :
            IF inferred = "Idle" THEN UNCHANGED <<state, worked, pushes>>
            ELSE SetState(inferred)
      BY <1>5 DEF Infer
    <2>2. /\ state' \in AgentState /\ worked' \in {None} \cup 0 .. BuildMin
          /\ pushes' \subseteq {"awaiting", "build", "crashed"}
      BY <2>1, SetStateTyped DEF AgentTyped
    <2> QED
      BY <1>5, <2>2 DEF Infer, AgentTyped
  <1>6. ASSUME SetFinalState PROVE AgentTyped'
    <2>1. state' \in AgentState
      BY <1>6 DEF SetFinalState, FinalState, AgentState
    <2> QED
      BY <1>6, <2>1 DEF SetFinalState, AgentTyped
  <1>7. ASSUME Announce PROVE AgentTyped'
    BY <1>7 DEF Announce, AgentTyped, Announce
  <1>8. ASSUME IdleSets PROVE AgentTyped'
    <2>1. "Idle" \in AgentState
      BY DEF AgentState
    <2> QED
      BY <1>8, <2>1, SetStateTyped DEF IdleSets, AgentTyped
  <1>9. ASSUME Tick PROVE AgentTyped'
    <2>1. silence' \in 0 .. IdleAfter
      BY <1>9, ControlAssumption DEF Tick, AgentTyped, Smaller
    <2>2. worked' \in {None} \cup 0 .. BuildMin
      BY <1>9, ControlAssumption DEF Tick, AgentTyped, Smaller
    <2> QED
      BY <1>9, <2>1, <2>2 DEF Tick, AgentTyped
  <1>10. ASSUME UNCHANGED <<state, silence, worked, setter, pushes>>
         PROVE  AgentTyped'
    BY <1>10 DEF AgentTyped
  <1>11. ASSUME NEW c \in Clients, NEW size \in Sizes,
               AttachClient(c, size) \/ UpdateClientSize(c, size)
         PROVE  AgentTyped'
    BY <1>11, <1>10 DEF AttachClient, UpdateClientSize
  <1>12. ASSUME NEW c \in Clients,
               DetachClient(c)
         PROVE  AgentTyped'
    BY <1>12, <1>10 DEF DetachClient
  <1>13. ASSUME WakeResizer \/ IoTop \/ Poll \/ Write \/ MarkExited \/ IdleReads \/ IdleJudges \/ ChildPrints \/ ChildReads \/ ChildExits \/ Kill PROVE AgentTyped'
    BY <1>13, <1>10 DEF WakeResizer, IoTop, Poll, Write, MarkExited,
       IdleReads, IdleJudges, ChildPrints, ChildReads, ChildExits, Kill
  <1>14. ASSUME NEW a \in Clients \cup {Resizer},
               ReadMinimum(a) \/ Resize(a)
         PROVE  AgentTyped'
    BY <1>14, <1>10 DEF ReadMinimum, Resize
  <1> QED
    BY <1>1, <1>2, <1>3, <1>4, <1>5, <1>6, <1>7, <1>8, <1>9, <1>10, <1>11,
       <1>12, <1>13, <1>14 DEF Next, Io, IdleThread


LEMMA AfterReadsTyped == AfterReads \in Simple
  BY DEF AfterReads, Simple

LEMMA IoTypedStep ==
  ASSUME IoTyped, [Next]_vars
  PROVE  IoTyped'
  <1> USE DEF viewports, agent, input, ending, vars, Silent, Acting
  <1>1. ASSUME NEW c \in Clients, NEW size \in Sizes, AttachClient(c, size)
        PROVE  IoTyped'
    BY <1>1 DEF AttachClient, IoTyped
  <1>2. ASSUME NEW c \in Clients, NEW size \in Sizes,
               UpdateClientSize(c, size)
        PROVE  IoTyped'
    BY <1>2 DEF UpdateClientSize, IoTyped
  <1>3. ASSUME NEW c \in Clients, NEW new \in AgentState,
               AgentStateEvent(c, new)
        PROVE  IoTyped'
    BY <1>3 DEF AgentStateEvent, IoTyped
  <1>4. ASSUME NEW c \in Clients, WriteInput(c, NextBytes) PROVE IoTyped'
    <2>1. acts' \in Nat /\ NextBytes \in Seq(Nat) /\ UNCHANGED <<io, pending, written>>
      BY <1>4 DEF WriteInput, IoTyped, NextBytes
    <2> HIDE DEF NextBytes
    <2>2. CASE UNCHANGED <<queue, accepted>>
      BY <2>1, <2>2 DEF IoTyped
    <2>3. CASE /\ queue' = Append(queue, NextBytes) /\ QueueHasRoom
               /\ accepted' = accepted \o NextBytes
      <3>1. queue' \in Seq(Seq(Nat)) /\ Len(queue') = Len(queue) + 1
        BY <2>1, <2>3, AppendProperties DEF IoTyped
      <3>2. accepted' \in Seq(Nat)
        BY <2>1, <2>3, ConcatProperties DEF IoTyped
      <3>3. Len(queue') <= QueueCapacity
        BY <2>3, <3>1, ControlAssumption DEF QueueHasRoom, IoTyped
      <3> QED
        BY <2>1, <3>1, <3>2, <3>3 DEF IoTyped
    <2> QED
      BY <1>4, <2>2, <2>3 DEF WriteInput
  <1>5. ASSUME IoTop PROVE IoTyped'
    <2>1. io' \in Simple \cup Reading /\ UNCHANGED <<accepted, written, acts>>
      <3>1. \/ io' \in {[pc |-> "exit"], [pc |-> "poll"]}
            \/ io' = [pc |-> "read", n |-> 0, w |-> FALSE, last |-> TRUE]
        BY <1>5 DEF IoTop
      <3>2. [pc |-> "read", n |-> 0, w |-> FALSE, last |-> TRUE] \in Reading
        BY DEF Reading
      <3> QED
        BY <1>5, <3>1, <3>2 DEF IoTop, Simple
    <2>2. CASE UNCHANGED <<queue, pending>>
      BY <2>1, <2>2 DEF IoTyped
    <2>3. CASE queue # <<>> /\ pending' = Head(queue) /\ queue' = Tail(queue)
      <3>1. /\ Head(queue) \in Seq(Nat) /\ Tail(queue) \in Seq(Seq(Nat))
            /\ Len(Tail(queue)) = Len(queue) - 1 /\ Len(queue) \in Nat
        BY <2>3, HeadTailProperties DEF IoTyped
      <3> QED
        <4>1. Len(queue') <= QueueCapacity
          <5>1. Len(queue) <= QueueCapacity /\ QueueCapacity \in Nat
            BY ControlAssumption DEF IoTyped
          <5>2. Len(queue') = Len(queue) - 1
            BY <2>3, <3>1
          <5> QED
            BY <3>1, <5>1, <5>2
        <4> QED
          BY <2>1, <2>3, <3>1, <4>1 DEF IoTyped
    <2> QED
      BY <1>5, <2>2, <2>3 DEF IoTop
  <1>6. ASSUME Poll PROVE IoTyped'
    <2> DEFINE w == pending # <<>> /\ room
    <2>1. room \in BOOLEAN => w \in BOOLEAN
      OBVIOUS
    <2>2. io' \in Simple \cup Reading
      BY <1>6 DEF Poll, Simple, Reading
    <2> QED
      BY <1>6, <2>2 DEF Poll, IoTyped
  <1>7. ASSUME Read PROVE IoTyped'
    <2>1. io \in Reading
      BY <1>7 DEF Read, IoTyped, Simple
    <2>2. io' \in Simple \cup Reading
      <3>1. CASE io' \in {AfterReads, [pc |-> "exit"]}
        BY <3>1, AfterReadsTyped DEF Simple
      <3>2. CASE io' = [io EXCEPT !.pc = "infer", !.n = Smaller(io.n + 1, MaxReads)]
        <4> DEFINE k == Smaller(io.n + 1, MaxReads)
        <4>1. k \in Nat
          BY <2>1, ControlAssumption DEF Reading, Smaller
        <4>2. io' = [io EXCEPT !.pc = "infer", !.n = k]
          BY <3>2
        <4> HIDE DEF k
        <4> QED
          BY <2>1, <4>1, <4>2 DEF Reading
      <3> QED
        BY <1>7, <3>1, <3>2 DEF Read
    <2> QED
      BY <1>7, <2>2 DEF Read, IoTyped
  <1>8. ASSUME Infer PROVE IoTyped'
    <2>1. io \in Reading
      BY <1>8 DEF Infer, IoTyped, Simple
    <2>2. io' \in Reading
      BY <1>8, <2>1 DEF Infer, Reading
    <2> QED
      BY <1>8, <2>2 DEF Infer, IoTyped
  <1>9. ASSUME Write PROVE IoTyped'
    <2>1. io' \in Simple /\ UNCHANGED <<queue, accepted, acts>>
      BY <1>9 DEF Write, Simple
    <2>2. CASE UNCHANGED <<written, pending>>
      BY <2>1, <2>2 DEF IoTyped
    <2>3. ASSUME NEW n \in 1 .. Len(pending),
                 written' = written \o SubSeq(pending, 1, n),
                 pending' = Remaining(pending, n)
          PROVE  IoTyped'
      <3>1. /\ pending \in Seq(Nat) /\ Len(pending) \in Nat
        BY DEF IoTyped
      <3>2. SubSeq(pending, 1, n) \in Seq(Nat) /\ SubSeq(pending, n + 1, Len(pending)) \in Seq(Nat)
        BY <3>1, SubSeqProperties
      <3>3. written' \in Seq(Nat)
        BY <2>3, <3>2, ConcatProperties DEF IoTyped
      <3> QED
        BY <2>1, <2>3, <3>2, <3>3 DEF IoTyped, Remaining
    <2> QED
      BY <1>9, <2>2, <2>3 DEF Write
  <1>10. ASSUME MarkExited PROVE IoTyped'
    BY <1>10 DEF MarkExited, IoTyped, Simple
  <1>11. ASSUME SetFinalState PROVE IoTyped'
    BY <1>11 DEF SetFinalState, IoTyped, Simple
  <1>12. ASSUME Announce PROVE IoTyped'
    BY <1>12 DEF Announce, IoTyped, Simple
  <1>13. ASSUME ChildPrints PROVE IoTyped'
    BY <1>13 DEF ChildPrints, IoTyped
  <1>14. ASSUME UNCHANGED <<acts, queue, pending, io, accepted, written>>
         PROVE  IoTyped'
    BY <1>14 DEF IoTyped
  <1>15. ASSUME NEW c \in Clients,
               DetachClient(c) \/ FinishSetState(c)
         PROVE  IoTyped'
    BY <1>15, <1>14 DEF DetachClient, FinishSetState
  <1>16. ASSUME WakeResizer \/ IdleReads \/ IdleJudges \/ IdleSets \/ Tick \/ ChildReads \/ ChildExits \/ Kill PROVE IoTyped'
    BY <1>16, <1>14 DEF WakeResizer, IdleReads, IdleJudges, IdleSets, Tick,
       ChildReads, ChildExits, Kill
  <1>17. ASSUME NEW a \in Clients \cup {Resizer},
               ReadMinimum(a) \/ Resize(a)
         PROVE  IoTyped'
    BY <1>17, <1>14 DEF ReadMinimum, Resize
  <1> QED
    BY <1>1, <1>2, <1>3, <1>4, <1>5, <1>6, <1>7, <1>8, <1>9, <1>10, <1>11,
       <1>12, <1>13, <1>14, <1>15, <1>16, <1>17 DEF Next, Io, IdleThread

-----------------------------------------------------------------------------
(***************************************************************************)
(* The end of the session.                                                 *)
(***************************************************************************)

\* ExitTyped only looks at the exit code and the program counter of the thread
\* that sets it.
LEMMA ExitTypedStep ==
  ASSUME ExitTyped, IoTyped, [Next]_vars
  PROVE  ExitTyped'
  <1> USE DEF viewports, agent, input, ending, vars, Silent, Acting
  <1>1. ASSUME IoTop PROVE ExitTyped'
    BY <1>1 DEF IoTop, ExitTyped
  <1>2. ASSUME Poll PROVE ExitTyped'
    BY <1>2 DEF Poll, ExitTyped
  <1>3. ASSUME Read PROVE ExitTyped'
    <2>1. io'.pc \in {"exit", "write", "top", "infer"}
      <3>1. CASE io' \in {AfterReads, [pc |-> "exit"]}
        BY <3>1 DEF AfterReads
      <3>2. CASE io' = [io EXCEPT !.pc = "infer", !.n = Smaller(io.n + 1, MaxReads)]
        <4>1. io \in Reading
          BY <1>3 DEF Read, IoTyped, Simple
        <4> QED
          BY <3>2, <4>1 DEF Reading
      <3> QED
        BY <1>3, <3>1, <3>2 DEF Read
    <2> QED
      BY <1>3, <2>1 DEF Read, ExitTyped
  <1>4. ASSUME Infer PROVE ExitTyped'
    <2>1. io \in Reading
      BY <1>4 DEF Infer, IoTyped, Simple
    <2>2. io'.pc = "read"
      BY <1>4, <2>1 DEF Infer, Reading
    <2> QED
      BY <1>4, <2>2 DEF Infer, ExitTyped
  <1>5. ASSUME Write PROVE ExitTyped'
    BY <1>5 DEF Write, ExitTyped
  <1>6. ASSUME MarkExited PROVE ExitTyped'
    <2>1. exit' \in {0, 1} /\ io' = [pc |-> "final"] /\ raced' \in BOOLEAN
      BY <1>6 DEF MarkExited, ExitCode
    <2> QED
      BY <1>6, <2>1, ControlAssumption DEF MarkExited, ExitTyped
  <1>7. ASSUME SetFinalState PROVE ExitTyped'
    BY <1>7 DEF SetFinalState, ExitTyped
  <1>8. ASSUME Announce PROVE ExitTyped'
    BY <1>8 DEF Announce, ExitTyped
  <1>9. ASSUME UNCHANGED <<exit, raced, io>> PROVE ExitTyped'
    BY <1>9 DEF ExitTyped
  <1>10. ASSUME NEW c \in Clients, NEW size \in Sizes,
               AttachClient(c, size) \/ UpdateClientSize(c, size)
         PROVE  ExitTyped'
    BY <1>10, <1>9 DEF AttachClient, UpdateClientSize
  <1>11. ASSUME NEW c \in Clients,
               DetachClient(c) \/ FinishSetState(c)
         PROVE  ExitTyped'
    BY <1>11, <1>9 DEF DetachClient, FinishSetState
  <1>12. ASSUME NEW c \in Clients, NEW new \in AgentState,
               AgentStateEvent(c, new)
         PROVE  ExitTyped'
    BY <1>12, <1>9 DEF AgentStateEvent
  <1>13. ASSUME NEW c \in Clients,
               WriteInput(c, NextBytes)
         PROVE  ExitTyped'
    BY <1>13, <1>9 DEF WriteInput
  <1>14. ASSUME WakeResizer \/ IdleReads \/ IdleJudges \/ IdleSets \/ Tick \/ ChildPrints \/ ChildReads \/ ChildExits \/ Kill PROVE ExitTyped'
    BY <1>14, <1>9 DEF WakeResizer, IdleReads, IdleJudges, IdleSets, Tick,
       ChildPrints, ChildReads, ChildExits, Kill
  <1>15. ASSUME NEW a \in Clients \cup {Resizer},
               ReadMinimum(a) \/ Resize(a)
         PROVE  ExitTyped'
    BY <1>15, <1>9 DEF ReadMinimum, Resize
  <1> QED
    BY <1>1, <1>2, <1>3, <1>4, <1>5, <1>6, <1>7, <1>8, <1>9, <1>10, <1>11,
       <1>12, <1>13, <1>14, <1>15 DEF Next, Io, IdleThread

\* Unless a thread had checked that the session runs and not yet set its state
\* when the exit code was stored, nobody sets the state any more.
FinalInv ==
  exit # None /\ ~raced =>
    /\ \A c \in Clients : setter[c] = None
    /\ idle.pc \notin {"judge", "set"}
    /\ io.pc \in {"announce", "gone"} => state = FinalState(exit)
    /\ io.pc = "gone" => saved \in {None, FinalState(exit)}

LEMMA FinalStep ==
  ASSUME ExitTyped, AgentTyped, FinalInv, [Next]_vars
  PROVE  FinalInv'
  <1> USE DEF viewports, agent, input, ending, vars, Silent, Acting
  <1>1. ASSUME NEW c \in Clients, NEW new \in AgentState,
               AgentStateEvent(c, new)
        PROVE  FinalInv'
    BY <1>1 DEF AgentStateEvent, FinalInv, FinalState, StillRunning
  <1>2. ASSUME NEW c \in Clients, WriteInput(c, NextBytes) PROVE FinalInv'
    <2>1. setter' = [setter EXCEPT ![c] = IF StillRunning THEN "Working" ELSE None]
          \/ UNCHANGED setter
      BY <1>2 DEF WriteInput
    <2>2. UNCHANGED <<idle, state, io, exit, raced, saved>>
      BY <1>2 DEF WriteInput
    <2> QED
      BY <2>1, <2>2 DEF FinalInv, StillRunning, AgentTyped
  <1>3. ASSUME NEW c \in Clients, FinishSetState(c) PROVE FinalInv'
    <2>1. /\ setter[c] # None /\ setter' = [setter EXCEPT ![c] = None]
          /\ UNCHANGED <<idle, io, exit, raced, saved>>
      BY <1>3 DEF FinishSetState
    <2> QED
      BY <2>1 DEF FinalInv
  <1>4. ASSUME IoTop PROVE FinalInv'
    <2>1. exit' = None
      BY <1>4 DEF IoTop, ExitTyped
    <2> QED
      BY <2>1 DEF FinalInv
  <1>5. ASSUME Poll PROVE FinalInv'
    <2>1. exit' = None
      BY <1>5 DEF Poll, ExitTyped
    <2> QED
      BY <2>1 DEF FinalInv
  <1>6. ASSUME Read PROVE FinalInv'
    <2>1. exit' = None
      BY <1>6 DEF Read, ExitTyped
    <2> QED
      BY <2>1 DEF FinalInv
  <1>7. ASSUME Infer PROVE FinalInv'
    <2>1. exit' = None
      BY <1>7 DEF Infer, ExitTyped
    <2> QED
      BY <2>1 DEF FinalInv
  <1>8. ASSUME Write PROVE FinalInv'
    <2>1. exit' = None
      BY <1>8 DEF Write, ExitTyped
    <2> QED
      BY <2>1 DEF FinalInv
  <1>9. ASSUME MarkExited PROVE FinalInv'
    <2>1. io'.pc = "final" /\ UNCHANGED <<setter, idle>>
          /\ (~raced' => /\ \A c \in Clients : setter[c] = None
                         /\ idle.pc \notin {"judge", "set"})
      BY <1>9 DEF MarkExited
    <2> QED
      BY <2>1 DEF FinalInv
  <1>10. ASSUME SetFinalState PROVE FinalInv'
    <2>1. /\ state' = FinalState(exit) /\ io'.pc = "announce"
          /\ UNCHANGED <<setter, idle, exit, raced>>
      BY <1>10 DEF SetFinalState
    <2>2. exit # None
      BY <1>10 DEF SetFinalState, ExitTyped
    <2>3. FinalState(exit)' = FinalState(exit)
      BY <2>1 DEF FinalState
    <2> QED
      BY <2>1, <2>2, <2>3 DEF FinalInv
  <1>11. ASSUME Announce PROVE FinalInv'
    <2>1. /\ io.pc = "announce" /\ io'.pc = "gone" /\ saved' \in {None, state}
          /\ UNCHANGED <<setter, idle, exit, raced, state>>
      BY <1>11 DEF Announce
    <2>2. FinalState(exit)' = FinalState(exit)
      BY <2>1 DEF FinalState
    <2> QED
      BY <2>1, <2>2 DEF FinalInv
  <1>12. ASSUME IdleReads PROVE FinalInv'
    BY <1>12 DEF IdleReads, FinalInv, FinalState
  <1>13. ASSUME IdleJudges PROVE FinalInv'
    BY <1>13 DEF IdleJudges, FinalInv, FinalState
  <1>14. ASSUME IdleSets PROVE FinalInv'
    BY <1>14 DEF IdleSets, FinalInv, FinalState
  <1>15. ASSUME UNCHANGED <<exit, raced, setter, idle, io, state, saved>>
         PROVE  FinalInv'
    BY <1>15 DEF FinalInv, FinalState
  <1>16. ASSUME NEW c \in Clients, NEW size \in Sizes,
               AttachClient(c, size) \/ UpdateClientSize(c, size)
         PROVE  FinalInv'
    BY <1>16, <1>15 DEF AttachClient, UpdateClientSize
  <1>17. ASSUME NEW c \in Clients,
               DetachClient(c)
         PROVE  FinalInv'
    BY <1>17, <1>15 DEF DetachClient
  <1>18. ASSUME WakeResizer \/ Tick \/ ChildPrints \/ ChildReads \/ ChildExits \/ Kill PROVE FinalInv'
    BY <1>18, <1>15 DEF WakeResizer, Tick, ChildPrints, ChildReads,
       ChildExits, Kill
  <1>19. ASSUME NEW a \in Clients \cup {Resizer},
               ReadMinimum(a) \/ Resize(a)
         PROVE  FinalInv'
    BY <1>19, <1>15 DEF ReadMinimum, Resize
  <1> QED
    BY <1>1, <1>2, <1>3, <1>4, <1>5, <1>6, <1>7, <1>8, <1>9, <1>10, <1>11,
       <1>12, <1>13, <1>14, <1>15, <1>16, <1>17, <1>18, <1>19 DEF Next, Io,
       IdleThread

\* The child is killed only after the session is marked as killed, and only one
\* that runs; a crash is announced of a child that ended by itself.
KillInv ==
  /\ child \in {"alive", "success", "failure", "kill"}
  /\ killer \in {"none", "flag", "child", "shutdown", "done"}
  /\ killer # "none" => killed
  /\ child = "kill" => killed
  /\ killed \in BOOLEAN
  /\ exit = 1 => child # "alive"
  /\ "crashed" \in pushes => child \notin {"alive", "kill"}

\* The steps of Session::kill, in order.
LEMMA KillOrder ==
  ASSUME KillInv, Kill
  PROVE  /\ killer = "none" => killer' = "flag"
         /\ killer = "flag" => killer' = "child"
         /\ killer = "child" => killer' = "shutdown"
         /\ killer = "shutdown" => killer' = "done"
         /\ killed' = (killed \/ killer' = "flag")
         /\ child' = IF killer' = "child" /\ child = "alive" THEN "kill" ELSE child
         /\ UNCHANGED <<exit, pushes>> /\ killer # "done"
  <1> DEFINE at == CHOOSE j \in 1 .. 3 : KillSteps[j] = killer
             i == IF killer = "none" THEN 1 ELSE 1 + at
             step == IF i > 3 THEN "done" ELSE KillSteps[i]
  <1>1. /\ killer' = step /\ killer # "done"
        /\ killed' = (killed \/ step = "flag")
        /\ child' = IF step = "child" /\ child = "alive" THEN "kill" ELSE child
        /\ UNCHANGED <<exit, pushes>>
    BY DEF Kill, ending, agent
  <1>0. \A j \in 1 .. 3 : KillSteps[j] = killer => at \in 1 .. 3 /\ KillSteps[at] = killer
    OBVIOUS
  <1> HIDE DEF at
  <1>2. KillSteps[1] = "flag" /\ KillSteps[2] = "child" /\ KillSteps[3] = "shutdown"
    BY DEF KillSteps
  <1>3. 1 .. 3 = {1, 2, 3}
    OBVIOUS
  <1>4. CASE killer = "none"
    BY <1>1, <1>2, <1>4
  <1>5. CASE killer = "flag"
    <2>1. at = 1
      BY <1>0, <1>2, <1>3, <1>5
    <2>2. i = 2
      BY <1>5, <2>1
    <2> QED
      BY <1>1, <1>2, <1>5, <2>2
  <1>6. CASE killer = "child"
    <2>1. at = 2
      BY <1>0, <1>2, <1>3, <1>6
    <2>2. i = 3
      BY <1>6, <2>1
    <2> QED
      BY <1>1, <1>2, <1>6, <2>2
  <1>7. CASE killer = "shutdown"
    <2>1. at = 3
      BY <1>0, <1>2, <1>3, <1>7
    <2>2. i = 4
      BY <1>7, <2>1
    <2> QED
      BY <1>1, <1>7, <2>2
  <1> QED
    BY <1>1, <1>4, <1>5, <1>6, <1>7 DEF KillInv

LEMMA KillStep ==
  ASSUME ExitTyped, AgentTyped, KillInv, [Next]_vars
  PROVE  KillInv'
  <1> USE DEF viewports, agent, input, ending, vars, Silent, Acting
  <1>1. ASSUME NEW c \in Clients, FinishSetState(c) PROVE KillInv'
    <2>1. "crashed" \in pushes' <=> "crashed" \in pushes
      <3>1. setter[c] \in AgentState
        BY <1>1 DEF FinishSetState, AgentTyped
      <3> QED
        BY <1>1, <3>1, SetStateTyped DEF FinishSetState
    <2> QED
      BY <1>1, <2>1 DEF FinishSetState, KillInv
  <1>2. ASSUME Infer PROVE KillInv'
    <2>1. "crashed" \in pushes' <=> "crashed" \in pushes
      BY <1>2, SetStateTyped DEF Infer
    <2> QED
      BY <1>2, <2>1 DEF Infer, KillInv
  <1>3. ASSUME MarkExited PROVE KillInv'
    BY <1>3 DEF MarkExited, KillInv, ExitCode
  <1>4. ASSUME Announce PROVE KillInv'
    <2>1. exit \in {0, 1} /\ UNCHANGED <<child, killer, killed, exit>>
      BY <1>4 DEF Announce, ExitTyped
    <2>2. pushes' = IF exit # 0 /\ ~killed THEN pushes \cup {"crashed"} ELSE pushes
      BY <1>4 DEF Announce
    <2>3. ASSUME exit # 0, ~killed PROVE child \notin {"alive", "kill"}
      BY <2>1, <2>3 DEF KillInv
    <2> QED
      BY <2>1, <2>2, <2>3 DEF KillInv
  <1>5. ASSUME IdleSets PROVE KillInv'
    <2>1. "crashed" \in pushes' <=> "crashed" \in pushes
      <3>1. "Idle" \in AgentState
        BY DEF AgentState
      <3> QED
        BY <1>5, <3>1, SetStateTyped DEF IdleSets
    <2> QED
      BY <1>5, <2>1 DEF IdleSets, KillInv
  <1>6. ASSUME ChildExits PROVE KillInv'
    BY <1>6 DEF ChildExits, KillInv
  <1>7. ASSUME Kill PROVE KillInv'
    <2>1. killer' \in {"flag", "child", "shutdown", "done"}
      BY <1>7, KillOrder DEF KillInv
    <2> QED
      BY <1>7, <2>1, KillOrder DEF KillInv
  <1>8. ASSUME UNCHANGED <<child, killer, killed, exit, pushes>>
        PROVE  KillInv'
    BY <1>8 DEF KillInv
  <1>9. ASSUME NEW c \in Clients, NEW size \in Sizes,
              AttachClient(c, size) \/ UpdateClientSize(c, size)
        PROVE  KillInv'
    BY <1>9, <1>8 DEF AttachClient, UpdateClientSize
  <1>10. ASSUME NEW c \in Clients,
               DetachClient(c)
         PROVE  KillInv'
    BY <1>10, <1>8 DEF DetachClient
  <1>11. ASSUME NEW c \in Clients, NEW new \in AgentState,
               AgentStateEvent(c, new)
         PROVE  KillInv'
    BY <1>11, <1>8 DEF AgentStateEvent
  <1>12. ASSUME NEW c \in Clients,
               WriteInput(c, NextBytes)
         PROVE  KillInv'
    BY <1>12, <1>8 DEF WriteInput
  <1>13. ASSUME WakeResizer \/ IoTop \/ Poll \/ Read \/ Write \/ SetFinalState \/ IdleReads \/ IdleJudges \/ Tick \/ ChildPrints \/ ChildReads PROVE KillInv'
    BY <1>13, <1>8 DEF WakeResizer, IoTop, Poll, Read, Write, SetFinalState,
       IdleReads, IdleJudges, Tick, ChildPrints, ChildReads
  <1>14. ASSUME NEW a \in Clients \cup {Resizer},
               ReadMinimum(a) \/ Resize(a)
         PROVE  KillInv'
    BY <1>14, <1>8 DEF ReadMinimum, Resize
  <1> QED
    BY <1>1, <1>2, <1>3, <1>4, <1>5, <1>6, <1>7, <1>8, <1>9, <1>10, <1>11,
       <1>12, <1>13, <1>14 DEF Next, Io, IdleThread

-----------------------------------------------------------------------------
(***************************************************************************)
(* The input.                                                              *)
(***************************************************************************)

\* The cut that InputInOrder asks for: of s, into w and the chunks of q.
Cuts(cut, w, q, s) ==
  /\ cut \in [0 .. Len(q) -> 0 .. Len(s)]
  /\ w = SubSeq(s, 1, cut[0])
  /\ \A k \in 1 .. Len(q) :
       /\ cut[k - 1] <= cut[k]
       /\ q[k] = SubSeq(s, cut[k - 1] + 1, cut[k])
  /\ cut[Len(q)] = Len(s)

LEMMA InputCut ==
  /\ InputInOrder <=> \E cut : Cuts(cut, written \o pending, queue, accepted)
  /\ InputInOrder' <=> \E cut : Cuts(cut, written' \o pending', queue', accepted')
  BY DEF InputInOrder, Cuts

\* What was there of a sequence stays when another is appended to it.
LEMMA OldPart ==
  ASSUME NEW s \in Seq(Nat), NEW t \in Seq(Nat), NEW m \in Nat \ {0},
         NEW n \in 0 .. Len(s)
  PROVE  SubSeq(s \o t, m, n) = SubSeq(s, m, n)
  <1>1. CASE n < m
    BY <1>1, SubSeqEmpty
  <1>2. CASE m <= n
    <2>1. m \in 1 .. Len(s) /\ n \in 1 .. Len(s)
      BY <1>2
    <2> QED
      BY <2>1, SubSeqOfConcat1
  <1> QED
    BY <1>1, <1>2

LEMMA NewPart ==
  ASSUME NEW s \in Seq(Nat), NEW t \in Seq(Nat)
  PROVE  SubSeq(s \o t, Len(s) + 1, Len(s) + Len(t)) = t
  <1> DEFINE n == Len(s)
             m == Len(t)
             u == SubSeq(s \o t, n + 1, n + m)
  <1>0. n \in Nat /\ m \in Nat
    OBVIOUS
  <1>1. CASE m = 0
    <2>1. t = << >>
      BY <1>1, EmptySeq
    <2>2. u = << >>
      BY <1>0, <1>1, SubSeqEmpty
    <2> QED
      BY <2>1, <2>2
  <1>2. CASE m # 0
    <2>1. n + 1 \in n + 1 .. n + m /\ n + m \in n + 1 .. n + m
      BY <1>0, <1>2
    <2>2. u = SubSeq(t, (n + 1) - n, (n + m) - n)
      BY <2>1, SubSeqOfConcat2
    <2>3. (n + 1) - n = 1 /\ (n + m) - n = m
      BY <1>0
    <2>4. u = SubSeq(t, 1, m)
      BY <2>2, <2>3
    <2> QED
      BY <2>4, SubSeqFull
  <1> QED
    BY <1>1, <1>2

\* A chunk that is appended to both leaves a cut.
LEMMA CutAppended ==
  ASSUME NEW w, NEW q \in Seq(Seq(Nat)), NEW s \in Seq(Nat), NEW b \in Seq(Nat),
         NEW cut, Cuts(cut, w, q, s)
  PROVE  \E new : Cuts(new, w, Append(q, b), s \o b)
  <1> DEFINE n == Len(q)
             a == Len(s)
             l == Len(b)
             qq == Append(q, b)
             ss == s \o b
             new == [k \in 0 .. n + 1 |-> IF k = n + 1 THEN a + l ELSE cut[k]]
  <1>1. n \in Nat /\ a \in Nat /\ l \in Nat
    OBVIOUS
  <1>2. Len(qq) = n + 1 /\ qq[n + 1] = b /\ \A k \in 1 .. n : qq[k] = q[k]
    BY AppendProperties
  <1>3. Len(ss) = a + l
    BY ConcatProperties
  <1>4. \A m \in Nat \ {0}, k \in 0 .. a : SubSeq(ss, m, k) = SubSeq(s, m, k)
    BY OldPart
  <1>5. SubSeq(ss, a + 1, a + l) = b
    BY NewPart
  <1>6. /\ cut \in [0 .. n -> 0 .. a] /\ cut[n] = a
        /\ w = SubSeq(s, 1, cut[0])
        /\ \A k \in 1 .. n : /\ cut[k - 1] <= cut[k]
                             /\ q[k] = SubSeq(s, cut[k - 1] + 1, cut[k])
    BY DEF Cuts
  <1> HIDE DEF n, a, l, qq, ss
  <1>7. \A k \in 0 .. n : cut[k] \in 0 .. a
    BY <1>6
  <1>8. new \in [0 .. n + 1 -> 0 .. a + l]
    <2> SUFFICES ASSUME NEW k \in 0 .. n + 1
                 PROVE  (IF k = n + 1 THEN a + l ELSE cut[k]) \in 0 .. a + l
      OBVIOUS
    <2>1. CASE k = n + 1
      BY <1>1, <2>1
    <2>2. CASE k \in 0 .. n
      BY <1>1, <1>7, <2>2
    <2> QED
      BY <1>1, <2>1, <2>2
  <1>9. new[n + 1] = a + l /\ \A k \in 0 .. n : new[k] = cut[k]
    BY <1>1
  <1> HIDE DEF new
  <1>10. w = SubSeq(ss, 1, new[0])
    <2>1. 0 \in 0 .. n /\ 1 \in Nat \ {0}
      BY <1>1
    <2> QED
      BY <1>4, <1>6, <1>7, <1>9, <2>1
  <1>11. ASSUME NEW k \in 1 .. n + 1
         PROVE  /\ new[k - 1] <= new[k]
                /\ qq[k] = SubSeq(ss, new[k - 1] + 1, new[k])
    <2>1. CASE k = n + 1
      <3>1. k - 1 = n /\ n \in 0 .. n
        BY <1>1, <2>1
      <3>2. new[k - 1] = a /\ new[k] = a + l
        BY <1>6, <1>9, <2>1, <3>1
      <3> QED
        BY <1>1, <1>2, <1>5, <2>1, <3>2
    <2>2. CASE k \in 1 .. n
      <3>1. k - 1 \in 0 .. n /\ k \in 0 .. n
        BY <1>1, <2>2
      <3>2. new[k - 1] = cut[k - 1] /\ new[k] = cut[k]
        BY <1>9, <3>1
      <3>3. cut[k - 1] \in 0 .. a /\ cut[k] \in 0 .. a
        BY <1>7, <3>1
      <3>4. cut[k - 1] + 1 \in Nat \ {0}
        BY <1>1, <3>3
      <3>5. SubSeq(ss, cut[k - 1] + 1, cut[k]) = SubSeq(s, cut[k - 1] + 1, cut[k])
        BY <1>4, <3>3, <3>4
      <3> QED
        BY <1>6, <1>2, <2>2, <3>2, <3>5
    <2> QED
      BY <1>1, <2>1, <2>2
  <1>12. Cuts(new, w, qq, ss)
    BY <1>2, <1>3, <1>8, <1>9, <1>10, <1>11 DEF Cuts
  <1> QED
    BY <1>12 DEF qq, ss

\* So does the chunk at the head, when it moves to what was taken.
LEMMA CutTaken ==
  ASSUME NEW w \in Seq(Nat), NEW q \in Seq(Seq(Nat)), NEW s \in Seq(Nat), q # << >>,
         NEW cut, Cuts(cut, w, q, s)
  PROVE  \E new : Cuts(new, w \o Head(q), Tail(q), s)
  <1> DEFINE n == Len(q)
             a == Len(s)
             h == Head(q)
             t == Tail(q)
             new == [k \in 0 .. n - 1 |-> cut[k + 1]]
  <1>1. n \in Nat \ {0} /\ a \in Nat
    BY EmptySeq
  <1>2. Len(t) = n - 1 /\ h = q[1] /\ \A k \in 1 .. n - 1 : t[k] = q[k + 1]
    BY HeadTailProperties
  <1>3. \A i, j \in 0 .. a :
          i <= j => SubSeq(s, 1, i) \o SubSeq(s, i + 1, j) = SubSeq(s, 1, j)
    <2> TAKE i, j \in 0 .. a
    <2> HAVE i <= j
    <2>1. /\ 1 \in 1 .. Len(s) + 1 /\ i \in 1 - 1 .. Len(s) /\ j \in i .. Len(s)
      BY <1>1
    <2> QED
      BY <2>1, ConcatAdjacentSubSeq
  <1>4. /\ cut \in [0 .. n -> 0 .. a] /\ cut[n] = a
        /\ w = SubSeq(s, 1, cut[0])
        /\ \A k \in 1 .. n : /\ cut[k - 1] <= cut[k]
                             /\ q[k] = SubSeq(s, cut[k - 1] + 1, cut[k])
    BY DEF Cuts
  <1> HIDE DEF n, a, h, t
  <1>5. \A k \in 0 .. n : cut[k] \in 0 .. a
    BY <1>4
  <1>6. new \in [0 .. n - 1 -> 0 .. a]
    <2>1. \A k \in 0 .. n - 1 : k + 1 \in 0 .. n
      BY <1>1
    <2> QED
      BY <1>5, <2>1
  <1>7. \A k \in 0 .. n - 1 : new[k] = cut[k + 1]
    OBVIOUS
  <1> HIDE DEF new
  <1>8. w \o h = SubSeq(s, 1, new[0])
    <2>1. 0 \in 0 .. n - 1 /\ 0 \in 0 .. n /\ 1 \in 0 .. n /\ 1 \in 1 .. n
          /\ 0 + 1 = 1 /\ 1 - 1 = 0
      BY <1>1
    <2>2. new[0] = cut[1] /\ cut[0] \in 0 .. a /\ cut[1] \in 0 .. a
      BY <1>5, <1>7, <2>1
    <2>3. cut[1 - 1] <= cut[1] /\ q[1] = SubSeq(s, cut[1 - 1] + 1, cut[1])
      BY <1>4, <2>1
    <2>4. cut[0] <= cut[1] /\ h = SubSeq(s, cut[0] + 1, cut[1])
      BY <1>2, <2>1, <2>3
    <2> QED
      BY <1>3, <1>4, <2>2, <2>4
  <1>9. ASSUME NEW k \in 1 .. n - 1
        PROVE  /\ new[k - 1] <= new[k]
               /\ t[k] = SubSeq(s, new[k - 1] + 1, new[k])
    <2>1. k - 1 \in 0 .. n - 1 /\ k \in 0 .. n - 1 /\ k + 1 \in 1 .. n
          /\ (k - 1) + 1 = k /\ (k + 1) - 1 = k
      BY <1>1
    <2>2. new[k - 1] = cut[k] /\ new[k] = cut[k + 1]
      BY <1>7, <2>1
    <2>3. /\ cut[(k + 1) - 1] <= cut[k + 1]
          /\ q[k + 1] = SubSeq(s, cut[(k + 1) - 1] + 1, cut[k + 1])
      BY <1>4, <2>1
    <2> QED
      BY <1>2, <2>1, <2>2, <2>3
  <1>10. new[n - 1] = a
    <2>1. n - 1 \in 0 .. n - 1 /\ (n - 1) + 1 = n
      BY <1>1
    <2> QED
      BY <1>7, <1>4, <2>1
  <1>11. Len(t) = n - 1 /\ Len(s) = a
    BY <1>2 DEF a
  <1>12. Cuts(new, w \o h, t, s)
    BY <1>6, <1>8, <1>9, <1>10, <1>11 DEF Cuts
  <1> QED
    BY <1>12 DEF h, t

\* A queued chunk is appended to what was accepted.
LEMMA InputAccepted ==
  ASSUME IoTyped, InputInOrder, NEW bytes \in Seq(Nat),
         queue' = Append(queue, bytes), accepted' = accepted \o bytes,
         UNCHANGED <<written, pending>>
  PROVE  InputInOrder'
  <1>1. PICK cut : Cuts(cut, written \o pending, queue, accepted)
    BY InputCut
  <1>2. PICK new : Cuts(new, written \o pending, Append(queue, bytes), accepted \o bytes)
    BY <1>1, CutAppended DEF IoTyped
  <1> QED
    BY <1>2, InputCut

\* The chunk at the head of the queue becomes the pending one.
LEMMA InputTaken ==
  ASSUME IoTyped, InputInOrder, pending = << >>, queue # << >>,
         pending' = Head(queue), queue' = Tail(queue), UNCHANGED <<written, accepted>>
  PROVE  InputInOrder'
  <1>1. written \o pending = written
    BY ConcatEmptySeq DEF IoTyped
  <1>2. PICK cut : Cuts(cut, written, queue, accepted)
    BY <1>1, InputCut
  <1>3. PICK new : Cuts(new, written \o Head(queue), Tail(queue), accepted)
    BY <1>2, CutTaken DEF IoTyped
  <1> QED
    BY <1>3, InputCut

LEMMA AppendedTwice ==
  ASSUME NEW s \in Seq(Nat), NEW t \in Seq(Nat), NEW u \in Seq(Nat)
  PROVE  (s \o t) \o u = s \o (t \o u)
  BY ConcatAssociative

\* The PTY takes some bytes of the pending chunk.
LEMMA InputWritten ==
  ASSUME IoTyped, InputInOrder, NEW n \in 1 .. Len(pending),
         written' = written \o SubSeq(pending, 1, n), pending' = Remaining(pending, n),
         UNCHANGED <<queue, accepted>>
  PROVE  InputInOrder'
  <1>t. pending \in Seq(Nat) /\ written \in Seq(Nat) /\ Len(pending) \in Nat
    BY DEF IoTyped
  <1> DEFINE p == SubSeq(pending, 1, n)
             q == SubSeq(pending, n + 1, Len(pending))
  <1>1. p \o q = pending
    <2>1. SubSeq(pending, 1, n) \o SubSeq(pending, n + 1, Len(pending))
            = SubSeq(pending, 1, Len(pending))
      <3>1. /\ 1 \in 1 .. Len(pending) + 1 /\ n \in 1 - 1 .. Len(pending)
            /\ Len(pending) \in n .. Len(pending)
        BY <1>t
      <3> QED
        BY <1>t, <3>1, ConcatAdjacentSubSeq
    <2> QED
      BY <1>t, <2>1, SubSeqFull
  <1>2. p \in Seq(Nat) /\ q \in Seq(Nat)
    BY <1>t, SubSeqProperties
  <1> HIDE DEF p, q
  <1>3. (written \o p) \o q = written \o (p \o q)
    BY <1>t, <1>2, AppendedTwice
  <1>4. written' \o pending' = written \o pending
    BY <1>1, <1>3 DEF p, q, Remaining
  <1> QED
    BY <1>4 DEF InputInOrder

LEMMA InputStep ==
  ASSUME IoTyped, InputInOrder, [Next]_vars
  PROVE  InputInOrder'
  <1> USE DEF viewports, agent, input, ending, vars, Silent, Acting
  <1>1. ASSUME NEW c \in Clients, WriteInput(c, NextBytes) PROVE InputInOrder'
    <2>1. CASE UNCHANGED <<queue, accepted>>
      BY <1>1, <2>1 DEF WriteInput, InputInOrder
    <2>2. CASE queue' = Append(queue, NextBytes) /\ accepted' = accepted \o NextBytes
      <3>1. NextBytes \in Seq(Nat) /\ UNCHANGED <<written, pending>>
        BY <1>1 DEF WriteInput, NextBytes, IoTyped
      <3> QED
        BY <2>2, <3>1, InputAccepted
    <2> QED
      BY <1>1, <2>1, <2>2 DEF WriteInput
  <1>2. ASSUME IoTop PROVE InputInOrder'
    <2>1. CASE UNCHANGED <<queue, pending>>
      BY <1>2, <2>1 DEF IoTop, InputInOrder
    <2>2. CASE /\ pending = <<>> /\ queue # <<>>
               /\ pending' = Head(queue) /\ queue' = Tail(queue)
      BY <1>2, <2>2, InputTaken DEF IoTop
    <2> QED
      BY <1>2, <2>1, <2>2 DEF IoTop
  <1>3. ASSUME Write PROVE InputInOrder'
    <2>1. CASE UNCHANGED <<written, pending>>
      BY <1>3, <2>1 DEF Write, InputInOrder
    <2>2. ASSUME NEW n \in 1 .. Len(pending),
                 written' = written \o SubSeq(pending, 1, n),
                 pending' = Remaining(pending, n)
          PROVE  InputInOrder'
      BY <1>3, <2>2, InputWritten DEF Write
    <2> QED
      BY <1>3, <2>1, <2>2 DEF Write
  <1>4. ASSUME UNCHANGED <<queue, pending, accepted, written>>
        PROVE  InputInOrder'
    BY <1>4 DEF InputInOrder
  <1>5. ASSUME NEW c \in Clients, NEW size \in Sizes,
              AttachClient(c, size) \/ UpdateClientSize(c, size)
        PROVE  InputInOrder'
    BY <1>5, <1>4 DEF AttachClient, UpdateClientSize
  <1>6. ASSUME NEW c \in Clients,
              DetachClient(c) \/ FinishSetState(c)
        PROVE  InputInOrder'
    BY <1>6, <1>4 DEF DetachClient, FinishSetState
  <1>7. ASSUME NEW c \in Clients, NEW new \in AgentState,
              AgentStateEvent(c, new)
        PROVE  InputInOrder'
    BY <1>7, <1>4 DEF AgentStateEvent
  <1>8. ASSUME WakeResizer \/ Poll \/ Read \/ Infer \/ MarkExited \/ SetFinalState \/ Announce \/ IdleReads \/ IdleJudges \/ IdleSets \/ Tick \/ ChildPrints \/ ChildReads \/ ChildExits \/ Kill PROVE InputInOrder'
    BY <1>8, <1>4 DEF WakeResizer, Poll, Read, Infer, MarkExited,
       SetFinalState, Announce, IdleReads, IdleJudges, IdleSets, Tick,
       ChildPrints, ChildReads, ChildExits, Kill
  <1>9. ASSUME NEW a \in Clients \cup {Resizer},
              ReadMinimum(a) \/ Resize(a)
        PROVE  InputInOrder'
    BY <1>9, <1>4 DEF ReadMinimum, Resize
  <1> QED
    BY <1>1, <1>2, <1>3, <1>4, <1>5, <1>6, <1>7, <1>8, <1>9 DEF Next, Io,
       IdleThread

-----------------------------------------------------------------------------
(***************************************************************************)
(* The theorems.                                                           *)
(***************************************************************************)

IInv ==
  /\ ViewTyped /\ ViewInv
  /\ AgentTyped /\ IoTyped /\ ExitTyped
  /\ FinalInv /\ KillInv /\ InputInOrder

LEMMA InitIInv == Init => IInv
  <1> SUFFICES ASSUME Init PROVE IInv
    OBVIOUS
  <1>1. ViewTyped
    BY DEF Init, ViewTyped, Appliers
  <1>2. ViewInv
    <2>1. Attached = {}
      BY DEF Init, Attached
    <2>2. \A a \in Clients \cup {Resizer} : ~Applying(a)
      BY DEF Init, Applying, NoApply
    <2> QED
      BY <2>1, <2>2 DEF ViewInv
  <1>3. AgentTyped
    BY ControlAssumption DEF Init, AgentTyped, AgentState
  <1>4. IoTyped
    <2>1. /\ queue \in Seq(Seq(Nat)) /\ Len(queue) = 0
          /\ pending \in Seq(Nat) /\ accepted \in Seq(Nat) /\ written \in Seq(Nat)
      BY DEF Init
    <2>2. io \in Simple
      BY DEF Init, Simple
    <2>3. 0 <= QueueCapacity
      BY ControlAssumption
    <2> QED
      BY <2>1, <2>2, <2>3 DEF Init, IoTyped
  <1>5. ExitTyped
    BY DEF Init, ExitTyped
  <1>6. FinalInv
    BY DEF Init, FinalInv
  <1>k. KillInv
    <2>1. child = "alive" /\ killer = "none" /\ killed = FALSE /\ exit = None /\ pushes = {}
      BY DEF Init
    <2>2. exit # 1
      BY <2>1, ControlAssumption
    <2> QED
      BY <2>1, <2>2 DEF KillInv
  <1>7. InputInOrder
    <2> DEFINE cut == [k \in 0 .. 0 |-> 0]
    <2>1. /\ queue = << >> /\ accepted = << >> /\ written = << >> /\ pending = << >>
      BY DEF Init
    <2>2. Len(queue) = 0 /\ Len(accepted) = 0 /\ cut \in [0 .. 0 -> 0 .. 0] /\ cut[0] = 0
      BY <2>1
    <2>3. written \o pending = SubSeq(accepted, 1, 0)
      BY <2>1, SubSeqEmpty
    <2> HIDE DEF cut
    <2>4. Cuts(cut, written \o pending, queue, accepted)
      BY <2>2, <2>3 DEF Cuts
    <2> QED
      BY <2>4, InputCut
  <1> QED
    BY <1>1, <1>2, <1>3, <1>4, <1>5, <1>6, <1>k, <1>7 DEF IInv

LEMMA Invariance == Spec => []IInv
  <1>1. IInv /\ [Next]_vars => IInv'
    BY ViewStep, AgentTypedStep, IoTypedStep, ExitTypedStep, FinalStep, KillStep,
       InputStep DEF IInv
  <1> QED
    BY <1>1, InitIInv, PTL DEF Spec

\* session.rs: whatever the clients, the child and the threads do, the accepted
\* input reaches the child in order and once, and the end of the session is
\* shown, stored and pushed as what it was.
THEOREM EndAndInputAreRight == Spec => []SessionControlInv
  <1>1. IInv => SessionControlInv
    <2> SUFFICES ASSUME IInv PROVE SessionControlInv
      OBVIOUS
    <2>1. TypeOK
      BY DEF IInv, ViewTyped, AgentTyped, IoTyped, ExitTyped, TypeOK
    <2>2. FinalStateIfUnraced
      BY DEF IInv, FinalInv, ExitTyped, FinalStateIfUnraced
    <2>3. KillIsNoCrash
      BY DEF IInv, KillInv, KillIsNoCrash
    <2> QED
      BY <2>1, <2>2, <2>3 DEF IInv, SessionControlInv
  <1> QED
    BY <1>1, Invariance, PTL

\* apply_min_attached_resize: when no resize is under way the PTY has the
\* minimum of the attached sizes, for any number of clients, if no two resizes
\* crossed and none failed.
THEOREM ViewportIsMinimum == Spec => []ViewportIfUncrossed
  <1>1. IInv => ViewportIfUncrossed
    <2> SUFFICES ASSUME IInv, Settled, ~crossed, exit = None, Attached # {}
                 PROVE  pty = min_client_size(Attached)
      BY DEF ViewportIfUncrossed
    <2>1. DOMAIN applier = Clients \cup {Resizer}
      BY DEF IInv, ViewTyped
    <2>2. ~Pending /\ \A a \in Clients \cup {Resizer} : ~Applying(a)
      BY <2>1 DEF Settled, Pending, Applying
    <2>3. pty = Minimum(Attached)
      BY <2>2 DEF IInv, ViewInv, GivesMinimum
    <2> QED
      BY <2>3 DEF Minimum
  <1> QED
    BY <1>1, Invariance, PTL

=============================================================================
