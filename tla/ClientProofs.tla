---------------------------- MODULE ClientProofs ----------------------------
(***************************************************************************)
(* Proofs about the clients and their wire: the phone's client and its      *)
(* pairings (MobileCore), its streams (MobileStreams), the commands that    *)
(* own a terminal (CliTerminal), the one-shot commands (CliCommands), and   *)
(* the frames of one connection (Wire).                                     *)
(*                                                                          *)
(* Each part has an inductive invariant, its steps reduced to their effects *)
(* (how one call, command or writer moves), a lemma that each effect keeps  *)
(* each part of the invariant, and the theorem that the invariant of the    *)
(* runs follows.  Where an induction over data is needed (the least element *)
(* of a set, the fold over a chunk of input), it is a choice of the least   *)
(* counterexample, by the well-foundedness of the naturals.                 *)
(***************************************************************************)
EXTENDS MobileCore, MobileStreams, CliTerminal, CliCommands, Wire,
        FiniteSetTheorems, WellFoundedInduction, TLAPS
-----------------------------------------------------------------------------
(***************************************************************************)
(* MobileCore: the phone's client and its pairings.                        *)
(***************************************************************************)

MobilePcs == {"done", "endpoint", "bind", "connect", "version", "host", "ask", "answer",
              "refused", "read", "gate", "store"}

Call == [op : {"free", "request", "unpair", "pair", "confirm"}, pc : MobilePcs,
         target : Daemons \cup {NoDaemon}, att : Attempts \cup {NoAttempt}]

Gate == [local_confirmed : BOOLEAN, daemon_completed : BOOLEAN, cancelled : BOOLEAN,
         persisted : BOOLEAN]

Pairing == [target : Daemons \cup {NoDaemon},
            stage : {"unused", "dialling", "pending", "approved", "denied", "closed"},
            streams : BOOLEAN, gate : Gate]

\* The shapes of all the parts of the state.
MobileTyped ==
  /\ daemon \in Daemons \cup {NoDaemon} /\ latest \in Daemons \cup {NoDaemon}
  /\ endpoint \in [bound : BOOLEAN, holder : Calls \cup {NoCall}]
  /\ labels \in [version : Daemons \cup {NoDaemon}, host : Daemons \cup {NoDaemon}]
  /\ call \in [Calls -> Call] /\ attempt \in [Attempts -> Pairing]
  /\ paired \subseteq Daemons /\ crossed \in BOOLEAN /\ mixed \in BOOLEAN

\* What a call is doing where it stands.
Shaped(r) ==
  /\ r.pc # "done" => r.op # "free" /\ r.target \in Daemons
  /\ r.pc = "done" => r.op = "free"
  /\ r.pc \in {"version", "host", "answer", "refused"} => r.op \in {"request", "unpair"}
  /\ r.op = "confirm" <=> r.pc \in {"read", "gate", "store"}
  /\ r.op \in {"pair", "confirm"} => r.att \in Attempts

CallShape == \A c \in Calls : Shaped(call[c])

\* What the gate says was brought about by the phone, the desktop and cancel().
Gated(p) ==
  /\ p.stage # "unused" => p.target \in Daemons
  /\ p.stage \in {"unused", "dialling"} => p.gate = NewGate /\ ~p.streams
  /\ p.streams => p.gate = NewGate
  /\ p.gate.persisted =>
       p.stage = "approved" /\ p.gate.local_confirmed /\ ~p.gate.cancelled

GatesInv == \A a \in Attempts : Gated(attempt[a])

\* Only one call dials for an attempt, and only a pairing that the desktop
\* approved is about to be completed.
AttemptsInv ==
  \A c \in Calls :
    /\ call[c].op = "pair" => attempt[call[c].att].stage = "dialling"
    /\ \A o \in Calls : call[c].op = "pair" /\ call[o].op = "pair" /\ call[o].att = call[c].att =>
         o = c
    /\ call[c].pc = "gate" => attempt[call[c].att].stage = "approved"

\* The call that binds holds the lock, and nothing is bound yet.
EndpointInv ==
  /\ endpoints \in Nat /\ endpoints <= 1
  /\ ~endpoint.bound => endpoints = 0
  /\ \A c \in Calls : call[c].pc = "bind" => endpoint.holder = c /\ ~endpoint.bound

\* An unpair that no confirmation crossed is about the daemon that is remembered.
RememberedInv ==
  crossed \/ ( /\ daemon = latest
               /\ \A c \in Calls : call[c].op = "unpair" =>
                    daemon \in {call[c].target, NoDaemon} )

Labelling(c) == call[c].pc \in {"version", "host"}

\* The calls that are storing labels have welcomes of one daemon.
LabelInv ==
  \/ mixed
  \/ /\ \A c, o \in Calls : Labelling(c) /\ Labelling(o) => call[c].target = call[o].target
     /\ \A c \in Calls : call[c].pc = "host" => labels.version = call[c].target
     /\ (\E c \in Calls : call[c].pc = "host") \/ labels.version = labels.host

MobileIInv ==
  /\ MobileTyped
  /\ CallShape
  /\ GatesInv
  /\ AttemptsInv
  /\ EndpointInv
  /\ RememberedInv
  /\ LabelInv

-----------------------------------------------------------------------------
(* What the steps do to a call and to an attempt.                          *)

\* Only call c changes.
OneCall(c) == call' \in [Calls -> Call] /\ \A o \in Calls : o # c => call'[o] = call[o]

Moved(c, at) ==
  /\ OneCall(c) /\ call'[c].pc = at
  /\ call'[c].op = call[c].op /\ call'[c].target = call[c].target
  /\ call'[c].att = call[c].att

\* A call that goes on changes nothing but where it stands, and one that ends is free.
LEMMA CallMoves ==
  ASSUME call \in [Calls -> Call], NEW c \in Calls
  PROVE  /\ \A at \in MobilePcs : CallGoes(c, at) => Moved(c, at)
         /\ CallEnds(c) => OneCall(c) /\ call'[c] = Free
<1>1. ASSUME NEW at \in MobilePcs, CallGoes(c, at) PROVE Moved(c, at)
  <2>1. call'[c] = [call[c] EXCEPT !.pc = at]
    BY <1>1 DEF CallGoes
  <2>2. call[c] \in Call
    OBVIOUS
  <2>3. /\ call'[c] \in Call /\ call'[c].pc = at
        /\ call'[c].op = call[c].op /\ call'[c].target = call[c].target
        /\ call'[c].att = call[c].att
    BY <2>1, <2>2 DEF Call
  <2>4. OneCall(c)
    BY <1>1, <2>3 DEF CallGoes, OneCall
  <2>5. QED
    BY <2>3, <2>4 DEF Moved
<1>2. ASSUME CallEnds(c) PROVE OneCall(c) /\ call'[c] = Free
  <2>1. Free \in Call
    BY DEF Free, Call, MobilePcs
  <2>2. QED
    BY <1>2, <2>1 DEF CallEnds, OneCall
<1>3. QED
  BY <1>1, <1>2

\* Only attempt a changes, and to this.
Becomes(a, target, stage, streams, gate) ==
  /\ attempt' \in [Attempts -> Pairing]
  /\ \A b \in Attempts : b # a => attempt'[b] = attempt[b]
  /\ attempt'[a].target = target /\ attempt'[a].stage = stage
  /\ attempt'[a].streams = streams /\ attempt'[a].gate = gate

\* The attempt is replaced by a record of the right shape.
LEMMA AttemptChanges ==
  ASSUME attempt \in [Attempts -> Pairing], NEW a \in Attempts, NEW r \in Pairing,
         attempt' = [attempt EXCEPT ![a] = r]
  PROVE  Becomes(a, r.target, r.stage, r.streams, r.gate)
BY DEF Becomes

\* What confirm(), the completion and cancel() do to the gate.
ConfirmedGate(g) == [g EXCEPT !.local_confirmed = TRUE]
CompletedGate(g) == [g EXCEPT !.daemon_completed = TRUE, !.persisted = TRUE]
CancelledGate(g) == [g EXCEPT !.cancelled = TRUE]

Stages == {"unused", "dialling", "pending", "approved", "denied", "closed"}

\* Nothing but the stage changes.
LEMMA StageChanges ==
  ASSUME attempt \in [Attempts -> Pairing], NEW a \in Attempts, NEW s \in Stages,
         attempt' = [attempt EXCEPT ![a].stage = s]
  PROVE  Becomes(a, attempt[a].target, s, attempt[a].streams, attempt[a].gate)
<1> DEFINE r == [attempt[a] EXCEPT !.stage = s]
<1>1. attempt[a] \in Pairing
  OBVIOUS
<1>2. /\ r \in Pairing /\ r.target = attempt[a].target /\ r.stage = s
      /\ r.streams = attempt[a].streams /\ r.gate = attempt[a].gate
  BY <1>1 DEF Pairing, Stages
<1>3. attempt' = [attempt EXCEPT ![a] = r]
  OBVIOUS
<1> HIDE DEF r
<1>4. Becomes(a, r.target, r.stage, r.streams, r.gate)
  BY <1>2, <1>3, AttemptChanges
<1>5. QED
  BY <1>2, <1>4

\* pair_with_ticket names the daemon.
LEMMA DiallingStarts ==
  ASSUME attempt \in [Attempts -> Pairing], NEW a \in Attempts, NEW d \in Daemons,
         attempt' = [attempt EXCEPT ![a].target = d, ![a].stage = "dialling"]
  PROVE  Becomes(a, d, "dialling", attempt[a].streams, attempt[a].gate)
<1> DEFINE r == [attempt[a] EXCEPT !.target = d, !.stage = "dialling"]
<1>1. attempt[a] \in Pairing
  OBVIOUS
<1>2. /\ r \in Pairing /\ r.target = d /\ r.stage = "dialling"
      /\ r.streams = attempt[a].streams /\ r.gate = attempt[a].gate
  BY <1>1 DEF Pairing
<1>3. attempt' = [attempt EXCEPT ![a] = r]
  OBVIOUS
<1> HIDE DEF r
<1>4. Becomes(a, r.target, r.stage, r.streams, r.gate)
  BY <1>2, <1>3, AttemptChanges
<1>5. QED
  BY <1>2, <1>4

\* PairingPending keeps the streams or closes them.
LEMMA ComparedChanges ==
  ASSUME attempt \in [Attempts -> Pairing], NEW a \in Attempts, NEW matches \in BOOLEAN,
         attempt' = [attempt EXCEPT ![a] = Compared(@, matches)]
  PROVE  Becomes(a, attempt[a].target, IF matches THEN "pending" ELSE "closed", matches,
                 attempt[a].gate)
<1> DEFINE r == Compared(attempt[a], matches)
<1>1. attempt[a] \in Pairing
  OBVIOUS
<1>2. /\ r \in Pairing /\ r.target = attempt[a].target
      /\ r.stage = (IF matches THEN "pending" ELSE "closed")
      /\ r.streams = matches /\ r.gate = attempt[a].gate
  BY <1>1 DEF Pairing, Compared
<1>3. attempt' = [attempt EXCEPT ![a] = r]
  OBVIOUS
<1> HIDE DEF r
<1>4. Becomes(a, r.target, r.stage, r.streams, r.gate)
  BY <1>2, <1>3, AttemptChanges
<1>5. QED
  BY <1>2, <1>4

\* confirm() records the local confirmation and takes the streams.
LEMMA ConfirmChanges ==
  ASSUME attempt \in [Attempts -> Pairing], NEW a \in Attempts,
         attempt' = [attempt EXCEPT ![a].gate.local_confirmed = TRUE, ![a].streams = FALSE]
  PROVE  Becomes(a, attempt[a].target, attempt[a].stage, FALSE,
                 ConfirmedGate(attempt[a].gate))
<1> DEFINE g == ConfirmedGate(attempt[a].gate)
<1> DEFINE r == [attempt[a] EXCEPT !.gate = g, !.streams = FALSE]
<1>1. attempt[a] \in Pairing
  OBVIOUS
<1>2. attempt[a].gate \in Gate
  BY <1>1 DEF Pairing
<1>3. g \in Gate
  BY <1>2 DEF Gate, ConfirmedGate
<1>4. attempt' = [attempt EXCEPT ![a] = r]
  BY DEF ConfirmedGate
<1> HIDE DEF g
<1>5. /\ r \in Pairing /\ r.target = attempt[a].target /\ r.stage = attempt[a].stage
      /\ r.streams = FALSE /\ r.gate = g
  BY <1>1, <1>3 DEF Pairing
<1> HIDE DEF r
<1>6. Becomes(a, r.target, r.stage, r.streams, r.gate)
  BY <1>5, <1>4, AttemptChanges
<1>7. QED
  BY <1>5, <1>6 DEF g

\* The gate records the completion.
LEMMA GateChanges ==
  ASSUME attempt \in [Attempts -> Pairing], NEW a \in Attempts,
         attempt' = [attempt EXCEPT ![a].gate.daemon_completed = TRUE,
                                    ![a].gate.persisted = TRUE]
  PROVE  Becomes(a, attempt[a].target, attempt[a].stage, attempt[a].streams,
                 CompletedGate(attempt[a].gate))
<1> DEFINE g == CompletedGate(attempt[a].gate)
<1> DEFINE r == [attempt[a] EXCEPT !.gate = g]
<1>1. attempt[a] \in Pairing
  OBVIOUS
<1>2. attempt[a].gate \in Gate
  BY <1>1 DEF Pairing
<1>3. g \in Gate
  BY <1>2 DEF Gate, CompletedGate
<1>4. attempt' = [attempt EXCEPT ![a] = r]
  BY DEF CompletedGate
<1> HIDE DEF g
<1>5. /\ r \in Pairing /\ r.target = attempt[a].target /\ r.stage = attempt[a].stage
      /\ r.streams = attempt[a].streams /\ r.gate = g
  BY <1>1, <1>3 DEF Pairing
<1> HIDE DEF r
<1>6. Becomes(a, r.target, r.stage, r.streams, r.gate)
  BY <1>5, <1>4, AttemptChanges
<1>7. QED
  BY <1>5, <1>6 DEF g

\* cancel() closes the gate and takes the streams.
LEMMA CancelChanges ==
  ASSUME attempt \in [Attempts -> Pairing], NEW a \in Attempts,
         attempt' = [attempt EXCEPT ![a] = Cancelled(@)]
  PROVE  Becomes(a, attempt[a].target, attempt[a].stage, FALSE,
                 CancelledGate(attempt[a].gate))
<1> DEFINE g == CancelledGate(attempt[a].gate)
<1> DEFINE r == [attempt[a] EXCEPT !.gate = g, !.streams = FALSE]
<1>1. attempt[a] \in Pairing
  OBVIOUS
<1>2. attempt[a].gate \in Gate
  BY <1>1 DEF Pairing
<1>3. g \in Gate
  BY <1>2 DEF Gate, CancelledGate
<1>4. attempt' = [attempt EXCEPT ![a] = r]
  BY DEF Cancelled, CancelledGate
<1> HIDE DEF g
<1>5. /\ r \in Pairing /\ r.target = attempt[a].target /\ r.stage = attempt[a].stage
      /\ r.streams = FALSE /\ r.gate = g
  BY <1>1, <1>3 DEF Pairing
<1> HIDE DEF r
<1>6. Becomes(a, r.target, r.stage, r.streams, r.gate)
  BY <1>5, <1>4, AttemptChanges
<1>7. QED
  BY <1>5, <1>6 DEF g


-----------------------------------------------------------------------------
(* Every part is kept by every step.                                       *)

LEMMA RequestEffect ==
  ASSUME MobileTyped, CallShape, NEW c \in Calls,
         Request(c)
  PROVE  /\ call[c].pc = "done" /\ OneCall(c)
         /\ call'[c] = [op |-> "request", pc |-> "endpoint", target |-> daemon, att |-> NoAttempt]
BY MobileAssumption DEF Request, Begin, Running, MobileTyped, OneCall, Call, MobilePcs

LEMMA unpair_selfEffect ==
  ASSUME MobileTyped, CallShape, NEW c \in Calls,
         unpair_self(c)
  PROVE  /\ call[c].pc = "done" /\ OneCall(c)
         /\ call'[c] = [op |-> "unpair", pc |-> "endpoint", target |-> daemon, att |-> NoAttempt]
BY MobileAssumption DEF unpair_self, Begin, Running, MobileTyped, OneCall, Call, MobilePcs

LEMMA CachedEffect ==
  ASSUME MobileTyped, CallShape, NEW c \in Calls,
         Cached(c)
  PROVE  Moved(c, "connect")
BY CallMoves DEF Cached, MobileTyped, MobilePcs

LEMMA BindEndpointEffect ==
  ASSUME MobileTyped, CallShape, NEW c \in Calls,
         BindEndpoint(c)
  PROVE  Moved(c, "bind")
BY CallMoves DEF BindEndpoint, HoldsWhileBinding, MobileTyped, MobilePcs

LEMMA EndpointBoundEffect ==
  ASSUME MobileTyped, CallShape, NEW c \in Calls,
         EndpointBound(c)
  PROVE  Moved(c, "connect")
BY CallMoves DEF EndpointBound, MobileTyped, MobilePcs

LEMMA WelcomeEffect ==
  ASSUME MobileTyped, CallShape, NEW c \in Calls,
         Welcome(c)
  PROVE  \/ call[c].op = "pair" /\ Moved(c, "ask") /\ UNCHANGED mixed
         \/ call[c].op # "pair" /\ Moved(c, "version")
BY CallMoves DEF Welcome, MobileTyped, MobilePcs

LEMMA LabelVersionEffect ==
  ASSUME MobileTyped, CallShape, NEW c \in Calls,
         LabelVersion(c)
  PROVE  Moved(c, "host")
BY CallMoves DEF LabelVersion, MobileTyped, MobilePcs

LEMMA LabelHostEffect ==
  ASSUME MobileTyped, CallShape, NEW c \in Calls,
         LabelHost(c)
  PROVE  Moved(c, "ask")
BY CallMoves DEF LabelHost, HostOf, MobileTyped, MobilePcs

LEMMA ServeEffect ==
  ASSUME MobileTyped, CallShape, NEW c \in Calls,
         Serve(c)
  PROVE  Moved(c, "answer") \/ (Moved(c, "refused") /\ UNCHANGED paired)
BY CallMoves DEF Serve, MobileTyped, MobilePcs

LEMMA AnswerEffect ==
  ASSUME MobileTyped, CallShape, NEW c \in Calls,
         Answer(c)
  PROVE  OneCall(c) /\ call'[c] = Free
BY CallMoves DEF Answer, AfterUnpair, MobileTyped, MobilePcs

\* The daemon's SAS decides what becomes of the attempt.
PairingPendingDoes(c) ==
       /\ call[c].pc = "ask" /\ call[c].op = "pair" /\ OneCall(c) /\ call'[c] = Free
       /\ \E matches \in BOOLEAN :
          Becomes(call[c].att, attempt[call[c].att].target,
                  IF matches THEN "pending" ELSE "closed", matches, attempt[call[c].att].gate)

LEMMA PairingPendingEffect ==
  ASSUME MobileTyped, CallShape, NEW c \in Calls,
         PairingPending(c)
  PROVE  PairingPendingDoes(c)
BY CallMoves, ComparedChanges DEF PairingPending, PairingPendingDoes, MobileTyped, CallShape,
   Shaped, Call, MobilePcs, OneCall, Pairing, Stages

LEMMA ConfirmReadEffect ==
  ASSUME MobileTyped, CallShape, NEW c \in Calls,
         ConfirmRead(c)
  PROVE  \/ attempt[call[c].att].stage = "approved" /\ Moved(c, "gate")
         \/ OneCall(c) /\ call'[c] = Free
BY CallMoves DEF ConfirmRead, MobileTyped, MobilePcs

\* The attempt is completed, or the call ends.
ConfirmGateDoes(c) ==
       /\ call[c].pc = "gate"
       /\ \/ /\ GateOpens(attempt[call[c].att].gate) /\ Moved(c, "store")
             /\ Becomes(call[c].att, attempt[call[c].att].target, attempt[call[c].att].stage,
                        attempt[call[c].att].streams,
                        CompletedGate(attempt[call[c].att].gate))
          \/ OneCall(c) /\ call'[c] = Free /\ UNCHANGED attempt

LEMMA ConfirmGateEffect ==
  ASSUME MobileTyped, CallShape, NEW c \in Calls,
         ConfirmGate(c)
  PROVE  ConfirmGateDoes(c)
BY CallMoves, GateChanges DEF ConfirmGate, ConfirmGateDoes, GateOpens, MobileTyped, CallShape,
   Shaped, Call, MobilePcs, OneCall, Pairing, Stages

LEMMA ConfirmStoreEffect ==
  ASSUME MobileTyped, CallShape, NEW c \in Calls,
         ConfirmStore(c)
  PROVE  OneCall(c) /\ call'[c] = Free
BY CallMoves DEF ConfirmStore, MobileTyped, MobilePcs

\* The call is over, and with it the attempt it dials for.
BreakDoes(c) ==
       /\ call[c].pc # "done" /\ OneCall(c) /\ call'[c] = Free
       /\ IF call[c].op = "pair"
          THEN Becomes(call[c].att, attempt[call[c].att].target, "closed",
                       attempt[call[c].att].streams, attempt[call[c].att].gate)
          ELSE UNCHANGED attempt

LEMMA BreakEffect ==
  ASSUME MobileTyped, CallShape, NEW c \in Calls,
         Break(c)
  PROVE  BreakDoes(c)
BY CallMoves, StageChanges DEF Break, BreakDoes, Running, MobileTyped, CallShape, Shaped, Call,
   MobilePcs, OneCall, Pairing, Stages

\* The confirmation is recorded, and a call reads the answer if the streams are there.
confirmDoes(c, a) ==
       /\ attempt[a].stage \notin {"unused", "dialling"}
       /\ ~attempt[a].gate.cancelled /\ ~attempt[a].gate.persisted
       /\ Becomes(a, attempt[a].target, attempt[a].stage, FALSE,
                  ConfirmedGate(attempt[a].gate))
       /\ \/ /\ OneCall(c) /\ attempt[a].streams /\ call[c].pc = "done"
             /\ call'[c] = [op |-> "confirm", pc |-> "read",
                             target |-> attempt[a].target, att |-> a]
          \/ UNCHANGED call

LEMMA confirmEffect ==
  ASSUME MobileTyped, CallShape, NEW c \in Calls, NEW a \in Attempts,
         confirm(c, a)
  PROVE  confirmDoes(c, a)
<1>1. Becomes(a, attempt[a].target, attempt[a].stage, FALSE, ConfirmedGate(attempt[a].gate))
  BY ConfirmChanges DEF confirm, MobileTyped
<1>2. CASE attempt[a].streams
  <2>1. /\ call[c].pc = "done" /\ attempt[a].stage \notin {"unused", "dialling"}
        /\ ~attempt[a].gate.cancelled /\ ~attempt[a].gate.persisted
        /\ call' = [call EXCEPT ![c] =
             [op |-> "confirm", pc |-> "read", target |-> attempt[a].target, att |-> a]]
    BY <1>2 DEF confirm, Begin, Running
  <2>2. attempt[a].target \in Daemons \cup {NoDaemon}
    BY DEF MobileTyped, Pairing
  <2>3. OneCall(c) /\ call'[c] = [op |-> "confirm", pc |-> "read", target |-> attempt[a].target,
                                 att |-> a]
    BY <2>1, <2>2 DEF MobileTyped, OneCall, Call, MobilePcs
  <2>4. QED
    BY <1>1, <1>2, <2>1, <2>3 DEF confirmDoes
<1>3. CASE ~attempt[a].streams
  BY <1>1, <1>3 DEF confirm, confirmDoes
<1>4. QED
  BY <1>2, <1>3

\* A call dials for an attempt that was not used before.
pair_with_ticketDoes(c, d, a) ==
       /\ attempt[a].stage = "unused" /\ call[c].pc = "done"
       /\ Becomes(a, d, "dialling", attempt[a].streams, attempt[a].gate)
       /\ OneCall(c) /\ call'[c] = [op |-> "pair", pc |-> "endpoint", target |-> d, att |-> a]

LEMMA pair_with_ticketEffect ==
  ASSUME MobileTyped, CallShape, NEW c \in Calls, NEW d \in Daemons, NEW a \in Attempts,
         pair_with_ticket(c, d, a)
  PROVE  pair_with_ticketDoes(c, d, a)
<1>1. Becomes(a, d, "dialling", attempt[a].streams, attempt[a].gate)
  BY DiallingStarts DEF pair_with_ticket, MobileTyped
<1>2. /\ call[c].pc = "done" /\ attempt[a].stage = "unused"
      /\ call' = [call EXCEPT ![c] = [op |-> "pair", pc |-> "endpoint", target |-> d, att |-> a]]
  BY DEF pair_with_ticket, Begin, Running
<1>3. OneCall(c) /\ call'[c] = [op |-> "pair", pc |-> "endpoint", target |-> d, att |-> a]
  BY <1>2 DEF MobileTyped, OneCall, Call, MobilePcs
<1>4. QED
  BY <1>1, <1>2, <1>3 DEF pair_with_ticketDoes

LEMMA ApproveEffect ==
  ASSUME MobileTyped, CallShape, NEW a \in Attempts,
         Approve(a)
  PROVE  /\ attempt[a].stage = "pending"
         /\ Becomes(a, attempt[a].target, "approved", attempt[a].streams, attempt[a].gate)
BY CallMoves, StageChanges DEF Approve, MobileTyped, CallShape, Shaped, Call, MobilePcs, OneCall,
   Pairing, Stages

LEMMA DenyEffect ==
  ASSUME MobileTyped, CallShape, NEW a \in Attempts,
         Deny(a)
  PROVE  /\ attempt[a].stage = "pending"
         /\ Becomes(a, attempt[a].target, "denied", attempt[a].streams, attempt[a].gate)
BY CallMoves, StageChanges DEF Deny, MobileTyped, CallShape, Shaped, Call, MobilePcs, OneCall,
   Pairing, Stages

\* The gate is closed and the streams are gone.
cancelDoes(a) ==
       /\ attempt[a].stage \notin {"unused", "dialling"} /\ ~attempt[a].gate.persisted
       /\ Becomes(a, attempt[a].target, attempt[a].stage, FALSE,
                  CancelledGate(attempt[a].gate))

LEMMA cancelEffect ==
  ASSUME MobileTyped, CallShape, NEW a \in Attempts,
         cancel(a)
  PROVE  cancelDoes(a)
BY CallMoves, CancelChanges DEF cancel, cancelDoes, MobileTyped, CallShape, Shaped, Call,
   MobilePcs, OneCall, Pairing, Stages


\* The shapes are kept by every step.
LEMMA MobileTypedStep ==
  ASSUME MobileIInv, [MobileNext]_mobileVars
  PROVE  MobileTyped'
<1> USE MobileAssumption DEF MobileIInv
<1>1. ASSUME NEW c \in Calls, Request(c)
      PROVE  MobileTyped'
  <2>1. call' \in [Calls -> Call] /\ attempt' \in [Attempts -> Pairing]
    BY <1>1, RequestEffect DEF Request, MobileTyped, OneCall
  <2>2. QED
    BY <1>1, <2>1 DEF Request, MobileTyped, CallShape, Shaped
<1>2. ASSUME NEW c \in Calls, unpair_self(c)
      PROVE  MobileTyped'
  <2>1. call' \in [Calls -> Call] /\ attempt' \in [Attempts -> Pairing]
    BY <1>2, unpair_selfEffect DEF unpair_self, MobileTyped, OneCall
  <2>2. QED
    BY <1>2, <2>1 DEF unpair_self, MobileTyped, CallShape, Shaped
<1>3. ASSUME NEW c \in Calls, Cached(c)
      PROVE  MobileTyped'
  <2>1. call' \in [Calls -> Call] /\ attempt' \in [Attempts -> Pairing]
    BY <1>3, CachedEffect DEF Cached, MobileTyped, Moved, OneCall, Becomes
  <2>2. QED
    BY <1>3, <2>1 DEF Cached, MobileTyped, CallShape, Shaped
<1>4. ASSUME NEW c \in Calls, BindEndpoint(c)
      PROVE  MobileTyped'
  <2>1. call' \in [Calls -> Call] /\ attempt' \in [Attempts -> Pairing]
    BY <1>4, BindEndpointEffect DEF BindEndpoint, MobileTyped, Moved, OneCall, Becomes
  <2>2. QED
    BY <1>4, <2>1 DEF BindEndpoint, HoldsWhileBinding, MobileTyped, CallShape, Shaped
<1>5. ASSUME NEW c \in Calls, EndpointBound(c)
      PROVE  MobileTyped'
  <2>1. call' \in [Calls -> Call] /\ attempt' \in [Attempts -> Pairing]
    BY <1>5, EndpointBoundEffect DEF EndpointBound, MobileTyped, Moved, OneCall, Becomes
  <2>2. QED
    BY <1>5, <2>1 DEF EndpointBound, MobileTyped, CallShape, Shaped
<1>6. ASSUME NEW c \in Calls, Welcome(c)
      PROVE  MobileTyped'
  <2>1. call' \in [Calls -> Call] /\ attempt' \in [Attempts -> Pairing]
    BY <1>6, WelcomeEffect DEF Welcome, MobileTyped, Moved, OneCall, Becomes
  <2>2. QED
    BY <1>6, <2>1 DEF Welcome, MobileTyped, CallShape, Shaped
<1>7. ASSUME NEW c \in Calls, LabelVersion(c)
      PROVE  MobileTyped'
  <2>1. call' \in [Calls -> Call] /\ attempt' \in [Attempts -> Pairing]
    BY <1>7, LabelVersionEffect DEF LabelVersion, MobileTyped, Moved, OneCall, Becomes
  <2>2. QED
    BY <1>7, <2>1 DEF LabelVersion, MobileTyped, CallShape, Shaped
<1>8. ASSUME NEW c \in Calls, LabelHost(c)
      PROVE  MobileTyped'
  <2>1. call' \in [Calls -> Call] /\ attempt' \in [Attempts -> Pairing]
    BY <1>8, LabelHostEffect DEF LabelHost, MobileTyped, Moved, OneCall, Becomes
  <2>2. QED
    BY <1>8, <2>1 DEF LabelHost, HostOf, MobileTyped, CallShape, Shaped
<1>9. ASSUME NEW c \in Calls, Serve(c)
      PROVE  MobileTyped'
  <2>1. call' \in [Calls -> Call] /\ attempt' \in [Attempts -> Pairing]
    BY <1>9, ServeEffect DEF Serve, MobileTyped, Moved, OneCall, Becomes
  <2>2. QED
    BY <1>9, <2>1 DEF Serve, MobileTyped, CallShape, Shaped
<1>10. ASSUME NEW c \in Calls, Answer(c)
      PROVE  MobileTyped'
  <2>1. call' \in [Calls -> Call] /\ attempt' \in [Attempts -> Pairing]
    BY <1>10, AnswerEffect DEF Answer, MobileTyped, Moved, OneCall, Becomes
  <2>2. QED
    BY <1>10, <2>1 DEF Answer, AfterUnpair, MobileTyped, CallShape, Shaped
<1>11. ASSUME NEW c \in Calls, PairingPending(c)
      PROVE  MobileTyped'
  <2>0. PairingPendingDoes(c)
    BY <1>11, PairingPendingEffect
  <2>1. call' \in [Calls -> Call] /\ attempt' \in [Attempts -> Pairing]
    BY <2>0 DEF PairingPendingDoes, MobileTyped, Moved, OneCall, Becomes
  <2>2. QED
    BY <1>11, <2>1 DEF PairingPending, MobileTyped, CallShape, Shaped
<1>12. ASSUME NEW c \in Calls, ConfirmRead(c)
      PROVE  MobileTyped'
  <2>1. call' \in [Calls -> Call] /\ attempt' \in [Attempts -> Pairing]
    BY <1>12, ConfirmReadEffect DEF ConfirmRead, MobileTyped, Moved, OneCall, Becomes
  <2>2. QED
    BY <1>12, <2>1 DEF ConfirmRead, MobileTyped, CallShape, Shaped
<1>13. ASSUME NEW c \in Calls, ConfirmGate(c)
      PROVE  MobileTyped'
  <2>0. ConfirmGateDoes(c)
    BY <1>13, ConfirmGateEffect
  <2>1. call' \in [Calls -> Call] /\ attempt' \in [Attempts -> Pairing]
    BY <2>0 DEF ConfirmGateDoes, MobileTyped, Moved, OneCall, Becomes
  <2>2. QED
    BY <1>13, <2>1 DEF ConfirmGate, GateOpens, MobileTyped, CallShape, Shaped
<1>14. ASSUME NEW c \in Calls, ConfirmStore(c)
      PROVE  MobileTyped'
  <2>1. call' \in [Calls -> Call] /\ attempt' \in [Attempts -> Pairing]
    BY <1>14, ConfirmStoreEffect DEF ConfirmStore, MobileTyped, Moved, OneCall, Becomes
  <2>2. QED
    BY <1>14, <2>1 DEF ConfirmStore, MobileTyped, CallShape, Shaped
<1>15. ASSUME NEW c \in Calls, Break(c)
      PROVE  MobileTyped'
  <2>0. BreakDoes(c)
    BY <1>15, BreakEffect
  <2>1. call' \in [Calls -> Call] /\ attempt' \in [Attempts -> Pairing]
    BY <2>0 DEF BreakDoes, MobileTyped, Moved, OneCall, Becomes
  <2>2. QED
    BY <1>15, <2>1 DEF Break, MobileTyped, CallShape, Shaped
<1>16. ASSUME NEW c \in Calls, NEW a \in Attempts, confirm(c, a)
      PROVE  MobileTyped'
  <2>0. confirmDoes(c, a)
    BY <1>16, confirmEffect
  <2>1. call' \in [Calls -> Call] /\ attempt' \in [Attempts -> Pairing]
    BY <2>0 DEF confirmDoes, MobileTyped, Moved, OneCall, Becomes
  <2>2. QED
    BY <1>16, <2>1 DEF confirm, MobileTyped, CallShape, Shaped
<1>17. ASSUME NEW c \in Calls, NEW d \in Daemons, NEW a \in Attempts, pair_with_ticket(c, d, a)
      PROVE  MobileTyped'
  <2>0. pair_with_ticketDoes(c, d, a)
    BY <1>17, pair_with_ticketEffect
  <2>1. call' \in [Calls -> Call] /\ attempt' \in [Attempts -> Pairing]
    BY <2>0 DEF pair_with_ticketDoes, MobileTyped, Moved, OneCall, Becomes
  <2>2. QED
    BY <1>17, <2>1 DEF pair_with_ticket, MobileTyped, CallShape, Shaped
<1>18. ASSUME NEW a \in Attempts, Approve(a)
      PROVE  MobileTyped'
  <2>1. call' \in [Calls -> Call] /\ attempt' \in [Attempts -> Pairing]
    BY <1>18, ApproveEffect DEF Approve, MobileTyped, Becomes
  <2>2. QED
    BY <1>18, <2>1 DEF Approve, MobileTyped, GatesInv, Gated
<1>19. ASSUME NEW a \in Attempts, Deny(a)
      PROVE  MobileTyped'
  <2>1. call' \in [Calls -> Call] /\ attempt' \in [Attempts -> Pairing]
    BY <1>19, DenyEffect DEF Deny, MobileTyped, Becomes
  <2>2. QED
    BY <1>19, <2>1 DEF Deny, MobileTyped, CallShape, Shaped
<1>20. ASSUME NEW a \in Attempts, cancel(a)
      PROVE  MobileTyped'
  <2>0. cancelDoes(a)
    BY <1>20, cancelEffect
  <2>1. call' \in [Calls -> Call] /\ attempt' \in [Attempts -> Pairing]
    BY <1>20, <2>0 DEF cancel, cancelDoes, MobileTyped, Becomes
  <2>2. QED
    BY <1>20, <2>1 DEF cancel, MobileTyped, CallShape, Shaped
<1>21. CASE UNCHANGED mobileVars
  BY <1>21 DEF mobileVars, MobileTyped
<1>22. QED
  BY <1>1, <1>2, <1>3, <1>4, <1>5, <1>6, <1>7, <1>8, <1>9, <1>10, <1>11, <1>12, <1>13, <1>14,
     <1>15, <1>16, <1>17, <1>18, <1>19, <1>20, <1>21 DEF MobileNext, CallStep

\* It is enough to look at the call that changes.
LEMMA ShapeIsLocal ==
  ASSUME CallShape, NEW c \in Calls, OneCall(c), Shaped(call'[c])
  PROVE  CallShape'
BY DEF CallShape, OneCall, Shaped

\* Calls go on from where they are.
LEMMA CallShapeStep ==
  ASSUME MobileIInv, [MobileNext]_mobileVars
  PROVE  CallShape'
<1> USE MobileAssumption DEF MobileIInv
<1>1. ASSUME NEW c \in Calls, Request(c)
      PROVE  CallShape'
  <2>1. OneCall(c) /\ Shaped(call'[c])
    BY <1>1, RequestEffect DEF Request, Shaped, MobileTyped
  <2>2. QED
    BY <2>1, ShapeIsLocal
<1>2. ASSUME NEW c \in Calls, unpair_self(c)
      PROVE  CallShape'
  <2>1. OneCall(c) /\ Shaped(call'[c])
    BY <1>2, unpair_selfEffect DEF unpair_self, Shaped, MobileTyped
  <2>2. QED
    BY <2>1, ShapeIsLocal
<1>3. ASSUME NEW c \in Calls, Cached(c)
      PROVE  CallShape'
  <2>1. OneCall(c) /\ Shaped(call'[c])
    BY <1>3, CachedEffect DEF Cached, Moved, CallShape, Shaped, MobileTyped, Free
  <2>2. QED
    BY <2>1, ShapeIsLocal
<1>4. ASSUME NEW c \in Calls, BindEndpoint(c)
      PROVE  CallShape'
  <2>1. OneCall(c) /\ Shaped(call'[c])
    BY <1>4, BindEndpointEffect DEF BindEndpoint, Moved, CallShape, Shaped, MobileTyped, Free
  <2>2. QED
    BY <2>1, ShapeIsLocal
<1>5. ASSUME NEW c \in Calls, EndpointBound(c)
      PROVE  CallShape'
  <2>1. OneCall(c) /\ Shaped(call'[c])
    BY <1>5, EndpointBoundEffect DEF EndpointBound, Moved, CallShape, Shaped, MobileTyped, Free
  <2>2. QED
    BY <2>1, ShapeIsLocal
<1>6. ASSUME NEW c \in Calls, Welcome(c)
      PROVE  CallShape'
  <2>1. OneCall(c) /\ Shaped(call'[c])
    BY <1>6, WelcomeEffect DEF Welcome, Moved, CallShape, Shaped, MobileTyped, Call, MobilePcs
  <2>2. QED
    BY <2>1, ShapeIsLocal
<1>7. ASSUME NEW c \in Calls, LabelVersion(c)
      PROVE  CallShape'
  <2>1. OneCall(c) /\ Shaped(call'[c])
    BY <1>7, LabelVersionEffect DEF LabelVersion, Moved, CallShape, Shaped, MobileTyped, Free
  <2>2. QED
    BY <2>1, ShapeIsLocal
<1>8. ASSUME NEW c \in Calls, LabelHost(c)
      PROVE  CallShape'
  <2>1. OneCall(c) /\ Shaped(call'[c])
    BY <1>8, LabelHostEffect DEF LabelHost, Moved, CallShape, Shaped, MobileTyped, Free
  <2>2. QED
    BY <2>1, ShapeIsLocal
<1>9. ASSUME NEW c \in Calls, Serve(c)
      PROVE  CallShape'
  <2>1. OneCall(c) /\ Shaped(call'[c])
    BY <1>9, ServeEffect DEF Serve, Moved, CallShape, Shaped, MobileTyped, Call, MobilePcs
  <2>2. QED
    BY <2>1, ShapeIsLocal
<1>10. ASSUME NEW c \in Calls, Answer(c)
      PROVE  CallShape'
  <2>1. OneCall(c) /\ Shaped(call'[c])
    BY <1>10, AnswerEffect DEF Answer, Moved, CallShape, Shaped, MobileTyped, Free
  <2>2. QED
    BY <2>1, ShapeIsLocal
<1>11. ASSUME NEW c \in Calls, PairingPending(c)
      PROVE  CallShape'
  <2>0. PairingPendingDoes(c)
    BY <1>11, PairingPendingEffect
  <2>1. OneCall(c) /\ Shaped(call'[c])
    BY <2>0 DEF PairingPendingDoes, Moved, CallShape, Shaped, MobileTyped, Free
  <2>2. QED
    BY <2>1, ShapeIsLocal
<1>12. ASSUME NEW c \in Calls, ConfirmRead(c)
      PROVE  CallShape'
  <2>1. OneCall(c) /\ Shaped(call'[c])
    BY <1>12, ConfirmReadEffect DEF ConfirmRead, Moved, CallShape, Shaped, MobileTyped, Free
  <2>2. QED
    BY <2>1, ShapeIsLocal
<1>13. ASSUME NEW c \in Calls, ConfirmGate(c)
      PROVE  CallShape'
  <2>0. ConfirmGateDoes(c)
    BY <1>13, ConfirmGateEffect
  <2>1. OneCall(c) /\ Shaped(call'[c])
    BY <2>0 DEF ConfirmGateDoes, Moved, CallShape, Shaped, MobileTyped, Free
  <2>2. QED
    BY <2>1, ShapeIsLocal
<1>14. ASSUME NEW c \in Calls, ConfirmStore(c)
      PROVE  CallShape'
  <2>1. OneCall(c) /\ Shaped(call'[c])
    BY <1>14, ConfirmStoreEffect DEF ConfirmStore, Moved, CallShape, Shaped, MobileTyped, Free
  <2>2. QED
    BY <2>1, ShapeIsLocal
<1>15. ASSUME NEW c \in Calls, Break(c)
      PROVE  CallShape'
  <2>0. BreakDoes(c)
    BY <1>15, BreakEffect
  <2>1. OneCall(c) /\ Shaped(call'[c])
    BY <2>0 DEF BreakDoes, Moved, CallShape, Shaped, MobileTyped, Free
  <2>2. QED
    BY <2>1, ShapeIsLocal
<1>16. ASSUME NEW c \in Calls, NEW a \in Attempts, confirm(c, a)
      PROVE  CallShape'
  <2>0. confirmDoes(c, a)
    BY <1>16, confirmEffect
  <2>1. CASE UNCHANGED call
    BY <2>1 DEF CallShape
  <2>2. CASE ~UNCHANGED call
    <3>1. attempt[a].target \in Daemons
      BY <1>16 DEF confirm, GatesInv, Gated
    <3>2. OneCall(c) /\ Shaped(call'[c])
      BY <1>16, <2>2, <3>1, <2>0 DEF confirmDoes, Shaped
    <3>3. QED
      BY <3>2, ShapeIsLocal
  <2>3. QED
    BY <2>1, <2>2
<1>17. ASSUME NEW c \in Calls, NEW d \in Daemons, NEW a \in Attempts, pair_with_ticket(c, d, a)
      PROVE  CallShape'
  <2>0. pair_with_ticketDoes(c, d, a)
    BY <1>17, pair_with_ticketEffect
  <2>1. OneCall(c) /\ Shaped(call'[c])
    BY <2>0 DEF pair_with_ticketDoes, Moved, CallShape, Shaped, MobileTyped, Free
  <2>2. QED
    BY <2>1, ShapeIsLocal
<1>18. ASSUME NEW a \in Attempts, Approve(a)
      PROVE  CallShape'
  BY <1>18 DEF Approve, CallShape
<1>19. ASSUME NEW a \in Attempts, Deny(a)
      PROVE  CallShape'
  BY <1>19 DEF Deny, CallShape
<1>20. ASSUME NEW a \in Attempts, cancel(a)
      PROVE  CallShape'
  BY <1>20 DEF cancel, CallShape
<1>21. CASE UNCHANGED mobileVars
  BY <1>21 DEF mobileVars, CallShape, Shaped
<1>22. QED
  BY <1>1, <1>2, <1>3, <1>4, <1>5, <1>6, <1>7, <1>8, <1>9, <1>10, <1>11, <1>12, <1>13, <1>14,
     <1>15, <1>16, <1>17, <1>18, <1>19, <1>20, <1>21 DEF MobileNext, CallStep

\* It is enough to look at the attempt that changes.
LEMMA GateIsLocal ==
  ASSUME GatesInv, NEW a \in Attempts, NEW target, NEW stage, NEW streams, NEW gate,
         Becomes(a, target, stage, streams, gate), Gated(attempt'[a])
  PROVE  GatesInv'
BY DEF GatesInv, Becomes, Gated

\* What the gates say is kept.
LEMMA GatesInvStep ==
  ASSUME MobileIInv, [MobileNext]_mobileVars
  PROVE  GatesInv'
<1> USE MobileAssumption DEF MobileIInv
<1>1. ASSUME NEW c \in Calls, Request(c)
      PROVE  GatesInv'
  BY <1>1 DEF Request, GatesInv
<1>2. ASSUME NEW c \in Calls, unpair_self(c)
      PROVE  GatesInv'
  BY <1>2 DEF unpair_self, GatesInv
<1>3. ASSUME NEW c \in Calls, Cached(c)
      PROVE  GatesInv'
  BY <1>3 DEF Cached, GatesInv
<1>4. ASSUME NEW c \in Calls, BindEndpoint(c)
      PROVE  GatesInv'
  BY <1>4 DEF BindEndpoint, GatesInv
<1>5. ASSUME NEW c \in Calls, EndpointBound(c)
      PROVE  GatesInv'
  BY <1>5 DEF EndpointBound, GatesInv
<1>6. ASSUME NEW c \in Calls, Welcome(c)
      PROVE  GatesInv'
  BY <1>6 DEF Welcome, GatesInv
<1>7. ASSUME NEW c \in Calls, LabelVersion(c)
      PROVE  GatesInv'
  BY <1>7 DEF LabelVersion, GatesInv
<1>8. ASSUME NEW c \in Calls, LabelHost(c)
      PROVE  GatesInv'
  BY <1>8 DEF LabelHost, GatesInv
<1>9. ASSUME NEW c \in Calls, Serve(c)
      PROVE  GatesInv'
  BY <1>9 DEF Serve, GatesInv
<1>10. ASSUME NEW c \in Calls, Answer(c)
      PROVE  GatesInv'
  BY <1>10 DEF Answer, GatesInv
<1>11. ASSUME NEW c \in Calls, PairingPending(c)
      PROVE  GatesInv'
  <2>0. PairingPendingDoes(c)
    BY <1>11, PairingPendingEffect
  <2>1. call[c].att \in Attempts /\ attempt[call[c].att].stage = "dialling"
    BY <2>0 DEF PairingPendingDoes, CallShape, Shaped, AttemptsInv, MobileTyped, Call
  <2>2. attempt[call[c].att] \in Pairing /\ attempt[call[c].att].gate \in Gate
    BY <2>1 DEF MobileTyped, Pairing
  <2>3. PICK target, stage, streams, gate : Becomes(call[c].att, target, stage, streams, gate)
    BY <2>0 DEF PairingPendingDoes
  <2>4. Gated(attempt'[call[c].att])
    BY <1>11, <2>1, <2>2, <2>0 DEF PairingPendingDoes, CallShape, Shaped, AttemptsInv, Becomes,
       GatesInv, Gated, NewGate, Gate, MobileTyped
  <2>5. QED
    BY <2>1, <2>3, <2>4, GateIsLocal
<1>12. ASSUME NEW c \in Calls, ConfirmRead(c)
      PROVE  GatesInv'
  BY <1>12 DEF ConfirmRead, GatesInv
<1>13. ASSUME NEW c \in Calls, ConfirmGate(c)
      PROVE  GatesInv'
  <2>0. ConfirmGateDoes(c)
    BY <1>13, ConfirmGateEffect
  <2>1. CASE UNCHANGED attempt
    BY <2>1 DEF GatesInv
  <2>2. CASE ~UNCHANGED attempt
    <3>1. call[c].att \in Attempts /\ attempt[call[c].att].stage = "approved"
      BY <2>0, <2>2 DEF ConfirmGateDoes, CallShape, Shaped, AttemptsInv, GateOpens, MobileTyped,
         Call
    <3>2. attempt[call[c].att] \in Pairing /\ attempt[call[c].att].gate \in Gate
      BY <3>1 DEF MobileTyped, Pairing
    <3>3. PICK target, stage, streams, gate : Becomes(call[c].att, target, stage, streams, gate)
      BY <2>0, <2>2 DEF ConfirmGateDoes
    <3>4. Gated(attempt'[call[c].att])
      <4> DEFINE p == attempt[call[c].att]
      <4> DEFINE q == attempt'[call[c].att]
      <4>1. /\ p.gate.local_confirmed /\ ~p.gate.cancelled /\ q.gate = CompletedGate(p.gate)
            /\ q.stage = p.stage /\ q.streams = p.streams /\ q.target = p.target
        BY <2>0, <2>2 DEF ConfirmGateDoes, GateOpens, Becomes
      <4>2. p.gate # NewGate /\ p.stage = "approved" /\ Gated(p)
        BY <3>1, <4>1 DEF NewGate, GatesInv
      <4>3. q.gate.local_confirmed /\ ~q.gate.cancelled
        BY <3>2, <4>1 DEF CompletedGate, Gate
      <4>4. QED
        BY <4>1, <4>2, <4>3 DEF Gated
    <3>5. QED
      BY <3>1, <3>3, <3>4, GateIsLocal
  <2>3. QED
    BY <2>1, <2>2
<1>14. ASSUME NEW c \in Calls, ConfirmStore(c)
      PROVE  GatesInv'
  BY <1>14 DEF ConfirmStore, GatesInv
<1>15. ASSUME NEW c \in Calls, Break(c)
      PROVE  GatesInv'
  <2>0. BreakDoes(c)
    BY <1>15, BreakEffect
  <2>1. CASE UNCHANGED attempt
    BY <2>1 DEF GatesInv
  <2>2. CASE ~UNCHANGED attempt
    <3>1. call[c].att \in Attempts /\ attempt[call[c].att].stage = "dialling"
      BY <2>0, <2>2 DEF BreakDoes, CallShape, Shaped, AttemptsInv, MobileTyped, Call
    <3>2. attempt[call[c].att] \in Pairing /\ attempt[call[c].att].gate \in Gate
      BY <3>1 DEF MobileTyped, Pairing
    <3>3. PICK target, stage, streams, gate : Becomes(call[c].att, target, stage, streams, gate)
      BY <2>0, <2>2 DEF BreakDoes
    <3>4. Gated(attempt'[call[c].att])
      BY <1>15, <2>2, <3>1, <3>2, <2>0 DEF BreakDoes, CallShape, Shaped, AttemptsInv, Becomes,
         GatesInv, Gated, NewGate, Gate, MobileTyped
    <3>5. QED
      BY <3>1, <3>3, <3>4, GateIsLocal
  <2>3. QED
    BY <2>1, <2>2
<1>16. ASSUME NEW c \in Calls, NEW a \in Attempts, confirm(c, a)
      PROVE  GatesInv'
  <2>0. confirmDoes(c, a)
    BY <1>16, confirmEffect
  <2>2. attempt[a] \in Pairing /\ attempt[a].gate \in Gate
    BY DEF MobileTyped, Pairing
  <2>3. PICK target, stage, streams, gate : Becomes(a, target, stage, streams, gate)
    BY <2>0 DEF confirmDoes
  <2>4. Gated(attempt'[a])
    BY <2>0, <2>2 DEF confirmDoes, ConfirmedGate, Becomes, GatesInv, Gated, NewGate, Gate
  <2>5. QED
    BY <2>3, <2>4, GateIsLocal
<1>17. ASSUME NEW c \in Calls, NEW d \in Daemons, NEW a \in Attempts, pair_with_ticket(c, d, a)
      PROVE  GatesInv'
  <2>0. pair_with_ticketDoes(c, d, a)
    BY <1>17, pair_with_ticketEffect
  <2>2. attempt[a] \in Pairing /\ attempt[a].gate \in Gate
    BY DEF MobileTyped, Pairing
  <2>3. PICK target, stage, streams, gate : Becomes(a, target, stage, streams, gate)
    BY <2>0 DEF pair_with_ticketDoes
  <2>4. Gated(attempt'[a])
    BY <2>0, <2>2 DEF pair_with_ticketDoes, Becomes, GatesInv, Gated, NewGate, Gate, MobileTyped
  <2>5. QED
    BY <2>3, <2>4, GateIsLocal
<1>18. ASSUME NEW a \in Attempts, Approve(a)
      PROVE  GatesInv'
  <2>2. attempt[a] \in Pairing /\ attempt[a].gate \in Gate
    BY DEF MobileTyped, Pairing
  <2>3. PICK target, stage, streams, gate : Becomes(a, target, stage, streams, gate)
    BY <1>18, ApproveEffect
  <2>4. Gated(attempt'[a])
    BY <1>18, <2>2, ApproveEffect DEF Becomes, GatesInv, Gated, NewGate, Gate, MobileTyped
  <2>5. QED
    BY <2>3, <2>4, GateIsLocal
<1>19. ASSUME NEW a \in Attempts, Deny(a)
      PROVE  GatesInv'
  <2>2. attempt[a] \in Pairing /\ attempt[a].gate \in Gate
    BY DEF MobileTyped, Pairing
  <2>3. PICK target, stage, streams, gate : Becomes(a, target, stage, streams, gate)
    BY <1>19, DenyEffect
  <2>4. Gated(attempt'[a])
    BY <1>19, <2>2, DenyEffect DEF Becomes, GatesInv, Gated, NewGate, Gate, MobileTyped
  <2>5. QED
    BY <2>3, <2>4, GateIsLocal
<1>20. ASSUME NEW a \in Attempts, cancel(a)
      PROVE  GatesInv'
  <2>0. cancelDoes(a)
    BY <1>20, cancelEffect
  <2>2. attempt[a] \in Pairing /\ attempt[a].gate \in Gate
    BY DEF MobileTyped, Pairing
  <2>3. PICK target, stage, streams, gate : Becomes(a, target, stage, streams, gate)
    BY <2>0 DEF cancelDoes
  <2>4. Gated(attempt'[a])
    BY <2>0, <2>2 DEF cancelDoes, CancelledGate, Becomes, GatesInv, Gated, NewGate, Gate
  <2>5. QED
    BY <2>3, <2>4, GateIsLocal
<1>21. CASE UNCHANGED mobileVars
  BY <1>21 DEF mobileVars, GatesInv, Gated
<1>22. QED
  BY <1>1, <1>2, <1>3, <1>4, <1>5, <1>6, <1>7, <1>8, <1>9, <1>10, <1>11, <1>12, <1>13, <1>14,
     <1>15, <1>16, <1>17, <1>18, <1>19, <1>20, <1>21 DEF MobileNext, CallStep

\* Nothing but the end of its own call or of another stage changes where an
\* attempt stands.
Staged(c) ==
  \A b \in Attempts :
    \/ attempt'[b].stage = attempt[b].stage
    \/ attempt[b].stage \in {"unused", "pending"}
    \/ /\ call[c].op = "pair" /\ call[c].att = b
       /\ attempt[b].stage = "dialling" /\ call'[c].op # "pair"

LEMMA AttemptsAreLocal ==
  ASSUME MobileTyped, CallShape, AttemptsInv, NEW c \in Calls, OneCall(c), Staged(c),
         call'[c].op = "pair" => call[c].op = "pair" /\ call'[c].att = call[c].att,
         call'[c].pc = "gate" =>
           call'[c].att \in Attempts /\ attempt[call'[c].att].stage = "approved"
  PROVE  AttemptsInv'
<1> SUFFICES ASSUME NEW o \in Calls
             PROVE  /\ call'[o].op = "pair" => attempt'[call'[o].att].stage = "dialling"
                    /\ \A e \in Calls : call'[o].op = "pair" /\ call'[e].op = "pair"
                                       /\ call'[e].att = call'[o].att =>
                         e = o
                    /\ call'[o].pc = "gate" => attempt'[call'[o].att].stage = "approved"
  BY DEF AttemptsInv
<1>1. ASSUME call'[o].op = "pair"
      PROVE  /\ call[o].op = "pair" /\ call'[o].att = call[o].att
             /\ call[o].att \in Attempts /\ attempt[call[o].att].stage = "dialling"
  BY <1>1 DEF OneCall, AttemptsInv, CallShape, Shaped
<1>2. ASSUME call'[o].op = "pair" PROVE attempt'[call'[o].att].stage = "dialling"
  BY <1>1, <1>2 DEF Staged, AttemptsInv, OneCall
<1>3. ASSUME NEW e \in Calls, call'[o].op = "pair", call'[e].op = "pair",
             call'[e].att = call'[o].att
      PROVE  e = o
  BY <1>3 DEF OneCall, AttemptsInv
<1>4. ASSUME call'[o].pc = "gate" PROVE attempt'[call'[o].att].stage = "approved"
  <2>1. call'[o].att \in Attempts /\ attempt[call'[o].att].stage = "approved"
    BY <1>4 DEF OneCall, AttemptsInv, CallShape, Shaped
  <2>2. QED
    BY <2>1 DEF Staged
<1>5. QED
  BY <1>2, <1>3, <1>4

\* The same, when no call changes.
LEMMA AttemptsStay ==
  ASSUME MobileTyped, CallShape, AttemptsInv, UNCHANGED call,
         \A b \in Attempts : attempt'[b].stage = attempt[b].stage \/ attempt[b].stage = "pending"
  PROVE  AttemptsInv'
BY DEF AttemptsInv, CallShape, Shaped

\* Each attempt keeps its one call.
LEMMA AttemptsInvStep ==
  ASSUME MobileIInv, [MobileNext]_mobileVars
  PROVE  AttemptsInv'
<1> USE MobileAssumption DEF MobileIInv
<1>1. ASSUME NEW c \in Calls, Request(c)
      PROVE  AttemptsInv'
  <2>1. OneCall(c)
    BY <1>1, RequestEffect DEF Moved
  <2>2. Staged(c)
    BY <1>1 DEF Request, Staged
  <2>3. /\ call'[c].op = "pair" => call[c].op = "pair" /\ call'[c].att = call[c].att
        /\ call'[c].pc = "gate" =>
             call'[c].att \in Attempts /\ attempt[call'[c].att].stage = "approved"
    BY <1>1, RequestEffect DEF Moved, CallShape, Shaped, Free
  <2>4. QED
    BY <2>1, <2>2, <2>3, AttemptsAreLocal
<1>2. ASSUME NEW c \in Calls, unpair_self(c)
      PROVE  AttemptsInv'
  <2>1. OneCall(c)
    BY <1>2, unpair_selfEffect DEF Moved
  <2>2. Staged(c)
    BY <1>2 DEF unpair_self, Staged
  <2>3. /\ call'[c].op = "pair" => call[c].op = "pair" /\ call'[c].att = call[c].att
        /\ call'[c].pc = "gate" =>
             call'[c].att \in Attempts /\ attempt[call'[c].att].stage = "approved"
    BY <1>2, unpair_selfEffect DEF Moved, CallShape, Shaped, Free
  <2>4. QED
    BY <2>1, <2>2, <2>3, AttemptsAreLocal
<1>3. ASSUME NEW c \in Calls, Cached(c)
      PROVE  AttemptsInv'
  <2>1. OneCall(c)
    BY <1>3, CachedEffect DEF Moved
  <2>2. Staged(c)
    BY <1>3 DEF Cached, Staged
  <2>3. /\ call'[c].op = "pair" => call[c].op = "pair" /\ call'[c].att = call[c].att
        /\ call'[c].pc = "gate" =>
             call'[c].att \in Attempts /\ attempt[call'[c].att].stage = "approved"
    BY <1>3, CachedEffect DEF Cached, Moved, CallShape, Shaped, Free
  <2>4. QED
    BY <2>1, <2>2, <2>3, AttemptsAreLocal
<1>4. ASSUME NEW c \in Calls, BindEndpoint(c)
      PROVE  AttemptsInv'
  <2>1. OneCall(c)
    BY <1>4, BindEndpointEffect DEF Moved
  <2>2. Staged(c)
    BY <1>4 DEF BindEndpoint, Staged
  <2>3. /\ call'[c].op = "pair" => call[c].op = "pair" /\ call'[c].att = call[c].att
        /\ call'[c].pc = "gate" =>
             call'[c].att \in Attempts /\ attempt[call'[c].att].stage = "approved"
    BY <1>4, BindEndpointEffect DEF BindEndpoint, Moved, CallShape, Shaped, Free
  <2>4. QED
    BY <2>1, <2>2, <2>3, AttemptsAreLocal
<1>5. ASSUME NEW c \in Calls, EndpointBound(c)
      PROVE  AttemptsInv'
  <2>1. OneCall(c)
    BY <1>5, EndpointBoundEffect DEF Moved
  <2>2. Staged(c)
    BY <1>5 DEF EndpointBound, Staged
  <2>3. /\ call'[c].op = "pair" => call[c].op = "pair" /\ call'[c].att = call[c].att
        /\ call'[c].pc = "gate" =>
             call'[c].att \in Attempts /\ attempt[call'[c].att].stage = "approved"
    BY <1>5, EndpointBoundEffect DEF EndpointBound, Moved, CallShape, Shaped, Free
  <2>4. QED
    BY <2>1, <2>2, <2>3, AttemptsAreLocal
<1>6. ASSUME NEW c \in Calls, Welcome(c)
      PROVE  AttemptsInv'
  <2>1. OneCall(c)
    BY <1>6, WelcomeEffect DEF Moved
  <2>2. Staged(c)
    BY <1>6 DEF Welcome, Staged
  <2>3. /\ call'[c].op = "pair" => call[c].op = "pair" /\ call'[c].att = call[c].att
        /\ call'[c].pc = "gate" =>
             call'[c].att \in Attempts /\ attempt[call'[c].att].stage = "approved"
    BY <1>6, WelcomeEffect DEF Welcome, Moved, CallShape, Shaped, Free
  <2>4. QED
    BY <2>1, <2>2, <2>3, AttemptsAreLocal
<1>7. ASSUME NEW c \in Calls, LabelVersion(c)
      PROVE  AttemptsInv'
  <2>1. OneCall(c)
    BY <1>7, LabelVersionEffect DEF Moved
  <2>2. Staged(c)
    BY <1>7 DEF LabelVersion, Staged
  <2>3. /\ call'[c].op = "pair" => call[c].op = "pair" /\ call'[c].att = call[c].att
        /\ call'[c].pc = "gate" =>
             call'[c].att \in Attempts /\ attempt[call'[c].att].stage = "approved"
    BY <1>7, LabelVersionEffect DEF LabelVersion, Moved, CallShape, Shaped, Free
  <2>4. QED
    BY <2>1, <2>2, <2>3, AttemptsAreLocal
<1>8. ASSUME NEW c \in Calls, LabelHost(c)
      PROVE  AttemptsInv'
  <2>1. OneCall(c)
    BY <1>8, LabelHostEffect DEF Moved
  <2>2. Staged(c)
    BY <1>8 DEF LabelHost, Staged
  <2>3. /\ call'[c].op = "pair" => call[c].op = "pair" /\ call'[c].att = call[c].att
        /\ call'[c].pc = "gate" =>
             call'[c].att \in Attempts /\ attempt[call'[c].att].stage = "approved"
    BY <1>8, LabelHostEffect DEF LabelHost, Moved, CallShape, Shaped, Free
  <2>4. QED
    BY <2>1, <2>2, <2>3, AttemptsAreLocal
<1>9. ASSUME NEW c \in Calls, Serve(c)
      PROVE  AttemptsInv'
  <2>1. OneCall(c)
    BY <1>9, ServeEffect DEF Moved
  <2>2. Staged(c)
    BY <1>9 DEF Serve, Staged
  <2>3. /\ call'[c].op = "pair" => call[c].op = "pair" /\ call'[c].att = call[c].att
        /\ call'[c].pc = "gate" =>
             call'[c].att \in Attempts /\ attempt[call'[c].att].stage = "approved"
    BY <1>9, ServeEffect DEF Serve, Moved, CallShape, Shaped, Free
  <2>4. QED
    BY <2>1, <2>2, <2>3, AttemptsAreLocal
<1>10. ASSUME NEW c \in Calls, Answer(c)
      PROVE  AttemptsInv'
  <2>1. OneCall(c)
    BY <1>10, AnswerEffect DEF Moved
  <2>2. Staged(c)
    BY <1>10 DEF Answer, Staged
  <2>3. /\ call'[c].op = "pair" => call[c].op = "pair" /\ call'[c].att = call[c].att
        /\ call'[c].pc = "gate" =>
             call'[c].att \in Attempts /\ attempt[call'[c].att].stage = "approved"
    BY <1>10, AnswerEffect DEF Answer, Moved, CallShape, Shaped, Free
  <2>4. QED
    BY <2>1, <2>2, <2>3, AttemptsAreLocal
<1>11. ASSUME NEW c \in Calls, PairingPending(c)
      PROVE  AttemptsInv'
  <2>0. PairingPendingDoes(c)
    BY <1>11, PairingPendingEffect
  <2>1. OneCall(c)
    BY <2>0 DEF PairingPendingDoes, Moved
  <2>2. Staged(c)
    BY <2>0 DEF PairingPendingDoes, Staged, Becomes, AttemptsInv, Free
  <2>3. /\ call'[c].op = "pair" => call[c].op = "pair" /\ call'[c].att = call[c].att
        /\ call'[c].pc = "gate" =>
             call'[c].att \in Attempts /\ attempt[call'[c].att].stage = "approved"
    BY <2>0 DEF PairingPendingDoes, Moved, CallShape, Shaped, Free
  <2>4. QED
    BY <2>1, <2>2, <2>3, AttemptsAreLocal
<1>12. ASSUME NEW c \in Calls, ConfirmRead(c)
      PROVE  AttemptsInv'
  <2>1. OneCall(c)
    BY <1>12, ConfirmReadEffect DEF Moved
  <2>2. Staged(c)
    BY <1>12 DEF ConfirmRead, Staged
  <2>3. /\ call'[c].op = "pair" => call[c].op = "pair" /\ call'[c].att = call[c].att
        /\ call'[c].pc = "gate" =>
             call'[c].att \in Attempts /\ attempt[call'[c].att].stage = "approved"
    BY <1>12, ConfirmReadEffect DEF ConfirmRead, Moved, CallShape, Shaped, Free
  <2>4. QED
    BY <2>1, <2>2, <2>3, AttemptsAreLocal
<1>13. ASSUME NEW c \in Calls, ConfirmGate(c)
      PROVE  AttemptsInv'
  <2>0. ConfirmGateDoes(c)
    BY <1>13, ConfirmGateEffect
  <2>1. OneCall(c)
    BY <2>0 DEF ConfirmGateDoes, Moved
  <2>2. Staged(c)
    BY <2>0 DEF ConfirmGateDoes, Staged, Becomes
  <2>3. /\ call'[c].op = "pair" => call[c].op = "pair" /\ call'[c].att = call[c].att
        /\ call'[c].pc = "gate" =>
             call'[c].att \in Attempts /\ attempt[call'[c].att].stage = "approved"
    BY <2>0 DEF ConfirmGateDoes, Moved, CallShape, Shaped, Free
  <2>4. QED
    BY <2>1, <2>2, <2>3, AttemptsAreLocal
<1>14. ASSUME NEW c \in Calls, ConfirmStore(c)
      PROVE  AttemptsInv'
  <2>1. OneCall(c)
    BY <1>14, ConfirmStoreEffect DEF Moved
  <2>2. Staged(c)
    BY <1>14 DEF ConfirmStore, Staged
  <2>3. /\ call'[c].op = "pair" => call[c].op = "pair" /\ call'[c].att = call[c].att
        /\ call'[c].pc = "gate" =>
             call'[c].att \in Attempts /\ attempt[call'[c].att].stage = "approved"
    BY <1>14, ConfirmStoreEffect DEF ConfirmStore, Moved, CallShape, Shaped, Free
  <2>4. QED
    BY <2>1, <2>2, <2>3, AttemptsAreLocal
<1>15. ASSUME NEW c \in Calls, Break(c)
      PROVE  AttemptsInv'
  <2>0. BreakDoes(c)
    BY <1>15, BreakEffect
  <2>1. OneCall(c)
    BY <2>0 DEF BreakDoes, Moved
  <2>2. Staged(c)
    BY <2>0 DEF BreakDoes, Staged, Becomes, AttemptsInv, Free
  <2>3. /\ call'[c].op = "pair" => call[c].op = "pair" /\ call'[c].att = call[c].att
        /\ call'[c].pc = "gate" =>
             call'[c].att \in Attempts /\ attempt[call'[c].att].stage = "approved"
    BY <2>0 DEF BreakDoes, Moved, CallShape, Shaped, Free
  <2>4. QED
    BY <2>1, <2>2, <2>3, AttemptsAreLocal
<1>16. ASSUME NEW c \in Calls, NEW a \in Attempts, confirm(c, a)
      PROVE  AttemptsInv'
  <2>0. confirmDoes(c, a)
    BY <1>16, confirmEffect
  <2>1. \A b \in Attempts : attempt'[b].stage = attempt[b].stage
    BY <2>0 DEF confirmDoes, Becomes
  <2>2. CASE UNCHANGED call
    BY <2>1, <2>2, AttemptsStay
  <2>3. CASE ~UNCHANGED call
    <3>1. OneCall(c) /\ call'[c].op # "pair" /\ call'[c].pc # "gate"
      BY <1>16, <2>3, <2>0 DEF confirmDoes
    <3>2. Staged(c)
      BY <2>1 DEF Staged
    <3>3. QED
      BY <3>1, <3>2, AttemptsAreLocal
  <2>4. QED
    BY <2>2, <2>3
<1>17. ASSUME NEW c \in Calls, NEW d \in Daemons, NEW a \in Attempts, pair_with_ticket(c, d, a)
      PROVE  AttemptsInv'
  <2>0. pair_with_ticketDoes(c, d, a)
    BY <1>17, pair_with_ticketEffect
  <2>1. /\ OneCall(c) /\ call'[c].op = "pair" /\ call'[c].att = a /\ call'[c].pc = "endpoint"
        /\ attempt[a].stage = "unused" /\ attempt'[a].stage = "dialling"
        /\ \A b \in Attempts : b # a => attempt'[b].stage = attempt[b].stage
    BY <2>0 DEF pair_with_ticketDoes, Becomes
  <2>2. QED
    BY <2>1 DEF AttemptsInv, OneCall, CallShape, Shaped
<1>18. ASSUME NEW a \in Attempts, Approve(a)
      PROVE  AttemptsInv'
  BY <1>18, ApproveEffect, AttemptsStay DEF Approve, Becomes
<1>19. ASSUME NEW a \in Attempts, Deny(a)
      PROVE  AttemptsInv'
  BY <1>19, DenyEffect, AttemptsStay DEF Deny, Becomes
<1>20. ASSUME NEW a \in Attempts, cancel(a)
      PROVE  AttemptsInv'
  <2>0. cancelDoes(a)
    BY <1>20, cancelEffect
  <2>1. QED
    BY <1>20, <2>0, AttemptsStay DEF cancelDoes, cancel, Becomes
<1>21. CASE UNCHANGED mobileVars
  BY <1>21 DEF mobileVars, AttemptsInv
<1>22. QED
  BY <1>1, <1>2, <1>3, <1>4, <1>5, <1>6, <1>7, <1>8, <1>9, <1>10, <1>11, <1>12, <1>13, <1>14,
     <1>15, <1>16, <1>17, <1>18, <1>19, <1>20, <1>21 DEF MobileNext, CallStep

\* A call that does not bind leaves the endpoint alone.
LEMMA EndpointIsLocal ==
  ASSUME EndpointInv, UNCHANGED <<endpoint, endpoints>>, NEW c \in Calls, OneCall(c),
         call'[c].pc # "bind"
  PROVE  EndpointInv'
BY DEF EndpointInv, OneCall

\* One call binds, and binds once.
LEMMA EndpointInvStep ==
  ASSUME MobileIInv, [MobileNext]_mobileVars
  PROVE  EndpointInv'
<1> USE MobileAssumption DEF MobileIInv
<1>1. ASSUME NEW c \in Calls, Request(c)
      PROVE  EndpointInv'
  <2>1. OneCall(c) /\ call'[c].pc # "bind"
    BY <1>1, RequestEffect DEF Moved, Free
  <2>2. UNCHANGED <<endpoint, endpoints>>
    BY <1>1 DEF Request
  <2>3. QED
    BY <2>1, <2>2, EndpointIsLocal
<1>2. ASSUME NEW c \in Calls, unpair_self(c)
      PROVE  EndpointInv'
  <2>1. OneCall(c) /\ call'[c].pc # "bind"
    BY <1>2, unpair_selfEffect DEF Moved, Free
  <2>2. UNCHANGED <<endpoint, endpoints>>
    BY <1>2 DEF unpair_self
  <2>3. QED
    BY <2>1, <2>2, EndpointIsLocal
<1>3. ASSUME NEW c \in Calls, Cached(c)
      PROVE  EndpointInv'
  <2>1. OneCall(c) /\ call'[c].pc # "bind"
    BY <1>3, CachedEffect DEF Cached, Moved, Free
  <2>2. UNCHANGED <<endpoint, endpoints>>
    BY <1>3 DEF Cached
  <2>3. QED
    BY <2>1, <2>2, EndpointIsLocal
<1>4. ASSUME NEW c \in Calls, BindEndpoint(c)
      PROVE  EndpointInv'
  BY <1>4, BindEndpointEffect DEF BindEndpoint, HoldsWhileBinding, EndpointInv, MobileTyped,
     Moved, OneCall, Free
<1>5. ASSUME NEW c \in Calls, EndpointBound(c)
      PROVE  EndpointInv'
  BY <1>5, EndpointBoundEffect DEF EndpointBound, EndpointInv, MobileTyped, Moved, OneCall, Free
<1>6. ASSUME NEW c \in Calls, Welcome(c)
      PROVE  EndpointInv'
  <2>1. OneCall(c) /\ call'[c].pc # "bind"
    BY <1>6, WelcomeEffect DEF Welcome, Moved, Free
  <2>2. UNCHANGED <<endpoint, endpoints>>
    BY <1>6 DEF Welcome
  <2>3. QED
    BY <2>1, <2>2, EndpointIsLocal
<1>7. ASSUME NEW c \in Calls, LabelVersion(c)
      PROVE  EndpointInv'
  <2>1. OneCall(c) /\ call'[c].pc # "bind"
    BY <1>7, LabelVersionEffect DEF LabelVersion, Moved, Free
  <2>2. UNCHANGED <<endpoint, endpoints>>
    BY <1>7 DEF LabelVersion
  <2>3. QED
    BY <2>1, <2>2, EndpointIsLocal
<1>8. ASSUME NEW c \in Calls, LabelHost(c)
      PROVE  EndpointInv'
  <2>1. OneCall(c) /\ call'[c].pc # "bind"
    BY <1>8, LabelHostEffect DEF LabelHost, Moved, Free
  <2>2. UNCHANGED <<endpoint, endpoints>>
    BY <1>8 DEF LabelHost
  <2>3. QED
    BY <2>1, <2>2, EndpointIsLocal
<1>9. ASSUME NEW c \in Calls, Serve(c)
      PROVE  EndpointInv'
  <2>1. OneCall(c) /\ call'[c].pc # "bind"
    BY <1>9, ServeEffect DEF Serve, Moved, Free
  <2>2. UNCHANGED <<endpoint, endpoints>>
    BY <1>9 DEF Serve
  <2>3. QED
    BY <2>1, <2>2, EndpointIsLocal
<1>10. ASSUME NEW c \in Calls, Answer(c)
      PROVE  EndpointInv'
  <2>1. OneCall(c) /\ call'[c].pc # "bind"
    BY <1>10, AnswerEffect DEF Answer, Moved, Free
  <2>2. UNCHANGED <<endpoint, endpoints>>
    BY <1>10 DEF Answer
  <2>3. QED
    BY <2>1, <2>2, EndpointIsLocal
<1>11. ASSUME NEW c \in Calls, PairingPending(c)
      PROVE  EndpointInv'
  <2>0. PairingPendingDoes(c)
    BY <1>11, PairingPendingEffect
  <2>1. OneCall(c) /\ call'[c].pc # "bind"
    BY <2>0 DEF PairingPendingDoes, Moved, Free
  <2>2. UNCHANGED <<endpoint, endpoints>>
    BY <1>11 DEF PairingPending
  <2>3. QED
    BY <2>1, <2>2, EndpointIsLocal
<1>12. ASSUME NEW c \in Calls, ConfirmRead(c)
      PROVE  EndpointInv'
  <2>1. OneCall(c) /\ call'[c].pc # "bind"
    BY <1>12, ConfirmReadEffect DEF ConfirmRead, Moved, Free
  <2>2. UNCHANGED <<endpoint, endpoints>>
    BY <1>12 DEF ConfirmRead
  <2>3. QED
    BY <2>1, <2>2, EndpointIsLocal
<1>13. ASSUME NEW c \in Calls, ConfirmGate(c)
      PROVE  EndpointInv'
  <2>0. ConfirmGateDoes(c)
    BY <1>13, ConfirmGateEffect
  <2>1. OneCall(c) /\ call'[c].pc # "bind"
    BY <2>0 DEF ConfirmGateDoes, Moved, Free
  <2>2. UNCHANGED <<endpoint, endpoints>>
    BY <1>13 DEF ConfirmGate
  <2>3. QED
    BY <2>1, <2>2, EndpointIsLocal
<1>14. ASSUME NEW c \in Calls, ConfirmStore(c)
      PROVE  EndpointInv'
  <2>1. OneCall(c) /\ call'[c].pc # "bind"
    BY <1>14, ConfirmStoreEffect DEF ConfirmStore, Moved, Free
  <2>2. UNCHANGED <<endpoint, endpoints>>
    BY <1>14 DEF ConfirmStore
  <2>3. QED
    BY <2>1, <2>2, EndpointIsLocal
<1>15. ASSUME NEW c \in Calls, Break(c)
      PROVE  EndpointInv'
  <2>0. BreakDoes(c)
    BY <1>15, BreakEffect
  <2>1. /\ endpoints' = endpoints /\ endpoint'.bound = endpoint.bound
        /\ endpoint.holder # c => endpoint'.holder = endpoint.holder
    BY <1>15 DEF Break, MobileTyped
  <2>2. OneCall(c) /\ call'[c].pc # "bind"
    BY <2>0 DEF BreakDoes, Free
  <2>3. QED
    BY <2>1, <2>2 DEF EndpointInv, OneCall
<1>16. ASSUME NEW c \in Calls, NEW a \in Attempts, confirm(c, a)
      PROVE  EndpointInv'
  <2>0. confirmDoes(c, a)
    BY <1>16, confirmEffect
  <2>1. CASE UNCHANGED call
    BY <1>16, <2>1 DEF confirm, EndpointInv
  <2>2. CASE ~UNCHANGED call
    <3>1. OneCall(c) /\ call'[c].pc # "bind"
      BY <2>0, <2>2 DEF confirmDoes
    <3>2. QED
      BY <1>16, <3>1, EndpointIsLocal DEF confirm
  <2>3. QED
    BY <2>1, <2>2
<1>17. ASSUME NEW c \in Calls, NEW d \in Daemons, NEW a \in Attempts, pair_with_ticket(c, d, a)
      PROVE  EndpointInv'
  <2>0. pair_with_ticketDoes(c, d, a)
    BY <1>17, pair_with_ticketEffect
  <2>1. OneCall(c) /\ call'[c].pc # "bind"
    BY <2>0 DEF pair_with_ticketDoes, Moved, Free
  <2>2. UNCHANGED <<endpoint, endpoints>>
    BY <1>17 DEF pair_with_ticket
  <2>3. QED
    BY <2>1, <2>2, EndpointIsLocal
<1>18. ASSUME NEW a \in Attempts, Approve(a)
      PROVE  EndpointInv'
  BY <1>18 DEF Approve, EndpointInv
<1>19. ASSUME NEW a \in Attempts, Deny(a)
      PROVE  EndpointInv'
  BY <1>19 DEF Deny, EndpointInv
<1>20. ASSUME NEW a \in Attempts, cancel(a)
      PROVE  EndpointInv'
  BY <1>20 DEF cancel, EndpointInv
<1>21. CASE UNCHANGED mobileVars
  BY <1>21 DEF mobileVars, EndpointInv
<1>22. QED
  BY <1>1, <1>2, <1>3, <1>4, <1>5, <1>6, <1>7, <1>8, <1>9, <1>10, <1>11, <1>12, <1>13, <1>14,
     <1>15, <1>16, <1>17, <1>18, <1>19, <1>20, <1>21 DEF MobileNext, CallStep

\* A call that starts or goes on leaves what is remembered alone.
LEMMA RememberedIsLocal ==
  ASSUME RememberedInv, UNCHANGED <<daemon, latest, crossed>>, NEW c \in Calls, OneCall(c),
         call'[c].op = "unpair" =>
           daemon = call'[c].target \/ (call[c].op = "unpair" /\ call'[c].target = call[c].target)
  PROVE  RememberedInv'
BY DEF RememberedInv, OneCall

\* The daemon that is remembered is the one confirmed last.
LEMMA RememberedInvStep ==
  ASSUME MobileIInv, [MobileNext]_mobileVars
  PROVE  RememberedInv'
<1> USE MobileAssumption DEF MobileIInv
<1>1. ASSUME NEW c \in Calls, Request(c)
      PROVE  RememberedInv'
  <2>1. /\ OneCall(c)
        /\ call'[c].op = "unpair" =>
             daemon = call'[c].target \/ (call[c].op = "unpair" /\ call'[c].target = call[c].target)
    BY <1>1, RequestEffect DEF Moved, Free
  <2>2. UNCHANGED <<daemon, latest, crossed>>
    BY <1>1 DEF Request
  <2>3. QED
    BY <2>1, <2>2, RememberedIsLocal
<1>2. ASSUME NEW c \in Calls, unpair_self(c)
      PROVE  RememberedInv'
  <2>1. /\ OneCall(c)
        /\ call'[c].op = "unpair" =>
             daemon = call'[c].target \/ (call[c].op = "unpair" /\ call'[c].target = call[c].target)
    BY <1>2, unpair_selfEffect DEF Moved, Free
  <2>2. UNCHANGED <<daemon, latest, crossed>>
    BY <1>2 DEF unpair_self
  <2>3. QED
    BY <2>1, <2>2, RememberedIsLocal
<1>3. ASSUME NEW c \in Calls, Cached(c)
      PROVE  RememberedInv'
  <2>1. /\ OneCall(c)
        /\ call'[c].op = "unpair" =>
             daemon = call'[c].target \/ (call[c].op = "unpair" /\ call'[c].target = call[c].target)
    BY <1>3, CachedEffect DEF Cached, Moved, Free
  <2>2. UNCHANGED <<daemon, latest, crossed>>
    BY <1>3 DEF Cached
  <2>3. QED
    BY <2>1, <2>2, RememberedIsLocal
<1>4. ASSUME NEW c \in Calls, BindEndpoint(c)
      PROVE  RememberedInv'
  <2>1. /\ OneCall(c)
        /\ call'[c].op = "unpair" =>
             daemon = call'[c].target \/ (call[c].op = "unpair" /\ call'[c].target = call[c].target)
    BY <1>4, BindEndpointEffect DEF BindEndpoint, Moved, Free
  <2>2. UNCHANGED <<daemon, latest, crossed>>
    BY <1>4 DEF BindEndpoint
  <2>3. QED
    BY <2>1, <2>2, RememberedIsLocal
<1>5. ASSUME NEW c \in Calls, EndpointBound(c)
      PROVE  RememberedInv'
  <2>1. /\ OneCall(c)
        /\ call'[c].op = "unpair" =>
             daemon = call'[c].target \/ (call[c].op = "unpair" /\ call'[c].target = call[c].target)
    BY <1>5, EndpointBoundEffect DEF EndpointBound, Moved, Free
  <2>2. UNCHANGED <<daemon, latest, crossed>>
    BY <1>5 DEF EndpointBound
  <2>3. QED
    BY <2>1, <2>2, RememberedIsLocal
<1>6. ASSUME NEW c \in Calls, Welcome(c)
      PROVE  RememberedInv'
  <2>1. /\ OneCall(c)
        /\ call'[c].op = "unpair" =>
             daemon = call'[c].target \/ (call[c].op = "unpair" /\ call'[c].target = call[c].target)
    BY <1>6, WelcomeEffect DEF Welcome, Moved, Free
  <2>2. UNCHANGED <<daemon, latest, crossed>>
    BY <1>6 DEF Welcome
  <2>3. QED
    BY <2>1, <2>2, RememberedIsLocal
<1>7. ASSUME NEW c \in Calls, LabelVersion(c)
      PROVE  RememberedInv'
  <2>1. /\ OneCall(c)
        /\ call'[c].op = "unpair" =>
             daemon = call'[c].target \/ (call[c].op = "unpair" /\ call'[c].target = call[c].target)
    BY <1>7, LabelVersionEffect DEF LabelVersion, Moved, Free
  <2>2. UNCHANGED <<daemon, latest, crossed>>
    BY <1>7 DEF LabelVersion
  <2>3. QED
    BY <2>1, <2>2, RememberedIsLocal
<1>8. ASSUME NEW c \in Calls, LabelHost(c)
      PROVE  RememberedInv'
  <2>1. /\ OneCall(c)
        /\ call'[c].op = "unpair" =>
             daemon = call'[c].target \/ (call[c].op = "unpair" /\ call'[c].target = call[c].target)
    BY <1>8, LabelHostEffect DEF LabelHost, Moved, Free
  <2>2. UNCHANGED <<daemon, latest, crossed>>
    BY <1>8 DEF LabelHost
  <2>3. QED
    BY <2>1, <2>2, RememberedIsLocal
<1>9. ASSUME NEW c \in Calls, Serve(c)
      PROVE  RememberedInv'
  <2>1. /\ OneCall(c)
        /\ call'[c].op = "unpair" =>
             daemon = call'[c].target \/ (call[c].op = "unpair" /\ call'[c].target = call[c].target)
    BY <1>9, ServeEffect DEF Serve, Moved, Free
  <2>2. UNCHANGED <<daemon, latest, crossed>>
    BY <1>9 DEF Serve
  <2>3. QED
    BY <2>1, <2>2, RememberedIsLocal
<1>10. ASSUME NEW c \in Calls, Answer(c)
      PROVE  RememberedInv'
  BY <1>10, AnswerEffect DEF Answer, AfterUnpair, RememberedInv, MobileTyped, CallShape, Shaped,
     OneCall, Free
<1>11. ASSUME NEW c \in Calls, PairingPending(c)
      PROVE  RememberedInv'
  <2>0. PairingPendingDoes(c)
    BY <1>11, PairingPendingEffect
  <2>1. /\ OneCall(c)
        /\ call'[c].op = "unpair" =>
             daemon = call'[c].target \/ (call[c].op = "unpair" /\ call'[c].target = call[c].target)
    BY <2>0 DEF PairingPendingDoes, Moved, Free
  <2>2. UNCHANGED <<daemon, latest, crossed>>
    BY <1>11 DEF PairingPending
  <2>3. QED
    BY <2>1, <2>2, RememberedIsLocal
<1>12. ASSUME NEW c \in Calls, ConfirmRead(c)
      PROVE  RememberedInv'
  <2>1. /\ OneCall(c)
        /\ call'[c].op = "unpair" =>
             daemon = call'[c].target \/ (call[c].op = "unpair" /\ call'[c].target = call[c].target)
    BY <1>12, ConfirmReadEffect DEF ConfirmRead, Moved, Free
  <2>2. UNCHANGED <<daemon, latest, crossed>>
    BY <1>12 DEF ConfirmRead
  <2>3. QED
    BY <2>1, <2>2, RememberedIsLocal
<1>13. ASSUME NEW c \in Calls, ConfirmGate(c)
      PROVE  RememberedInv'
  <2>0. ConfirmGateDoes(c)
    BY <1>13, ConfirmGateEffect
  <2>1. /\ OneCall(c)
        /\ call'[c].op = "unpair" =>
             daemon = call'[c].target \/ (call[c].op = "unpair" /\ call'[c].target = call[c].target)
    BY <2>0 DEF ConfirmGateDoes, Moved, Free
  <2>2. UNCHANGED <<daemon, latest, crossed>>
    BY <1>13 DEF ConfirmGate
  <2>3. QED
    BY <2>1, <2>2, RememberedIsLocal
<1>14. ASSUME NEW c \in Calls, ConfirmStore(c)
      PROVE  RememberedInv'
  <2>1. /\ daemon' = latest' /\ OneCall(c) /\ call'[c].op # "unpair"
        /\ crossed' = (crossed \/ \E o \in Calls : call[o].op = "unpair")
    BY <1>14, ConfirmStoreEffect DEF ConfirmStore, Free
  <2>2. QED
    BY <2>1 DEF RememberedInv, OneCall
<1>15. ASSUME NEW c \in Calls, Break(c)
      PROVE  RememberedInv'
  <2>0. BreakDoes(c)
    BY <1>15, BreakEffect
  <2>1. /\ OneCall(c)
        /\ call'[c].op = "unpair" =>
             daemon = call'[c].target \/ (call[c].op = "unpair" /\ call'[c].target = call[c].target)
    BY <2>0 DEF BreakDoes, Moved, Free
  <2>2. UNCHANGED <<daemon, latest, crossed>>
    BY <1>15 DEF Break
  <2>3. QED
    BY <2>1, <2>2, RememberedIsLocal
<1>16. ASSUME NEW c \in Calls, NEW a \in Attempts, confirm(c, a)
      PROVE  RememberedInv'
  <2>0. confirmDoes(c, a)
    BY <1>16, confirmEffect
  <2>1. CASE UNCHANGED call
    BY <1>16, <2>1 DEF confirm, RememberedInv
  <2>2. CASE ~UNCHANGED call
    <3>1. OneCall(c) /\ call'[c].op # "unpair"
      BY <2>0, <2>2 DEF confirmDoes
    <3>2. QED
      BY <1>16, <3>1, RememberedIsLocal DEF confirm
  <2>3. QED
    BY <2>1, <2>2
<1>17. ASSUME NEW c \in Calls, NEW d \in Daemons, NEW a \in Attempts, pair_with_ticket(c, d, a)
      PROVE  RememberedInv'
  <2>0. pair_with_ticketDoes(c, d, a)
    BY <1>17, pair_with_ticketEffect
  <2>1. /\ OneCall(c)
        /\ call'[c].op = "unpair" =>
             daemon = call'[c].target \/ (call[c].op = "unpair" /\ call'[c].target = call[c].target)
    BY <2>0 DEF pair_with_ticketDoes, Moved, Free
  <2>2. UNCHANGED <<daemon, latest, crossed>>
    BY <1>17 DEF pair_with_ticket
  <2>3. QED
    BY <2>1, <2>2, RememberedIsLocal
<1>18. ASSUME NEW a \in Attempts, Approve(a)
      PROVE  RememberedInv'
  BY <1>18 DEF Approve, RememberedInv
<1>19. ASSUME NEW a \in Attempts, Deny(a)
      PROVE  RememberedInv'
  BY <1>19 DEF Deny, RememberedInv
<1>20. ASSUME NEW a \in Attempts, cancel(a)
      PROVE  RememberedInv'
  BY <1>20 DEF cancel, RememberedInv
<1>21. CASE UNCHANGED mobileVars
  BY <1>21 DEF mobileVars, RememberedInv
<1>22. QED
  BY <1>1, <1>2, <1>3, <1>4, <1>5, <1>6, <1>7, <1>8, <1>9, <1>10, <1>11, <1>12, <1>13, <1>14,
     <1>15, <1>16, <1>17, <1>18, <1>19, <1>20, <1>21 DEF MobileNext, CallStep

\* A call that stores no label leaves the labels alone.
LEMMA LabelsAreLocal ==
  ASSUME LabelInv, UNCHANGED <<labels, mixed>>, NEW c \in Calls, OneCall(c),
         call[c].pc # "host", call'[c].pc \notin {"version", "host"}
  PROVE  LabelInv'
BY DEF LabelInv, Labelling, OneCall

\* The labels are of one daemon unless handshakes overlap.
LEMMA LabelInvStep ==
  ASSUME MobileIInv, [MobileNext]_mobileVars
  PROVE  LabelInv'
<1> USE MobileAssumption DEF MobileIInv
<1>1. ASSUME NEW c \in Calls, Request(c)
      PROVE  LabelInv'
  <2>1. /\ OneCall(c) /\ call'[c].pc \notin {"version", "host"}
        /\ call[c].pc # "host"
    BY <1>1, RequestEffect DEF Moved, Free, CallShape, Shaped
  <2>2. UNCHANGED <<labels, mixed>>
    BY <1>1 DEF Request
  <2>3. QED
    BY <2>1, <2>2, LabelsAreLocal
<1>2. ASSUME NEW c \in Calls, unpair_self(c)
      PROVE  LabelInv'
  <2>1. /\ OneCall(c) /\ call'[c].pc \notin {"version", "host"}
        /\ call[c].pc # "host"
    BY <1>2, unpair_selfEffect DEF Moved, Free, CallShape, Shaped
  <2>2. UNCHANGED <<labels, mixed>>
    BY <1>2 DEF unpair_self
  <2>3. QED
    BY <2>1, <2>2, LabelsAreLocal
<1>3. ASSUME NEW c \in Calls, Cached(c)
      PROVE  LabelInv'
  <2>1. /\ OneCall(c) /\ call'[c].pc \notin {"version", "host"}
        /\ call[c].pc # "host"
    BY <1>3, CachedEffect DEF Cached, Moved, Free, CallShape, Shaped
  <2>2. UNCHANGED <<labels, mixed>>
    BY <1>3 DEF Cached
  <2>3. QED
    BY <2>1, <2>2, LabelsAreLocal
<1>4. ASSUME NEW c \in Calls, BindEndpoint(c)
      PROVE  LabelInv'
  <2>1. /\ OneCall(c) /\ call'[c].pc \notin {"version", "host"}
        /\ call[c].pc # "host"
    BY <1>4, BindEndpointEffect DEF BindEndpoint, Moved, Free, CallShape, Shaped
  <2>2. UNCHANGED <<labels, mixed>>
    BY <1>4 DEF BindEndpoint
  <2>3. QED
    BY <2>1, <2>2, LabelsAreLocal
<1>5. ASSUME NEW c \in Calls, EndpointBound(c)
      PROVE  LabelInv'
  <2>1. /\ OneCall(c) /\ call'[c].pc \notin {"version", "host"}
        /\ call[c].pc # "host"
    BY <1>5, EndpointBoundEffect DEF EndpointBound, Moved, Free, CallShape, Shaped
  <2>2. UNCHANGED <<labels, mixed>>
    BY <1>5 DEF EndpointBound
  <2>3. QED
    BY <2>1, <2>2, LabelsAreLocal
<1>6. ASSUME NEW c \in Calls, Welcome(c)
      PROVE  LabelInv'
  <2>1. CASE call[c].op = "pair"
    <3>1. /\ OneCall(c) /\ call'[c].pc \notin {"version", "host"} /\ call[c].pc # "host"
          /\ UNCHANGED <<labels, mixed>>
      BY <1>6, <2>1, WelcomeEffect DEF Welcome, Moved
    <3>2. QED
      BY <3>1, LabelsAreLocal
  <2>2. CASE call[c].op # "pair"
    <3>1. /\ OneCall(c) /\ call'[c].pc = "version" /\ call'[c].target = call[c].target
          /\ labels' = labels /\ call[c].pc = "connect"
      BY <1>6, <2>2, WelcomeEffect DEF Welcome, Moved
    <3>2. mixed' = (mixed \/ \E o \in Calls : Labelling(o) /\ call[o].target # call[c].target)
      BY <1>6, <2>2 DEF Welcome, Labelling
    <3>3. QED
      BY <3>1, <3>2 DEF LabelInv, Labelling, OneCall
  <2>3. QED
    BY <2>1, <2>2
<1>7. ASSUME NEW c \in Calls, LabelVersion(c)
      PROVE  LabelInv'
  BY <1>7, LabelVersionEffect DEF LabelVersion, LabelInv, Labelling, Moved, OneCall, MobileTyped,
     Free
<1>8. ASSUME NEW c \in Calls, LabelHost(c)
      PROVE  LabelInv'
  BY <1>8, LabelHostEffect DEF LabelHost, HostOf, LabelInv, Labelling, Moved, OneCall,
     MobileTyped, Free
<1>9. ASSUME NEW c \in Calls, Serve(c)
      PROVE  LabelInv'
  <2>1. /\ OneCall(c) /\ call'[c].pc \notin {"version", "host"}
        /\ call[c].pc # "host"
    BY <1>9, ServeEffect DEF Serve, Moved, Free, CallShape, Shaped
  <2>2. UNCHANGED <<labels, mixed>>
    BY <1>9 DEF Serve
  <2>3. QED
    BY <2>1, <2>2, LabelsAreLocal
<1>10. ASSUME NEW c \in Calls, Answer(c)
      PROVE  LabelInv'
  <2>1. /\ OneCall(c) /\ call'[c].pc \notin {"version", "host"}
        /\ call[c].pc # "host"
    BY <1>10, AnswerEffect DEF Answer, Moved, Free, CallShape, Shaped
  <2>2. UNCHANGED <<labels, mixed>>
    BY <1>10 DEF Answer
  <2>3. QED
    BY <2>1, <2>2, LabelsAreLocal
<1>11. ASSUME NEW c \in Calls, PairingPending(c)
      PROVE  LabelInv'
  <2>0. PairingPendingDoes(c)
    BY <1>11, PairingPendingEffect
  <2>1. /\ OneCall(c) /\ call'[c].pc \notin {"version", "host"}
        /\ call[c].pc # "host"
    BY <2>0 DEF PairingPendingDoes, Moved, Free, CallShape, Shaped
  <2>2. UNCHANGED <<labels, mixed>>
    BY <1>11 DEF PairingPending
  <2>3. QED
    BY <2>1, <2>2, LabelsAreLocal
<1>12. ASSUME NEW c \in Calls, ConfirmRead(c)
      PROVE  LabelInv'
  <2>1. /\ OneCall(c) /\ call'[c].pc \notin {"version", "host"}
        /\ call[c].pc # "host"
    BY <1>12, ConfirmReadEffect DEF ConfirmRead, Moved, Free, CallShape, Shaped
  <2>2. UNCHANGED <<labels, mixed>>
    BY <1>12 DEF ConfirmRead
  <2>3. QED
    BY <2>1, <2>2, LabelsAreLocal
<1>13. ASSUME NEW c \in Calls, ConfirmGate(c)
      PROVE  LabelInv'
  <2>0. ConfirmGateDoes(c)
    BY <1>13, ConfirmGateEffect
  <2>1. /\ OneCall(c) /\ call'[c].pc \notin {"version", "host"}
        /\ call[c].pc # "host"
    BY <2>0 DEF ConfirmGateDoes, Moved, Free, CallShape, Shaped
  <2>2. UNCHANGED <<labels, mixed>>
    BY <1>13 DEF ConfirmGate
  <2>3. QED
    BY <2>1, <2>2, LabelsAreLocal
<1>14. ASSUME NEW c \in Calls, ConfirmStore(c)
      PROVE  LabelInv'
  <2>1. /\ OneCall(c) /\ call'[c].pc \notin {"version", "host"}
        /\ call[c].pc # "host"
    BY <1>14, ConfirmStoreEffect DEF ConfirmStore, Moved, Free, CallShape, Shaped
  <2>2. UNCHANGED <<labels, mixed>>
    BY <1>14 DEF ConfirmStore
  <2>3. QED
    BY <2>1, <2>2, LabelsAreLocal
<1>15. ASSUME NEW c \in Calls, Break(c)
      PROVE  LabelInv'
  <2>0. BreakDoes(c)
    BY <1>15, BreakEffect
  <2>1. /\ OneCall(c) /\ call'[c].pc \notin {"version", "host"}
        /\ labels' = labels /\ mixed' = (mixed \/ call[c].pc = "host")
    BY <1>15, <2>0 DEF Break, BreakDoes, Free
  <2>2. CASE call[c].pc = "host"
    BY <2>1, <2>2 DEF LabelInv
  <2>3. CASE call[c].pc # "host"
    <3>1. UNCHANGED <<labels, mixed>>
      BY <2>1, <2>3 DEF MobileTyped
    <3>2. QED
      BY <2>1, <2>3, <3>1, LabelsAreLocal
  <2>4. QED
    BY <2>2, <2>3
<1>16. ASSUME NEW c \in Calls, NEW a \in Attempts, confirm(c, a)
      PROVE  LabelInv'
  <2>0. confirmDoes(c, a)
    BY <1>16, confirmEffect
  <2>1. CASE UNCHANGED call
    BY <1>16, <2>1 DEF confirm, LabelInv, Labelling
  <2>2. CASE ~UNCHANGED call
    <3>1. /\ OneCall(c) /\ call'[c].pc \notin {"version", "host"}
          /\ call[c].pc # "host"
      BY <2>0, <2>2 DEF confirmDoes
    <3>2. QED
      BY <1>16, <3>1, LabelsAreLocal DEF confirm
  <2>3. QED
    BY <2>1, <2>2
<1>17. ASSUME NEW c \in Calls, NEW d \in Daemons, NEW a \in Attempts, pair_with_ticket(c, d, a)
      PROVE  LabelInv'
  <2>0. pair_with_ticketDoes(c, d, a)
    BY <1>17, pair_with_ticketEffect
  <2>1. /\ OneCall(c) /\ call'[c].pc \notin {"version", "host"}
        /\ call[c].pc # "host"
    BY <2>0 DEF pair_with_ticketDoes, Moved, Free, CallShape, Shaped
  <2>2. UNCHANGED <<labels, mixed>>
    BY <1>17 DEF pair_with_ticket
  <2>3. QED
    BY <2>1, <2>2, LabelsAreLocal
<1>18. ASSUME NEW a \in Attempts, Approve(a)
      PROVE  LabelInv'
  BY <1>18 DEF Approve, LabelInv, Labelling
<1>19. ASSUME NEW a \in Attempts, Deny(a)
      PROVE  LabelInv'
  BY <1>19 DEF Deny, LabelInv, Labelling
<1>20. ASSUME NEW a \in Attempts, cancel(a)
      PROVE  LabelInv'
  BY <1>20 DEF cancel, LabelInv, Labelling
<1>21. CASE UNCHANGED mobileVars
  BY <1>21 DEF mobileVars, LabelInv, Labelling
<1>22. QED
  BY <1>1, <1>2, <1>3, <1>4, <1>5, <1>6, <1>7, <1>8, <1>9, <1>10, <1>11, <1>12, <1>13, <1>14,
     <1>15, <1>16, <1>17, <1>18, <1>19, <1>20, <1>21 DEF MobileNext, CallStep

LEMMA MobileInitial == MobileInit => MobileIInv
<1> SUFFICES ASSUME MobileInit PROVE MobileIInv
  OBVIOUS
<1>1. MobileTyped
  BY MobileAssumption DEF MobileInit, MobileTyped, Free, NewGate, NoPairing, Call, Gate,
     Pairing, MobilePcs
<1>2. CallShape /\ GatesInv /\ AttemptsInv
  BY MobileAssumption DEF MobileInit, CallShape, Shaped, GatesInv, Gated, AttemptsInv, Free,
     NewGate, NoPairing
<1>3. EndpointInv /\ RememberedInv /\ LabelInv
  BY MobileAssumption DEF MobileInit, EndpointInv, RememberedInv, LabelInv, Labelling, Free
<1>4. QED
  BY <1>1, <1>2, <1>3 DEF MobileIInv

LEMMA MobileInvFollows == MobileIInv => MobileInv
  BY DEF MobileIInv, MobileTyped, GatesInv, Gated, EndpointInv, RememberedInv, LabelInv,
     MobileInv, MobileTypeOK, OneEndpoint, BothConfirmed, PairingSurvivesIfUncrossed,
     LabelsAgreeIfUnmixed

\* Whatever calls of the app overlap, fail or are dropped at an await, the phone
\* has one endpoint, counts only pairings both sides confirmed, keeps its pairing
\* unless an unpair and a confirmation cross, and shows the labels of one daemon
\* unless two handshakes mix them, for any number of daemons, calls and attempts
\* (ShellyClient and PendingPairing).
THEOREM PhoneRemembersOnePairing == MobileSpec => []MobileInv
<1>1. MobileIInv /\ [MobileNext]_mobileVars => MobileIInv'
  BY MobileTypedStep, CallShapeStep, GatesInvStep, AttemptsInvStep, EndpointInvStep,
     RememberedInvStep, LabelInvStep DEF MobileIInv
<1>2. QED
  BY MobileInitial, <1>1, MobileInvFollows, PTL DEF MobileSpec


-----------------------------------------------------------------------------
(***************************************************************************)
(* MobileStreams: the subscription's heartbeat, and the attachment.        *)
(***************************************************************************)

\* The ping task runs just as long as the subscription.
SubTyped ==
  /\ sub \in {"running", "timeout", "error", "dropped"}
  /\ pinging \in BOOLEAN /\ (pinging <=> sub = "running")
  /\ toPing \in 0 .. PingInterval /\ silent \in 0 .. ReadTimeout
  /\ answers \in Seq(0 .. MaxDelay) /\ alive \in BOOLEAN

\* While the daemon lives: the reader is silent for no longer than the oldest
\* answer is under way, and one interval; the youngest message, under way or
\* received, is no older than the last ping.
Heartbeat ==
  alive /\ sub = "running" =>
    /\ answers = <<>> => silent + toPing <= PingInterval
    /\ answers # <<>> =>
         /\ silent <= PingInterval + answers[1]
         /\ answers[Len(answers)] + toPing <= PingInterval

SubInv == SubTyped /\ Heartbeat /\ NoFalseAlarm

\* Nobody is past the initial bytes before they are given, and the one who
\* gives them is alone; whoever reads holds the receive half, so only one output
\* at a time is stored and not yet drawn.
AttInv ==
  /\ initial \in BOOLEAN /\ giving \in Readers \cup {NoReader}
  /\ recv \in {"here", "lost"} \cup Readers
  /\ reader \in [Readers -> {"idle", "giving", "take", "reading", "drawing"}]
  /\ last_seen_seq \in Nat /\ ~early
  /\ initial => giving = NoReader /\ \A r \in Readers : reader[r] = "idle"
  /\ initial \/ giving # NoReader => last_seen_seq = FirstSeq
  /\ \A r \in Readers : reader[r] = "giving" => giving = r
  /\ giving # NoReader =>
       reader[giving] = "giving" /\ \A r \in Readers \ {giving} : reader[r] = "idle"
  /\ \A r \in Readers : reader[r] \in {"reading", "drawing"} => recv = r
  /\ ~initial /\ giving = NoReader =>
       /\ shown \in Nat /\ FirstSeq <= shown
       /\ last_seen_seq = IF Drawing THEN shown + 1 ELSE shown

\* A detach is the last thing written, and it closes the send half.
DetachInv ==
  /\ send \in {"open", "finished", "closed"} /\ wire \in Seq({"input", "detach"})
  /\ \A i \in 1 .. Len(wire) : wire[i] = "detach" => i = Len(wire) /\ send # "open"

StreamsIInv ==
  /\ SubInv
  /\ AttInv
  /\ DetachInv

\* A sequence with one more element.
LEMMA Appended ==
  ASSUME NEW S, NEW s \in Seq(S), NEW e \in S
  PROVE  /\ Append(s, e) \in Seq(S) /\ Append(s, e) # <<>>
         /\ Len(s) \in Nat /\ Len(Append(s, e)) = Len(s) + 1
         /\ Append(s, e)[Len(s) + 1] = e
         /\ \A i \in 1 .. Len(s) : Append(s, e)[i] = s[i]
         /\ Append(s, e)[1] = IF s = <<>> THEN e ELSE s[1]
OBVIOUS

\* A message goes out on the subscription.
LEMMA AnswerKeepsHeartbeat ==
  ASSUME SubTyped, Heartbeat, answers' = Append(answers, 0), UNCHANGED <<sub, silent, alive>>,
         toPing' = toPing \/ (toPing = 0 /\ toPing' = PingInterval)
  PROVE  Heartbeat' /\ answers' \in Seq(0 .. MaxDelay)
<1>1. /\ PingInterval \in Nat /\ silent \in Nat /\ toPing \in Nat /\ toPing <= PingInterval
      /\ answers \in Seq(0 .. MaxDelay) /\ 0 \in 0 .. MaxDelay
  BY StreamsAssumption DEF SubTyped
<1>2. /\ answers' \in Seq(0 .. MaxDelay) /\ answers' # <<>>
      /\ answers'[Len(answers')] = 0
      /\ answers'[1] = IF answers = <<>> THEN 0 ELSE answers[1]
  BY <1>1, Appended
<1>3. toPing' \in Nat /\ toPing' <= PingInterval
  BY <1>1
<1>4. ASSUME alive, sub = "running" PROVE silent <= PingInterval + answers'[1]
  <2>1. CASE answers = <<>>
    <3>1. silent + toPing <= PingInterval
      BY <1>4, <2>1 DEF Heartbeat
    <3>2. silent <= PingInterval + 0
      BY <1>1, <3>1
    <3>3. QED
      BY <1>2, <2>1, <3>2
  <2>2. CASE answers # <<>>
    <3>1. silent <= PingInterval + answers[1]
      BY <1>4, <2>2 DEF Heartbeat
    <3>2. QED
      BY <1>2, <2>2, <3>1
  <2>3. QED
    BY <2>1, <2>2
<1>5. 0 + toPing' <= PingInterval
  BY <1>3
<1>6. QED
  BY <1>2, <1>4, <1>5 DEF Heartbeat

LEMMA SubStepInv == ASSUME SubInv, SubStep PROVE SubInv' /\ UNCHANGED attVars
<1> USE DEF SubInv
<1>1. /\ PingInterval \in Nat /\ PingInterval > 0 /\ ReadTimeout \in Nat /\ MaxDelay \in Nat
      /\ PingInterval + MaxDelay < ReadTimeout
      /\ silent \in Nat /\ silent <= ReadTimeout /\ toPing \in Nat /\ toPing <= PingInterval
      /\ answers \in Seq(0 .. MaxDelay)
  BY StreamsAssumption DEF SubTyped
<1>2. answers # <<>> =>
        /\ 1 \in 1 .. Len(answers) /\ Len(answers) \in 1 .. Len(answers)
        /\ answers[1] \in 0 .. MaxDelay /\ answers[Len(answers)] \in 0 .. MaxDelay
        /\ Tail(answers) \in Seq(0 .. MaxDelay)
        /\ Tail(answers) # <<>> =>
             /\ Tail(answers)[1] \in 0 .. MaxDelay
             /\ Tail(answers)[Len(Tail(answers))] = answers[Len(answers)]
  BY <1>1
<1>3. CASE Ping
  <2>1. /\ pinging /\ toPing = 0 /\ toPing' = PingInterval
        /\ answers' = (IF alive THEN Append(answers, 0) ELSE answers)
        /\ UNCHANGED <<sub, pinging, silent, alive, lists, attVars>>
    BY <1>3 DEF Ping, NextPing
  <2>2. toPing' \in 0 .. PingInterval
    BY <1>1, <2>1
  <2>3. CASE alive
    <3>1. Heartbeat' /\ answers' \in Seq(0 .. MaxDelay)
      BY <2>1, <2>3, AnswerKeepsHeartbeat
    <3>2. QED
      BY <2>1, <2>2, <3>1 DEF SubTyped, NoFalseAlarm
  <2>4. CASE ~alive
    BY <2>1, <2>2, <2>4 DEF SubTyped, NoFalseAlarm, Heartbeat
  <2>5. QED
    BY <2>3, <2>4
<1>4. CASE PushList
  <2>1. /\ answers' = Append(answers, 0)
        /\ UNCHANGED <<sub, pinging, toPing, silent, alive, attVars>>
    BY <1>4 DEF PushList
  <2>2. Heartbeat' /\ answers' \in Seq(0 .. MaxDelay)
    BY <2>1, AnswerKeepsHeartbeat
  <2>3. QED
    BY <2>1, <2>2 DEF SubTyped, NoFalseAlarm
<1>5. CASE Receive
  <2>1. /\ answers # <<>> /\ answers' = Tail(answers) /\ silent' = 0
        /\ UNCHANGED <<sub, pinging, toPing, alive, lists, attVars>>
    BY <1>5 DEF Receive
  <2>2. silent' \in 0 .. ReadTimeout /\ answers' \in Seq(0 .. MaxDelay)
    BY <1>1, <1>2, <2>1
  <2>3. Heartbeat'
    <3> SUFFICES ASSUME alive, sub = "running"
                 PROVE  /\ answers' = <<>> => 0 + toPing <= PingInterval
                        /\ answers' # <<>> =>
                             /\ 0 <= PingInterval + answers'[1]
                             /\ answers'[Len(answers')] + toPing <= PingInterval
      BY <2>1 DEF Heartbeat
    <3>1. answers[Len(answers)] + toPing <= PingInterval
      BY <2>1 DEF Heartbeat
    <3>2. answers' # <<>> =>
            answers'[1] \in 0 .. MaxDelay /\ answers'[Len(answers')] = answers[Len(answers)]
      BY <1>2, <2>1
    <3>3. QED
      BY <1>1, <3>1, <3>2
  <2>4. QED
    BY <2>1, <2>2, <2>3 DEF SubTyped, NoFalseAlarm
<1>6. CASE DaemonDies
  BY <1>6 DEF DaemonDies, SubTyped, NoFalseAlarm, Heartbeat
<1>7. CASE AnswersLost
  <2>1. <<>> \in Seq(0 .. MaxDelay)
    OBVIOUS
  <2>2. QED
    BY <1>7, <2>1 DEF AnswersLost, SubTyped, NoFalseAlarm, Heartbeat
<1>8. ASSUME NEW how \in {"timeout", "error", "dropped"}, EndSubscription(how),
             how = "timeout" => TimedOut
      PROVE  SubInv' /\ UNCHANGED attVars
  <2>1. /\ sub = "running" /\ sub' = how /\ pinging' = FALSE
        /\ UNCHANGED <<toPing, silent, answers, alive, lists, attVars>>
    BY <1>8 DEF EndSubscription, PingAfterEnd
  <2>2. how = "timeout" => ~alive
    <3> SUFFICES ASSUME silent >= ReadTimeout, alive PROVE FALSE
      BY <1>8 DEF TimedOut
    <3>1. CASE answers = <<>>
      BY <1>1, <2>1, <3>1 DEF Heartbeat
    <3>2. CASE answers # <<>>
      <4>1. silent <= PingInterval + answers[1] /\ answers[1] \in 0 .. MaxDelay
        BY <1>2, <2>1, <3>2 DEF Heartbeat
      <4>2. QED
        BY <1>1, <4>1
    <3>3. QED
      BY <3>1, <3>2
  <2>3. QED
    BY <2>1, <2>2 DEF SubTyped, NoFalseAlarm, Heartbeat
<1>9. CASE Tick
  <2> DEFINE older == [i \in 1 .. Len(answers) |->
                         IF answers[i] < MaxDelay THEN answers[i] + 1 ELSE answers[i]]
  <2>1. /\ sub = "running" /\ ~Urgent
        /\ alive => \A i \in 1 .. Len(answers) : answers[i] < MaxDelay
        /\ toPing' = (IF pinging THEN toPing - 1 ELSE toPing)
        /\ silent' = (IF silent < ReadTimeout THEN silent + 1 ELSE silent)
        /\ answers' = older
        /\ UNCHANGED <<sub, pinging, alive, lists, attVars>>
    BY <1>9 DEF Tick
  <2>2. \A i \in 1 .. Len(answers) : answers[i] \in 0 .. MaxDelay
    BY <1>1
  <2>3. /\ older \in Seq(0 .. MaxDelay) /\ Len(older) = Len(answers)
        /\ \A i \in 1 .. Len(answers) :
             older[i] = IF answers[i] < MaxDelay THEN answers[i] + 1 ELSE answers[i]
        /\ older = <<>> <=> answers = <<>>
    BY <1>1, <2>2
  <2> HIDE DEF older
  <2>4. pinging /\ toPing > 0 /\ silent < ReadTimeout
    BY <1>1, <2>1 DEF Urgent, TimedOut, SubTyped
  <2>5. toPing' = toPing - 1 /\ silent' = silent + 1
    BY <2>1, <2>4
  <2>6. toPing' \in 0 .. PingInterval /\ silent' \in 0 .. ReadTimeout
    BY <1>1, <2>4, <2>5
  <2>7. Heartbeat'
    <3> SUFFICES ASSUME alive
                 PROVE  /\ older = <<>> => silent' + toPing' <= PingInterval
                        /\ older # <<>> =>
                             /\ silent' <= PingInterval + older[1]
                             /\ older[Len(older)] + toPing' <= PingInterval
      BY <2>1 DEF Heartbeat
    <3>1. CASE answers = <<>>
      BY <1>1, <2>1, <2>3, <2>5, <3>1 DEF Heartbeat
    <3>2. CASE answers # <<>>
      <4>1. /\ silent <= PingInterval + answers[1]
            /\ answers[Len(answers)] + toPing <= PingInterval
        BY <2>1, <3>2 DEF Heartbeat
      <4>2. older[1] = answers[1] + 1 /\ older[Len(older)] = answers[Len(answers)] + 1
        BY <1>2, <2>1, <2>3, <3>2
      <4>3. answers[1] \in Nat /\ answers[Len(answers)] \in Nat
        BY <1>2, <3>2
      <4>4. silent + 1 <= PingInterval + (answers[1] + 1)
        BY <1>1, <4>1, <4>3
      <4>5. (answers[Len(answers)] + 1) + (toPing - 1) <= PingInterval
        BY <1>1, <4>1, <4>3
      <4>6. QED
        BY <2>3, <2>5, <3>2, <4>2, <4>4, <4>5
    <3>3. QED
      BY <3>1, <3>2
  <2>8. QED
    BY <2>1, <2>3, <2>6, <2>7 DEF SubTyped, NoFalseAlarm
<1>10. QED
  BY <1>3, <1>4, <1>5, <1>6, <1>7, <1>8, <1>9
  DEF SubStep, ReadTimesOut, ReadFails, AppDropsSubscription

\* One subscribe() call goes on.
LEMMA ReaderGoes ==
  ASSUME AttInv, NEW r \in Readers, NEW at \in {"idle", "giving", "take", "reading", "drawing"},
         reader' = [reader EXCEPT ![r] = at]
  PROVE  /\ reader' \in [Readers -> {"idle", "giving", "take", "reading", "drawing"}]
         /\ reader'[r] = at /\ \A q \in Readers \ {r} : reader'[q] = reader[q]
BY DEF AttInv

LEMMA AttStepInv ==
  ASSUME AttInv, DetachInv, AttStep
  PROVE  AttInv' /\ DetachInv' /\ UNCHANGED subVars
<1>1. NoReader \notin Readers /\ "here" \notin Readers /\ FirstSeq \in Nat /\ MaxSeq \in Nat
  BY StreamsAssumption
<1>2. ASSUME NEW r \in Readers, Subscribe(r) PROVE AttInv' /\ DetachInv' /\ UNCHANGED subVars
  <2>1. /\ reader[r] = "idle" /\ giving = NoReader /\ initial' = FALSE
        /\ UNCHANGED <<subVars, recv, last_seen_seq, shown, early, send, wire>>
    BY <1>2 DEF Subscribe, MayPass
  <2>2. CASE initial /\ giving' = r /\ reader' = [reader EXCEPT ![r] = "giving"]
    <3>1. /\ reader' \in [Readers -> {"idle", "giving", "take", "reading", "drawing"}]
          /\ reader'[r] = "giving" /\ \A q \in Readers \ {r} : reader'[q] = reader[q]
      BY <2>2, ReaderGoes
    <3>2. /\ \A q \in Readers : reader[q] = "idle"
          /\ last_seen_seq = FirstSeq /\ last_seen_seq \in Nat /\ ~early
          /\ recv \in {"here", "lost"} \cup Readers
      BY <2>2 DEF AttInv
    <3>3. \A q \in Readers : reader'[q] \notin {"reading", "drawing"}
      BY <3>1, <3>2
    <3>4. AttInv'
      BY <1>1, <2>1, <2>2, <3>1, <3>2, <3>3 DEF AttInv
    <3>5. QED
      BY <2>1, <3>4 DEF DetachInv
  <2>3. CASE ~initial /\ reader' = [reader EXCEPT ![r] = "take"] /\ giving' = giving
    <3>1. /\ reader' \in [Readers -> {"idle", "giving", "take", "reading", "drawing"}]
          /\ reader'[r] = "take" /\ \A q \in Readers \ {r} : reader'[q] = reader[q]
      BY <2>3, ReaderGoes
    <3>2. /\ Drawing' <=> Drawing
          /\ \A q \in Readers : reader'[q] \in {"reading", "drawing"} => recv' = q
      BY <2>1, <3>1 DEF AttInv, Drawing
    <3>3. AttInv'
      BY <1>1, <2>1, <2>3, <3>1, <3>2 DEF AttInv
    <3>4. QED
      BY <2>1, <3>3 DEF DetachInv
  <2>4. QED
    BY <1>2, <2>2, <2>3 DEF Subscribe
<1>3. ASSUME NEW r \in Readers, on_initial_bytes(r)
      PROVE  AttInv' /\ DetachInv' /\ UNCHANGED subVars
  <2>1. /\ reader[r] = "giving" /\ shown' = FirstSeq /\ giving' = NoReader
        /\ reader' = [reader EXCEPT ![r] = "take"]
        /\ UNCHANGED <<subVars, initial, recv, last_seen_seq, early, send, wire>>
    BY <1>3 DEF on_initial_bytes
  <2>2. /\ reader' \in [Readers -> {"idle", "giving", "take", "reading", "drawing"}]
        /\ reader'[r] = "take" /\ \A q \in Readers \ {r} : reader'[q] = reader[q]
    BY <2>1, ReaderGoes
  <2>3. giving = r /\ giving # NoReader /\ ~initial /\ last_seen_seq = FirstSeq
    BY <1>1, <2>1 DEF AttInv
  <2>4. \A q \in Readers : reader'[q] # "giving"
    BY <2>2, <2>3 DEF AttInv
  <2>5. \A q \in Readers : reader'[q] \notin {"reading", "drawing"}
    BY <2>2, <2>3 DEF AttInv
  <2>6. ~Drawing' /\ shown' = FirstSeq /\ last_seen_seq' = FirstSeq
    BY <2>1, <2>3, <2>5 DEF Drawing
  <2>7. AttInv'
    BY <1>1, <2>1, <2>2, <2>3, <2>4, <2>5, <2>6 DEF AttInv
  <2>8. QED
    BY <2>1, <2>7 DEF DetachInv
\* A call past the initial bytes: they have been given.
<1>4. ASSUME NEW r \in Readers, reader[r] \in {"take", "reading", "drawing"}
      PROVE  ~initial /\ giving = NoReader
  <2>1. reader[r] # "idle" /\ reader[r] # "giving"
    BY <1>4
  <2>2. ~initial
    BY <2>1 DEF AttInv
  <2>3. giving # NoReader => giving = r /\ giving \in Readers
    BY <2>1 DEF AttInv
  <2>4. giving # NoReader => reader[giving] = "giving"
    BY DEF AttInv
  <2>5. QED
    BY <2>1, <2>2, <2>3, <2>4
\* The receive half changes hands.
<1>5. ASSUME NEW r \in Readers, NEW at \in {"idle", "reading"},
             reader' = [reader EXCEPT ![r] = at], recv' \in {"here", "lost"} \cup Readers,
             \/ reader[r] = "take" /\ at = "reading" /\ recv = "here" /\ recv' = r
             \/ reader[r] = "take" /\ at = "idle" /\ recv' = recv
             \/ reader[r] = "reading" /\ at = "idle",
             UNCHANGED <<subVars, initial, giving, last_seen_seq, shown, early, send, wire>>
      PROVE  AttInv' /\ DetachInv' /\ UNCHANGED subVars
  <2>1. /\ reader' \in [Readers -> {"idle", "giving", "take", "reading", "drawing"}]
        /\ reader'[r] = at /\ \A q \in Readers \ {r} : reader'[q] = reader[q]
    BY <1>5, ReaderGoes
  <2>2. ~initial /\ giving = NoReader
    BY <1>4, <1>5
  <2>3. ASSUME NEW q \in Readers, reader'[q] \in {"reading", "drawing"} PROVE recv' = q
    <3>1. CASE q = r
      BY <1>5, <2>1, <2>3, <3>1
    <3>2. CASE q # r
      <4>1. recv = q /\ recv # "here"
        BY <1>1, <2>1, <2>3, <3>2 DEF AttInv
      <4>2. reader[r] # "reading"
        BY <3>2, <4>1 DEF AttInv
      <4> QED
        BY <1>5, <4>1, <4>2
    <3> QED
      BY <3>1, <3>2
  <2>4. Drawing' <=> Drawing
    BY <1>5, <2>1 DEF Drawing
  <2>5. AttInv'
    BY <1>1, <1>5, <2>1, <2>2, <2>3, <2>4 DEF AttInv
  <2>6. QED
    BY <1>5, <2>5 DEF DetachInv
<1>6. ASSUME NEW r \in Readers, take_recv(r) PROVE AttInv' /\ DetachInv' /\ UNCHANGED subVars
  <2>1. recv' \in {"here", "lost"} \cup Readers
    BY <1>6 DEF take_recv, AttInv
  <2>2. QED
    BY <1>5, <1>6, <2>1 DEF take_recv
\* Whoever dispatches an output holds the receive half alone.
<1>7. ASSUME NEW r \in Readers, reader[r] \in {"reading", "drawing"},
             NEW q \in Readers \ {r}
      PROVE  reader[q] \notin {"reading", "drawing"}
  BY <1>7 DEF AttInv
<1>8. ASSUME NEW r \in Readers, StoreLastSeen(r)
       PROVE  AttInv' /\ DetachInv' /\ UNCHANGED subVars
  <2>1. /\ reader[r] = "reading" /\ last_seen_seq' = last_seen_seq + 1
        /\ reader' = [reader EXCEPT ![r] = "drawing"]
        /\ UNCHANGED <<subVars, initial, giving, recv, shown, early, send, wire>>
    BY <1>8 DEF StoreLastSeen
  <2>2. /\ reader' \in [Readers -> {"idle", "giving", "take", "reading", "drawing"}]
        /\ reader'[r] = "drawing" /\ \A q \in Readers \ {r} : reader'[q] = reader[q]
    BY <2>1, ReaderGoes
  <2>3. ~initial /\ giving = NoReader /\ recv = r
    BY <1>4, <2>1 DEF AttInv
  <2>4. ~Drawing /\ Drawing'
    BY <1>7, <2>1, <2>2 DEF Drawing
  <2>5. \A q \in Readers : reader'[q] \in {"reading", "drawing"} => recv' = q
    BY <2>1, <2>2, <2>3 DEF AttInv
  <2>6. /\ shown \in Nat /\ FirstSeq <= shown /\ last_seen_seq = shown
        /\ last_seen_seq' \in Nat /\ last_seen_seq' = shown + 1
    BY <2>1, <2>3, <2>4 DEF AttInv
  <2>7. AttInv'
    BY <1>1, <2>1, <2>2, <2>3, <2>4, <2>5, <2>6 DEF AttInv
  <2>8. QED
    BY <2>1, <2>7 DEF DetachInv
<1>9. ASSUME NEW r \in Readers, on_output(r) PROVE AttInv' /\ DetachInv' /\ UNCHANGED subVars
  <2>1. /\ reader[r] = "drawing" /\ shown' = last_seen_seq
        /\ early' = (early \/ shown < FirstSeq)
        /\ reader' = [reader EXCEPT ![r] = "reading"]
        /\ UNCHANGED <<subVars, initial, giving, recv, last_seen_seq, send, wire>>
    BY <1>9 DEF on_output, Drawn
  <2>2. /\ reader' \in [Readers -> {"idle", "giving", "take", "reading", "drawing"}]
        /\ reader'[r] = "reading" /\ \A q \in Readers \ {r} : reader'[q] = reader[q]
    BY <2>1, ReaderGoes
  <2>3. ~initial /\ giving = NoReader /\ recv = r /\ Drawing
    BY <1>4, <2>1 DEF AttInv, Drawing
  <2>4. /\ last_seen_seq \in Nat /\ last_seen_seq = shown + 1 /\ shown \in Nat
        /\ FirstSeq <= shown /\ ~early
    BY <2>3 DEF AttInv
  <2>5. ~early' /\ shown' \in Nat /\ FirstSeq <= shown'
    <3>1. ~(shown < FirstSeq) /\ FirstSeq <= last_seen_seq
      BY <1>1, <2>4
    <3>2. QED
      BY <2>1, <2>4, <3>1
  <2>6. ~Drawing'
    BY <1>7, <2>1, <2>2 DEF Drawing
  <2>7. \A q \in Readers : reader'[q] \in {"reading", "drawing"} => recv' = q
    BY <2>1, <2>2, <2>3 DEF AttInv
  <2>8. AttInv'
    BY <1>1, <2>1, <2>2, <2>3, <2>4, <2>5, <2>6, <2>7 DEF AttInv
  <2>9. QED
    BY <2>1, <2>8 DEF DetachInv
<1>10. ASSUME NEW r \in Readers, Stop(r) \/ Lose(r) PROVE AttInv' /\ DetachInv' /\ UNCHANGED subVars
  BY <1>5, <1>10 DEF Stop, Lose
<1>11. ASSUME NEW m \in {"input", "detach"}, send = "open", wire' = Append(wire, m),
             send' \in {"open", "finished", "closed"}, m = "detach" => send' # "open",
             UNCHANGED <<subVars, initial, giving, recv, reader, last_seen_seq, shown, early>>
      PROVE  AttInv' /\ DetachInv' /\ UNCHANGED subVars
  <2>1. wire \in Seq({"input", "detach"}) /\ \A i \in 1 .. Len(wire) : wire[i] # "detach"
    BY <1>11 DEF DetachInv
  <2>2. /\ wire' \in Seq({"input", "detach"}) /\ Len(wire') = Len(wire) + 1
        /\ Len(wire) \in Nat /\ wire'[Len(wire) + 1] = m
        /\ \A i \in 1 .. Len(wire) : wire'[i] = wire[i]
    BY <1>11, <2>1, Appended
  <2>3. \A i \in 1 .. Len(wire') : i \in 1 .. Len(wire) \/ i = Len(wire')
    BY <2>2
  <2>4. DetachInv'
    BY <1>11, <2>1, <2>2, <2>3 DEF DetachInv
  <2>5. AttInv'
    BY <1>11 DEF AttInv, Drawing
  <2>6. QED
    BY <1>11, <2>4, <2>5
<1>12. ASSUME send' = "closed", wire' = wire,
              UNCHANGED <<subVars, initial, giving, recv, reader, last_seen_seq, shown, early>>
       PROVE  AttInv' /\ DetachInv' /\ UNCHANGED subVars
  BY <1>12 DEF AttInv, DetachInv, Drawing
<1>13. ASSUME Write \/ detach PROVE AttInv' /\ DetachInv' /\ UNCHANGED subVars
  BY <1>11, <1>12, <1>13 DEF Write, detach, AfterDetach
<1>14. QED
  BY <1>2, <1>3, <1>6, <1>10, <1>13, <1>8, <1>9 DEF AttStep

LEMMA StreamsInitIInv == ASSUME StreamsInit PROVE StreamsIInv
<1> USE DEF StreamsInit
<1>1. SubInv
  <2>1. /\ PingInterval \in Nat /\ ReadTimeout \in Nat /\ MaxDelay \in Nat
        /\ <<0>> \in Seq(0 .. MaxDelay) /\ <<0>> # <<>> /\ Len(<<0>>) = 1 /\ <<0>>[1] = 0
    BY StreamsAssumption
  <2>2. /\ sub = "running" /\ pinging = TRUE /\ toPing = PingInterval
        /\ silent = 0 /\ answers = <<0>> /\ alive = TRUE
    BY DEF SubInit
  <2>3. SubTyped /\ NoFalseAlarm
    BY <2>1, <2>2 DEF SubTyped, NoFalseAlarm
  <2>4. Heartbeat
    BY <2>1, <2>2 DEF Heartbeat
  <2>5. QED
    BY <2>3, <2>4 DEF SubInv
<1>2. AttInv
  BY StreamsAssumption DEF AttInit, AttInv, Drawing
<1>3. DetachInv
  BY DEF AttInit, DetachInv
<1>4. QED
  BY <1>1, <1>2, <1>3 DEF StreamsIInv

LEMMA StreamsStep == ASSUME StreamsIInv, [StreamsNext]_streamsVars PROVE StreamsIInv'
<1> USE DEF StreamsIInv
<1>1. CASE SubStep
  <2>1. SubInv' /\ UNCHANGED attVars
    BY <1>1, SubStepInv
  <2>2. AttInv' /\ DetachInv'
    BY <2>1 DEF attVars, AttInv, DetachInv, Drawing
  <2>3. QED
    BY <2>1, <2>2
<1>2. ASSUME UNCHANGED subVars PROVE SubInv'
  BY <1>2 DEF subVars, SubInv, SubTyped, Heartbeat, NoFalseAlarm
<1>3. CASE AttStep
  BY <1>2, <1>3, AttStepInv
<1>4. CASE UNCHANGED streamsVars
  <2>1. AttInv' /\ DetachInv'
    BY <1>4 DEF streamsVars, attVars, AttInv, DetachInv, Drawing
  <2>2. QED
    BY <1>2, <1>4, <2>1 DEF streamsVars
<1>5. QED
  BY <1>1, <1>3, <1>4 DEF StreamsNext

LEMMA StreamsIInvImplies == ASSUME StreamsIInv PROVE StreamsInv
<1> USE DEF StreamsIInv
<1>1. StreamsTypeOK
  <2>1. toPing \in 0 .. (2 * PingInterval)
    BY StreamsAssumption DEF SubInv, SubTyped
  <2>2. QED
    BY <2>1 DEF SubInv, SubTyped, AttInv, DetachInv, StreamsTypeOK
<1>2. NoFalseAlarm
  BY DEF SubInv
<1>3. InitialBytesFirst /\ ResumePointIsShown
  BY DEF AttInv, InitialBytesFirst, ResumePointIsShown
<1>4. NothingAfterDetach
  BY DEF DetachInv, NothingAfterDetach
<1>5. QED
  BY <1>1, <1>2, <1>3, <1>4 DEF StreamsInv

\* The phone's streams: the heartbeat raises no false alarm about a daemon that
\* answers in time; output is drawn after the initial bytes, and the offset to
\* resume from is where the screen ends, or one output ahead while that output
\* is on its way to the sink (mobile-core/src/lib.rs:1017, 1018), for any number
\* of subscribe() calls; nothing is written after a detach.
THEOREM StreamsKeepTheirPlace == StreamsSpec => []StreamsInv
<1>1. StreamsInit => StreamsIInv
  BY StreamsInitIInv
<1>2. StreamsIInv /\ [StreamsNext]_streamsVars => StreamsIInv'
  BY StreamsStep
<1>3. StreamsIInv => StreamsInv
  BY StreamsIInvImplies
<1>4. QED
  BY <1>1, <1>2, <1>3, PTL DEF StreamsSpec

-----------------------------------------------------------------------------
(***************************************************************************)
(* Wire: frames on one connection.                                         *)
(***************************************************************************)

Byte == [of : Nat, at : Nat]

\* The shapes; the reader's buffer stays within what it was told to expect.
WireTyped ==
  /\ frames \in Seq(0 .. MAX_FRAME_LEN)
  /\ writing \in [Writers -> Nat] /\ written \in [Writers -> Nat]
  /\ aborted \in BOOLEAN /\ cut \in BOOLEAN /\ (cut => aborted) /\ locked \in Writers \cup {"free"}
  /\ stream \in Seq(Byte) /\ buffer \in Seq(Byte) /\ received \in Seq(Nat)
  /\ expected \in 0 .. MAX_FRAME_LEN \cup {Unknown}
  /\ \A i \in 1 .. Len(stream) : stream[i].of \in 1 .. Len(frames)
  /\ \A i \in 1 .. Len(buffer) : buffer[i].of \in 1 .. Len(frames)
  /\ Len(buffer) <= HeaderLen + (IF expected = Unknown THEN 0 ELSE expected)
  /\ \A w \in Writers : writing[w] # 0 =>
       writing[w] <= Len(frames) /\ written[w] < FrameLen(writing[w])

\* The lock goes with the frame, which is the last one begun.
LockInv ==
  /\ \A w \in Writers : writing[w] # 0 <=> locked = w
  /\ locked # "free" => writing[locked] = Len(frames)

\* The byte that is written next; the bytes under way, that one at their end.
Pending == IF locked = "free" THEN FrameByte(Len(frames) + 1, 1)
           ELSE FrameByte(Len(frames), written[locked] + 1)

UnderWay(i) == IF i <= Len(stream) THEN stream[i] ELSE Pending

\* What comes j - i places after a byte: the same frame to its end, and then
\* the next frame's first byte.
Continues(b, d, c) ==
  /\ b.at + d <= FrameLen(b.of) => c = FrameByte(b.of, b.at + d)
  /\ b.at + d = FrameLen(b.of) + 1 => c = FrameByte(b.of + 1, 1)

StreamInv ==
  \A i \in 1 .. Len(stream) :
    /\ stream[i].at \in 1 .. FrameLen(stream[i].of)
    /\ \A j \in i .. Len(stream) + 1 : Continues(stream[i], j - i, UnderWay(j))

\* The reader has decoded every frame before the one it is in, collects that
\* one from its first byte, and the next byte under way is the one it needs.
ReaderInv ==
  LET m == Len(received) + 1 IN
  /\ broken = "no" /\ \A i \in 1 .. Len(received) : received[i] = i
  /\ \A i \in 1 .. Len(buffer) : buffer[i] = FrameByte(m, i)
  /\ buffer # <<>> => m <= Len(frames) /\ Len(buffer) <= FrameLen(m)
  /\ expected # Unknown => HeaderLen <= Len(buffer) /\ expected = frames[m]
  /\ UnderWay(1) = IF buffer # <<>> /\ Len(buffer) = FrameLen(m) THEN FrameByte(m + 1, 1)
                   ELSE FrameByte(m, Len(buffer) + 1)

IntactInv == ~cut => LockInv /\ StreamInv /\ ReaderInv

WireIInv == WireTyped /\ IntactInv

LEMMA FrameBytes ==
  ASSUME NEW m \in Nat, NEW k \in Nat
  PROVE  FrameByte(m, k) \in Byte /\ FrameByte(m, k).of = m /\ FrameByte(m, k).at = k
BY DEF FrameByte, Byte

LEMMA FrameLens ==
  ASSUME WireTyped, NEW m \in 1 .. Len(frames)
  PROVE  /\ frames[m] \in Nat /\ frames[m] <= MAX_FRAME_LEN
         /\ FrameLen(m) \in Nat /\ FrameLen(m) = HeaderLen + frames[m] /\ 0 < FrameLen(m)
         /\ HeaderLen \in Nat /\ 0 < HeaderLen /\ MAX_FRAME_LEN \in Nat
<1>1. frames \in Seq(0 .. MAX_FRAME_LEN)
  BY DEF WireTyped
<1>2. frames[m] \in 0 .. MAX_FRAME_LEN
  <2>1. \A S : \A s \in Seq(S) : \A k \in 1 .. Len(s) : s[k] \in S
    OBVIOUS
  <2>2. QED
    BY <1>1, <2>1
<1>3. QED
  BY <1>2, WireAssumption DEF FrameLen

LEMMA StreamBytes ==
  ASSUME WireTyped, NEW i \in 1 .. Len(stream)
  PROVE  /\ stream[i] \in Byte /\ stream[i].of \in 1 .. Len(frames) /\ stream[i].at \in Nat
         /\ stream[i].of \in Nat /\ FrameLen(stream[i].of) \in Nat
<1>1. stream[i] \in Byte /\ stream[i].of \in 1 .. Len(frames)
  BY DEF WireTyped
<1>2. QED
  BY <1>1, FrameLens DEF Byte

LEMMA WireLengths ==
  ASSUME WireTyped
  PROVE  /\ Len(frames) \in Nat /\ Len(stream) \in Nat /\ Len(buffer) \in Nat
         /\ Len(received) \in Nat
         /\ HeaderLen \in Nat /\ 0 < HeaderLen /\ MAX_FRAME_LEN \in Nat
         /\ \A w \in Writers : writing[w] \in Nat /\ written[w] \in Nat
BY WireAssumption DEF WireTyped

\* Frames are only added, and nothing else happens to the bytes under way.
LEMMA PathStays ==
  ASSUME WireTyped, StreamInv, ReaderInv,
         UNCHANGED <<stream, buffer, received, expected, broken>>, Pending' = Pending,
         Len(frames') \in Nat, Len(frames) <= Len(frames'),
         \A m \in 1 .. Len(frames) : frames'[m] = frames[m]
  PROVE  StreamInv' /\ ReaderInv'
<1>1. \A m \in 1 .. Len(frames) : FrameLen(m)' = FrameLen(m)
  BY DEF FrameLen
<1>2. ASSUME NEW j PROVE UnderWay(j)' = UnderWay(j)
  BY DEF UnderWay
<1>3. StreamInv'
  <2> SUFFICES ASSUME NEW i \in 1 .. Len(stream)
               PROVE  /\ stream[i].at \in 1 .. FrameLen(stream[i].of)'
                      /\ \A j \in i .. Len(stream) + 1 : Continues(stream[i], j - i, UnderWay(j))'
    BY DEF StreamInv
  <2>1. FrameLen(stream[i].of)' = FrameLen(stream[i].of)
    BY <1>1, StreamBytes
  <2>2. \A j \in i .. Len(stream) + 1 : Continues(stream[i], j - i, UnderWay(j))
    BY DEF StreamInv
  <2>3. \A j \in i .. Len(stream) + 1 : Continues(stream[i], j - i, UnderWay(j))'
    BY <1>2, <2>1, <2>2 DEF Continues
  <2>4. QED
    BY <2>1, <2>3 DEF StreamInv
<1>4. ReaderInv'
  <2> DEFINE m == Len(received) + 1
  <2>1. m \in Nat /\ m >= 1 /\ Len(frames) \in Nat
    BY WireLengths
  <2>2. buffer # <<>> => m \in 1 .. Len(frames)
    BY <2>1 DEF ReaderInv
  <2>3. buffer # <<>> => FrameLen(m)' = FrameLen(m) /\ frames'[m] = frames[m]
    BY <1>1, <2>2
  <2>4. expected # Unknown => buffer # <<>>
    BY WireLengths DEF ReaderInv, WireTyped
  <2>5. m <= Len(frames) => m <= Len(frames')
    BY <2>1
  <2>6. QED
    BY <1>2, <2>3, <2>4, <2>5 DEF ReaderInv
<1>5. QED
  BY <1>3, <1>4

LEMMA BeginFrameStep ==
  ASSUME WireIInv, NEW w \in Writers, BeginFrame(w)
  PROVE  WireIInv'
<1> USE DEF WireIInv
<1>1. PICK len \in Lengths : len <= MAX_FRAME_LEN /\ frames' = Append(frames, len)
  BY DEF BeginFrame, Encodable
<1>2. /\ locked = "free" /\ locked' = w /\ writing[w] = 0
      /\ writing' = [writing EXCEPT ![w] = Len(frames) + 1]
      /\ written' = [written EXCEPT ![w] = 0]
      /\ UNCHANGED <<aborted, cut, stream, readVars>>
  BY DEF BeginFrame, MayWrite
<1>3. len \in 0 .. MAX_FRAME_LEN /\ frames \in Seq(0 .. MAX_FRAME_LEN)
  BY <1>1, WireAssumption DEF WireTyped
<1>4. /\ frames' \in Seq(0 .. MAX_FRAME_LEN) /\ Len(frames') = Len(frames) + 1
      /\ Len(frames) \in Nat /\ frames'[Len(frames) + 1] = len
      /\ \A m \in 1 .. Len(frames) : frames'[m] = frames[m]
  BY <1>1, <1>3, Appended
<1>5. \A m \in 1 .. Len(frames) : FrameLen(m)' = FrameLen(m) /\ m \in 1 .. Len(frames')
  BY <1>4 DEF FrameLen
<1>6. /\ writing' \in [Writers -> Nat] /\ written' \in [Writers -> Nat]
      /\ writing'[w] = Len(frames) + 1 /\ written'[w] = 0
      /\ \A v \in Writers \ {w} : writing'[v] = writing[v] /\ written'[v] = written[v]
  BY <1>2, <1>4 DEF WireTyped
<1>7. WireTyped'
  <2>1. \A v \in Writers : writing'[v] # 0 =>
          writing'[v] <= Len(frames') /\ written'[v] < HeaderLen + frames'[writing'[v]]
    <3> SUFFICES ASSUME NEW v \in Writers, writing'[v] # 0
                 PROVE  /\ writing'[v] <= Len(frames')
                        /\ written'[v] < HeaderLen + frames'[writing'[v]]
      OBVIOUS
    <3>1. CASE v = w
      <4>1. frames'[writing'[w]] = len /\ written'[w] = 0 /\ writing'[w] = Len(frames')
        BY <1>4, <1>6
      <4>2. len \in Nat /\ HeaderLen \in Nat /\ HeaderLen > 0 /\ Len(frames') \in Nat
        BY <1>3, <1>4, WireAssumption
      <4>3. 0 < HeaderLen + len /\ Len(frames') <= Len(frames')
        BY <4>2
      <4>4. QED
        BY <3>1, <4>1, <4>3
    <3>2. CASE v # w
      <4>1. writing'[v] = writing[v] /\ written'[v] = written[v]
        BY <1>6, <3>2
      <4>2. writing[v] # 0 /\ writing[v] \in Nat
        BY <3>2, <4>1, WireLengths
      <4>3. writing[v] <= Len(frames) /\ written[v] < HeaderLen + frames[writing[v]]
        BY <4>2 DEF WireTyped, FrameLen
      <4>4. writing[v] \in 1 .. Len(frames) /\ writing[v] <= Len(frames')
        BY <1>4, <4>2, <4>3
      <4>5. frames'[writing[v]] = frames[writing[v]]
        BY <1>4, <4>4
      <4>6. QED
        BY <4>1, <4>3, <4>4, <4>5
    <3>3. QED
      BY <3>1, <3>2
  <2>2. /\ \A i \in 1 .. Len(stream) : stream[i].of \in 1 .. Len(frames')
        /\ \A i \in 1 .. Len(buffer) : buffer[i].of \in 1 .. Len(frames')
    BY <1>5 DEF WireTyped
  <2>3. UNCHANGED <<aborted, cut, stream, buffer, expected, received>>
    BY <1>2 DEF readVars
  <2>4. locked' \in Writers \cup {"free"}
    BY <1>2
  <2>5. QED
    BY <1>4, <1>6, <2>1, <2>2, <2>3, <2>4 DEF WireTyped, FrameLen
<1>8. ASSUME ~cut PROVE LockInv' /\ StreamInv' /\ ReaderInv'
  <2>1. w # "free" /\ \A v \in Writers : writing[v] = 0
    BY <1>2, <1>8, WireAssumption DEF IntactInv, LockInv, Writers
  <2>2. LockInv'
    BY <1>2, <1>4, <1>6, <2>1 DEF LockInv
  <2>3. Pending' = Pending
    BY <1>2, <1>4, <1>6, <2>1 DEF Pending, FrameByte
  <2>4. Len(frames') \in Nat /\ Len(frames) <= Len(frames')
    BY <1>4
  <2>5. StreamInv' /\ ReaderInv'
    BY <1>2, <1>4, <1>8, <2>3, <2>4, PathStays DEF IntactInv, readVars
  <2>6. QED
    BY <2>2, <2>5
<1>9. QED
  BY <1>2, <1>7, <1>8 DEF IntactInv

\* Nothing of the path changes, and the lock stays.
LEMMA WireStays ==
  ASSUME WireIInv,
         UNCHANGED <<frames, writing, written, stream, buffer, expected, received, broken>>,
         aborted' \in BOOLEAN, cut' \in BOOLEAN, cut' => aborted',
         locked' \in Writers \cup {"free"},
         ~cut' => ~cut /\ locked' = locked
  PROVE  WireIInv'
<1> USE DEF WireIInv
<1>1. WireTyped'
  BY DEF WireTyped, FrameLen
<1>2. ASSUME ~cut' PROVE LockInv' /\ StreamInv' /\ ReaderInv'
  <2>1. LockInv /\ StreamInv /\ ReaderInv /\ locked' = locked
    BY <1>2 DEF IntactInv
  <2>2. Pending' = Pending
    BY <2>1 DEF Pending, FrameByte
  <2>3. Len(frames') \in Nat /\ Len(frames) <= Len(frames')
    BY WireLengths
  <2>4. StreamInv' /\ ReaderInv'
    BY <2>1, <2>2, <2>3, PathStays
  <2>5. QED
    BY <2>1, <2>4 DEF LockInv
<1>3. QED
  BY <1>1, <1>2 DEF IntactInv

LEMMA AbortStep == ASSUME WireIInv, Abort PROVE WireIInv'
<1> USE DEF WireIInv
<1>1. /\ ~aborted /\ aborted' = TRUE /\ cut' = (writing[Forwarder] # 0)
      /\ locked' = (IF locked = Forwarder THEN "free" ELSE locked)
      /\ UNCHANGED <<frames, writing, written, stream, buffer, expected, received, broken>>
  BY DEF Abort, readVars
<1>2. cut' \in BOOLEAN /\ locked' \in Writers \cup {"free"} /\ ~cut /\ Forwarder \in Writers
  BY <1>1 DEF WireTyped, Writers
<1>3. ~cut' => locked' = locked
  BY <1>1, <1>2 DEF IntactInv, LockInv
<1>4. QED
  BY <1>1, <1>2, <1>3, WireStays

\* The elements of two sequences in a row, and of a part of one.
LEMMA Joined ==
  ASSUME NEW S, NEW s \in Seq(S), NEW t \in Seq(S)
  PROVE  /\ s \o t \in Seq(S) /\ Len(s \o t) = Len(s) + Len(t)
         /\ Len(s) \in Nat /\ Len(t) \in Nat
         /\ \A i \in 1 .. Len(s) : (s \o t)[i] = s[i]
         /\ \A i \in 1 .. Len(t) : (s \o t)[Len(s) + i] = t[i]
OBVIOUS

LEMMA Split ==
  ASSUME NEW S, NEW s \in Seq(S), NEW n \in 0 .. Len(s)
  PROVE  /\ SubSeq(s, 1, n) \in Seq(S) /\ Len(SubSeq(s, 1, n)) = n
         /\ SubSeq(s, n + 1, Len(s)) \in Seq(S) /\ Len(SubSeq(s, n + 1, Len(s))) = Len(s) - n
         /\ \A i \in 1 .. n : SubSeq(s, 1, n)[i] = s[i]
         /\ \A i \in 1 .. Len(s) - n : SubSeq(s, n + 1, Len(s))[i] = s[n + i]
<1>1. \A i \in 1 .. n : s[i] \in S
  OBVIOUS
<1>2. \A i \in 1 .. Len(s) - n : s[n + i] \in S
  OBVIOUS
<1>3. QED
  BY <1>1, <1>2

\* One byte after another: what comes d places on, and e more.
LEMMA ContinuesOn ==
  ASSUME NEW b \in Byte, NEW d \in Nat, NEW c \in Byte, NEW e \in Nat, NEW x,
         FrameLen(b.of) \in Nat, FrameLen(c.of) \in Nat, 0 < FrameLen(c.of),
         Continues(b, d, c), Continues(c, e, x)
  PROVE  Continues(b, d + e, x)
<1>1. b.of \in Nat /\ b.at \in Nat
  BY DEF Byte
<1>2. CASE b.at + d <= FrameLen(b.of)
  <2>1. c = FrameByte(b.of, b.at + d)
    BY <1>2 DEF Continues
  <2>2. c.of = b.of /\ c.at = b.at + d
    BY <1>1, <2>1, FrameBytes
  <2>3. (b.at + d) + e = b.at + (d + e)
    BY <1>1
  <2>4. QED
    BY <2>2, <2>3 DEF Continues
<1>3. CASE b.at + d = FrameLen(b.of) + 1
  <2>1. c = FrameByte(b.of + 1, 1)
    BY <1>3 DEF Continues
  <2>2. c.of = b.of + 1 /\ c.at = 1
    BY <1>1, <2>1, FrameBytes
  <2>3. e = 0 => x = c
    <3> SUFFICES ASSUME e = 0 PROVE x = c
      OBVIOUS
    <3>1. 1 + e <= FrameLen(b.of + 1) /\ 1 + e = 1
      BY <2>2
    <3>2. QED
      BY <2>1, <2>2, <3>1 DEF Continues
  <2>4. ~(b.at + (d + e) <= FrameLen(b.of))
    BY <1>1, <1>3
  <2>5. b.at + (d + e) = FrameLen(b.of) + 1 => e = 0
    BY <1>1, <1>3
  <2>6. QED
    BY <2>1, <2>3, <2>4, <2>5 DEF Continues
<1>4. CASE b.at + d > FrameLen(b.of) + 1
  BY <1>1, <1>4 DEF Continues
<1>5. QED
  BY <1>1, <1>2, <1>3, <1>4

LEMMA WriteSomeStep ==
  ASSUME WireIInv, NEW w \in Writers, WriteSome(w)
  PROVE  WireIInv'
<1> USE DEF WireIInv
<1>0. PICK W \in Nat, from \in Nat : W = writing[w] /\ from = written[w]
  BY WireLengths
<1>1. PICK upTo \in (from + 1) .. FrameLen(W) :
        /\ stream' = stream \o [k \in 1 .. upTo - from |-> FrameByte(W, from + k)]
        /\ IF upTo = FrameLen(W)
           THEN /\ writing' = [writing EXCEPT ![w] = 0]
                /\ written' = [written EXCEPT ![w] = 0] /\ locked' = "free"
           ELSE written' = [written EXCEPT ![w] = upTo] /\ UNCHANGED <<writing, locked>>
  BY <1>0 DEF WriteSome
<1>2. W # 0 /\ UNCHANGED <<frames, count, aborted, cut, readVars>>
  BY <1>0 DEF WriteSome
<1>3. W \in 1 .. Len(frames) /\ W \in Nat /\ from \in Nat /\ from < FrameLen(W)
  BY <1>0, <1>2, WireLengths DEF WireTyped
<1>4. FrameLen(W) \in Nat
  BY <1>3, FrameLens
<1> DEFINE n == upTo - from
           bytes == [k \in 1 .. n |-> FrameByte(W, from + k)]
<1>5. upTo \in Nat /\ from < upTo /\ upTo <= FrameLen(W) /\ n \in Nat /\ n >= 1
  BY <1>1, <1>3, <1>4
<1>6. \A k \in 1 .. n : /\ FrameByte(W, from + k) \in Byte
                        /\ FrameByte(W, from + k).of = W /\ FrameByte(W, from + k).at = from + k
  BY <1>3, <1>5, FrameBytes
<1>7. bytes \in Seq(Byte) /\ Len(bytes) = n /\ \A k \in 1 .. n : bytes[k] = FrameByte(W, from + k)
  BY <1>5, <1>6
<1>8. stream \in Seq(Byte) /\ stream' = stream \o bytes
  BY <1>1 DEF WireTyped
<1> HIDE DEF bytes
<1>9. /\ stream' \in Seq(Byte) /\ Len(stream') = Len(stream) + n /\ Len(stream) \in Nat
      /\ \A i \in 1 .. Len(stream) : stream'[i] = stream[i]
      /\ \A k \in 1 .. n : stream'[Len(stream) + k] = FrameByte(W, from + k)
  <2>1. /\ stream' \in Seq(Byte) /\ Len(stream') = Len(stream) + Len(bytes)
        /\ Len(stream) \in Nat
        /\ \A i \in 1 .. Len(stream) : stream'[i] = stream[i]
        /\ \A i \in 1 .. Len(bytes) : stream'[Len(stream) + i] = bytes[i]
    <3>1. /\ stream \o bytes \in Seq(Byte) /\ Len(stream) \in Nat
          /\ Len(stream \o bytes) = Len(stream) + Len(bytes)
          /\ \A i \in 1 .. Len(stream) : (stream \o bytes)[i] = stream[i]
          /\ \A i \in 1 .. Len(bytes) : (stream \o bytes)[Len(stream) + i] = bytes[i]
      <4>1. stream \in Seq(Byte) /\ bytes \in Seq(Byte)
        BY <1>7, <1>8
      <4>2. QED
        BY <4>1
    <3>2. QED
      BY <1>8, <3>1
  <2>2. QED
    BY <1>7, <2>1
<1>10. \A i \in 1 .. Len(stream') :
         \/ i \in 1 .. Len(stream)
         \/ \E k \in 1 .. n : i = Len(stream) + k
  <2> SUFFICES ASSUME NEW i \in 1 .. Len(stream'), ~(i \in 1 .. Len(stream))
               PROVE  \E k \in 1 .. n : i = Len(stream) + k
    OBVIOUS
  <2>1. i - Len(stream) \in 1 .. n /\ i = Len(stream) + (i - Len(stream))
    BY <1>5, <1>9
  <2>2. QED
    BY <2>1
<1>11. /\ writing' \in [Writers -> Nat] /\ written' \in [Writers -> Nat]
       /\ \A v \in Writers \ {w} : writing'[v] = writing[v] /\ written'[v] = written[v]
       /\ \/ upTo = FrameLen(W) /\ writing'[w] = 0 /\ locked' = "free"
          \/ /\ upTo < FrameLen(W) /\ writing' = writing /\ written'[w] = upTo
             /\ locked' = locked
  <2>1. writing \in [Writers -> Nat] /\ written \in [Writers -> Nat]
    BY DEF WireTyped
  <2>2. CASE upTo = FrameLen(W)
    <3>1. /\ writing' = [writing EXCEPT ![w] = 0]
          /\ written' = [written EXCEPT ![w] = 0] /\ locked' = "free"
      BY <1>1, <2>2
    <3>2. QED
      BY <2>1, <2>2, <3>1
  <2>3. CASE upTo # FrameLen(W)
    <3>1. written' = [written EXCEPT ![w] = upTo] /\ writing' = writing /\ locked' = locked
      BY <1>1, <2>3
    <3>2. QED
      BY <1>4, <1>5, <2>1, <2>3, <3>1
  <2>4. QED
    BY <2>2, <2>3
<1>12. \A m : FrameLen(m)' = HeaderLen + frames[m]
  BY <1>2 DEF FrameLen
<1>13. WireTyped'
  <2>1. \A v \in Writers : writing'[v] # 0 =>
          writing'[v] <= Len(frames) /\ written'[v] < HeaderLen + frames[writing'[v]]
    <3> SUFFICES ASSUME NEW v \in Writers, writing'[v] # 0
                 PROVE  writing'[v] <= Len(frames) /\ written'[v] < HeaderLen + frames[writing'[v]]
      OBVIOUS
    <3>1. CASE v = w
      <4>1. writing'[w] = W /\ written'[w] = upTo /\ upTo < FrameLen(W)
        BY <1>0, <1>11, <3>1
      <4>2. QED
        BY <1>3, <3>1, <4>1 DEF FrameLen
    <3>2. CASE v # w
      <4>1. writing'[v] = writing[v] /\ written'[v] = written[v]
        BY <1>11, <3>2
      <4>2. QED
        BY <4>1 DEF WireTyped, FrameLen
    <3>3. QED
      BY <3>1, <3>2
  <2>2. \A i \in 1 .. Len(stream') : stream'[i].of \in 1 .. Len(frames)
    <3> SUFFICES ASSUME NEW i \in 1 .. Len(stream') PROVE stream'[i].of \in 1 .. Len(frames)
      OBVIOUS
    <3>1. CASE i \in 1 .. Len(stream)
      BY <1>9, <3>1, StreamBytes
    <3>2. CASE \E k \in 1 .. n : i = Len(stream) + k
      BY <1>3, <1>6, <1>9, <3>2
    <3>3. QED
      BY <1>10, <3>1, <3>2
  <2>3. UNCHANGED <<frames, aborted, cut, buffer, expected, received>>
    BY <1>2 DEF readVars
  <2>4. locked' \in Writers \cup {"free"}
    BY <1>11 DEF WireTyped
  <2>5. QED
    BY <1>9, <1>11, <2>1, <2>2, <2>3, <2>4 DEF WireTyped, FrameLen
<1>14. ASSUME ~cut PROVE LockInv' /\ StreamInv' /\ ReaderInv'
  <2>1. LockInv /\ StreamInv /\ ReaderInv
    BY <1>14 DEF IntactInv
  <2>2. /\ locked = w /\ w # "free" /\ W = Len(frames)
        /\ \A v \in Writers \ {w} : writing[v] = 0
    BY <1>0, <1>2, <2>1, WireAssumption DEF LockInv, Writers
  <2>3. LockInv'
    <3>1. \A v \in Writers \ {w} : writing'[v] = 0
      BY <1>11, <2>2
    <3>2. CASE writing'[w] = 0 /\ locked' = "free"
      <4>1. \A v \in Writers : v # "free"
        BY WireAssumption DEF Writers
      <4>2. QED
        BY <3>1, <3>2, <4>1 DEF LockInv
    <3>3. CASE writing' = writing /\ locked' = locked
      BY <1>2, <2>1, <3>3 DEF LockInv
    <3>4. QED
      BY <1>11, <3>2, <3>3
  <2>4. Pending = FrameByte(W, from + 1)
    BY <1>0, <2>2 DEF Pending
  \* The byte after the last one: of this frame, or the first of the next.
  <2>5. \/ upTo < FrameLen(W) /\ Pending' = FrameByte(W, upTo + 1)
        \/ upTo = FrameLen(W) /\ Pending' = FrameByte(W + 1, 1)
    <3>1. CASE upTo = FrameLen(W)
      <4>1. locked' = "free"
        BY <1>5, <1>11, <3>1
      <4>2. QED
        BY <1>2, <2>2, <3>1, <4>1 DEF Pending, FrameByte
    <3>2. CASE upTo # FrameLen(W)
      <4>1. locked' = w /\ written'[w] = upTo /\ upTo < FrameLen(W)
        BY <1>11, <2>2, <3>2
      <4>2. QED
        BY <1>2, <2>2, <4>1 DEF Pending, FrameByte
    <3>3. QED
      BY <3>1, <3>2
  <2>6. \A j \in 1 .. Len(stream) + 1 : UnderWay(j)' = UnderWay(j)
    <3> SUFFICES ASSUME NEW j \in 1 .. Len(stream) + 1 PROVE UnderWay(j)' = UnderWay(j)
      OBVIOUS
    <3>1. j <= Len(stream')
      BY <1>5, <1>9
    <3>2. UnderWay(j)' = stream'[j]
      BY <3>1 DEF UnderWay
    <3>3. CASE j <= Len(stream)
      <4>1. j \in 1 .. Len(stream)
        BY <1>9, <3>3
      <4>2. QED
        BY <1>9, <3>2, <3>3, <4>1 DEF UnderWay
    <3>4. CASE j = Len(stream) + 1
      <4>1. stream'[Len(stream) + 1] = FrameByte(W, from + 1) /\ ~(j <= Len(stream))
        BY <1>5, <1>9, <3>4
      <4>2. QED
        BY <2>4, <3>2, <3>4, <4>1 DEF UnderWay
    <3>5. QED
      BY <1>9, <3>3, <3>4
  <2>0. PICK l \in Nat : l = Len(stream)
    BY <1>9
  \* What comes after each new byte.
  <2>7. \A a \in 1 .. n : \A e \in 0 .. (n + 1) - a :
          Continues(FrameByte(W, from + a), e, UnderWay(l + (a + e))')
    <3> SUFFICES ASSUME NEW a \in 1 .. n, NEW e \in 0 .. (n + 1) - a
                 PROVE  Continues(FrameByte(W, from + a), e, UnderWay(l + (a + e))')
      OBVIOUS
    <3>1. /\ FrameByte(W, from + a).of = W /\ FrameByte(W, from + a).at = from + a
          /\ (from + a) + e = from + (a + e) /\ a + e \in 1 .. n + 1
      BY <1>3, <1>5, <1>6
    <3>2. CASE a + e \in 1 .. n
      <4>1. l + (a + e) <= Len(stream') /\ stream'[l + (a + e)] = FrameByte(W, from + (a + e))
        <5>1. Len(stream') = l + n /\ a + e <= n /\ a + e \in Nat
          BY <1>5, <1>9, <2>0, <3>1, <3>2
        <5>2. stream'[Len(stream) + (a + e)] = FrameByte(W, from + (a + e))
          BY <1>9, <3>2
        <5>3. QED
          BY <1>5, <2>0, <5>1, <5>2
      <4>2. UnderWay(l + (a + e))' = FrameByte(W, from + (a + e))
        BY <4>1 DEF UnderWay
      <4>3. from + (a + e) <= FrameLen(W)
        BY <1>3, <1>4, <1>5, <3>2
      <4>4. QED
        BY <1>2, <1>4, <3>1, <4>2, <4>3 DEF Continues, FrameLen
    <3>3. CASE a + e = n + 1
      <4>1. UnderWay(l + (a + e))' = Pending'
        BY <1>5, <1>9, <2>0, <3>3 DEF UnderWay
      <4>2. from + (a + e) = upTo + 1
        BY <1>3, <1>5, <3>3
      <4>3. QED
        BY <1>2, <1>4, <1>5, <2>5, <3>1, <4>1, <4>2 DEF Continues, FrameLen
    <3>4. QED
      BY <1>5, <3>1, <3>2, <3>3
  <2>8. ASSUME NEW i \in 1 .. Len(stream'), NEW j \in i .. Len(stream') + 1
        PROVE  /\ stream'[i].at \in 1 .. FrameLen(stream'[i].of)
               /\ Continues(stream'[i], j - i, UnderWay(j)')
    <3>1. PICK x : x = UnderWay(j)'
      OBVIOUS
    <3>2. CASE i \in 1 .. l
      <4>1. PICK b \in Byte : b = stream[i] /\ b = stream'[i]
        BY <1>9, <2>0, <3>2, StreamBytes
      <4>2. /\ b.of \in 1 .. Len(frames) /\ b.at \in 1 .. FrameLen(b.of)
            /\ FrameLen(b.of) \in Nat
            /\ \A k \in i .. l + 1 : Continues(b, k - i, UnderWay(k))
        BY <2>0, <2>1, <3>2, <4>1, StreamBytes DEF StreamInv
      <4>3. CASE j <= l + 1
        <5>1. j \in i .. l + 1 /\ j \in 1 .. Len(stream) + 1
          BY <2>0, <3>2, <4>3
        <5>2. QED
          BY <2>6, <4>1, <4>2, <5>1
      <4>4. CASE j > l + 1
        <5>1. (l + 1) - i \in Nat /\ j - (l + 1) \in Nat /\ ((l + 1) - i) + (j - (l + 1)) = j - i
          BY <2>0, <3>2, <4>4
        <5>2. Continues(b, (l + 1) - i, FrameByte(W, from + 1))
          <6>1. l + 1 \in i .. l + 1
            BY <3>2
          <6>2. UnderWay(l + 1) = FrameByte(W, from + 1)
            BY <2>0, <2>4 DEF UnderWay
          <6>3. QED
            BY <4>2, <6>1, <6>2
        <5>3. Continues(FrameByte(W, from + 1), j - (l + 1), x)
          <6>1. 1 \in 1 .. n /\ j - (l + 1) \in 0 .. (n + 1) - 1 /\ l + (1 + (j - (l + 1))) = j
            BY <1>5, <1>9, <2>0, <3>2, <4>4
          <6>2. QED
            BY <2>7, <3>1, <6>1
        <5>4. /\ FrameByte(W, from + 1) \in Byte /\ FrameByte(W, from + 1).of = W
              /\ FrameLen(W) \in Nat /\ 0 < FrameLen(W)
          BY <1>3, <1>5, <1>6, FrameLens
        <5>5. Continues(b, ((l + 1) - i) + (j - (l + 1)), x)
          BY <4>2, <5>1, <5>2, <5>3, <5>4, ContinuesOn
        <5>6. QED
          BY <3>1, <4>1, <4>2, <5>1, <5>5
      <4>5. QED
        BY <2>0, <4>3, <4>4
    <3>3. CASE \E k \in 1 .. n : i = l + k
      <4>1. PICK k \in 1 .. n : i = l + k
        BY <3>3
      <4>2. stream'[i] = FrameByte(W, from + k)
        BY <1>9, <2>0, <4>1
      <4>3. from + k \in 1 .. FrameLen(W)
        BY <1>3, <1>4, <1>5, <4>1
      <4>4. j - i \in 0 .. (n + 1) - k /\ l + (k + (j - i)) = j
        BY <1>5, <1>9, <2>0, <4>1
      <4>5. Continues(FrameByte(W, from + k), j - i, x)
        BY <2>7, <3>1, <4>1, <4>4
      <4>6. QED
        BY <1>6, <3>1, <4>1, <4>2, <4>3, <4>5
    <3>4. QED
      BY <1>10, <2>0, <3>2, <3>3
  <2>9. StreamInv'
    BY <1>2, <2>8 DEF StreamInv, Continues, FrameLen
  <2>10. ReaderInv'
    <3>1. UnderWay(1)' = UnderWay(1)
      BY <1>9, <2>6
    <3>2. UNCHANGED <<frames, buffer, expected, received, broken>>
      BY <1>2 DEF readVars
    <3>3. QED
      BY <2>1, <3>1, <3>2 DEF ReaderInv, FrameLen
  <2>11. QED
    BY <2>3, <2>9, <2>10
<1>15. QED
  BY <1>2, <1>13, <1>14 DEF IntactInv

\* The first n bytes under way are taken, all of one frame if they are in place.
LEMMA ReadSomeStep == ASSUME WireIInv, ReadSome PROVE WireIInv'
<1> USE DEF WireIInv
<1>0. PICK total \in Nat : total = HeaderLen + (IF expected = Unknown THEN 0 ELSE expected)
  BY WireAssumption DEF WireTyped, Unknown
<1>1. Missing = total - Len(buffer)
  <2>1. expected # Unknown => expected \in Nat
    BY WireAssumption DEF WireTyped
  <2>2. QED
    BY <1>0, <2>1, WireLengths DEF Missing
<1>2. /\ stream # <<>> /\ total - Len(buffer) > 0 /\ broken = "no"
      /\ UNCHANGED <<writeVars, expected, received, broken, ticked>>
  BY <1>1 DEF ReadSome
<1>3. PICK n : /\ n = (IF Len(stream) < total - Len(buffer)
                         THEN Len(stream) ELSE total - Len(buffer))
               /\ buffer' = buffer \o SubSeq(stream, 1, n)
               /\ stream' = SubSeq(stream, n + 1, Len(stream))
  BY <1>1 DEF ReadSome
<1>4. /\ stream \in Seq(Byte) /\ buffer \in Seq(Byte)
      /\ Len(stream) \in Nat /\ Len(buffer) \in Nat /\ Len(stream) >= 1
  BY <1>2 DEF WireTyped
<1>5. /\ n \in Nat /\ n \in 0 .. Len(stream) /\ n >= 1 /\ Len(buffer) + n <= total
  <2>1. CASE Len(stream) < total - Len(buffer)
    <3>1. n = Len(stream)
      BY <1>3, <2>1
    <3>2. QED
      BY <1>0, <1>4, <2>1, <3>1
  <2>2. CASE ~(Len(stream) < total - Len(buffer))
    <3>1. n = total - Len(buffer)
      BY <1>3, <2>2
    <3>2. QED
      BY <1>0, <1>2, <1>4, <2>2, <3>1
  <2>3. QED
    BY <2>1, <2>2
<1>6. /\ SubSeq(stream, 1, n) \in Seq(Byte) /\ Len(SubSeq(stream, 1, n)) = n
      /\ stream' \in Seq(Byte) /\ Len(stream') = Len(stream) - n
      /\ \A i \in 1 .. n : SubSeq(stream, 1, n)[i] = stream[i]
      /\ \A i \in 1 .. Len(stream) - n : stream'[i] = stream[n + i]
  BY <1>3, <1>4, <1>5, Split
<1>7. /\ buffer' \in Seq(Byte) /\ Len(buffer') = Len(buffer) + n
      /\ \A i \in 1 .. Len(buffer) : buffer'[i] = buffer[i]
      /\ \A i \in 1 .. n : buffer'[Len(buffer) + i] = stream[i]
  <2> DEFINE taken == SubSeq(stream, 1, n)
  <2>1. taken \in Seq(Byte) /\ Len(taken) = n /\ \A i \in 1 .. n : taken[i] = stream[i]
    BY <1>6
  <2>2. buffer' = buffer \o taken
    BY <1>3
  <2> HIDE DEF taken
  <2>3. /\ buffer \o taken \in Seq(Byte) /\ Len(buffer \o taken) = Len(buffer) + Len(taken)
        /\ \A i \in 1 .. Len(buffer) : (buffer \o taken)[i] = buffer[i]
        /\ \A i \in 1 .. Len(taken) : (buffer \o taken)[Len(buffer) + i] = taken[i]
    <3>1. buffer \in Seq(Byte) /\ taken \in Seq(Byte)
      BY <1>4, <2>1
    <3>2. QED
      BY <3>1
  <2>4. QED
    BY <2>1, <2>2, <2>3
<1>8. UNCHANGED <<frames, writing, written, aborted, cut, locked, expected, received, broken>>
  BY <1>2 DEF writeVars
<1>9. ASSUME NEW i \in 1 .. Len(buffer')
      PROVE  i \in 1 .. Len(buffer) \/ \E k \in 1 .. n : i = Len(buffer) + k
  <2>1. CASE i > Len(buffer)
    <3>1. i - Len(buffer) \in 1 .. n /\ i = Len(buffer) + (i - Len(buffer))
      BY <1>4, <1>5, <1>7, <2>1
    <3>2. QED
      BY <3>1
  <2>2. CASE i <= Len(buffer)
    BY <1>4, <2>2
  <2>3. QED
    BY <1>4, <1>7, <2>1, <2>2
<1>10. ASSUME NEW i \in 1 .. Len(stream')
      PROVE  n + i \in 1 .. Len(stream) /\ stream'[i] = stream[n + i]
  BY <1>4, <1>5, <1>6
<1>11. \A k \in 1 .. n : k \in 1 .. Len(stream)
  BY <1>4, <1>5
<1>12. WireTyped'
  <2>1. \A i \in 1 .. Len(stream') : stream'[i].of \in 1 .. Len(frames)
    BY <1>10 DEF WireTyped
  <2>2. \A i \in 1 .. Len(buffer') : buffer'[i].of \in 1 .. Len(frames)
    <3> SUFFICES ASSUME NEW i \in 1 .. Len(buffer') PROVE buffer'[i].of \in 1 .. Len(frames)
      OBVIOUS
    <3>1. CASE i \in 1 .. Len(buffer)
      BY <1>7, <3>1 DEF WireTyped
    <3>2. CASE \E k \in 1 .. n : i = Len(buffer) + k
      BY <1>7, <1>11, <3>2 DEF WireTyped
    <3>3. QED
      BY <1>9, <3>1, <3>2
  <2>3. Len(buffer') <= HeaderLen + (IF expected = Unknown THEN 0 ELSE expected)
    BY <1>0, <1>5, <1>7
  <2>4. \A w \in Writers : writing[w] # 0 =>
          writing[w] <= Len(frames) /\ written[w] < FrameLen(writing[w])
    BY DEF WireTyped
  <2>5. QED
    BY <1>6, <1>7, <1>8, <2>1, <2>2, <2>3, <2>4 DEF WireTyped, FrameLen
<1>13. ASSUME ~cut PROVE LockInv' /\ StreamInv' /\ ReaderInv'
  <2>1. LockInv /\ StreamInv /\ ReaderInv
    BY <1>13 DEF IntactInv
  <2>2. Pending' = Pending
    BY <1>8 DEF Pending, FrameByte
  <2>3. ASSUME NEW j \in 1 .. Len(stream') + 1 PROVE UnderWay(j)' = UnderWay(n + j)
    <3>1. CASE j <= Len(stream')
      <4>1. UnderWay(j)' = stream'[j]
        BY <3>1 DEF UnderWay
      <4>2. n + j <= Len(stream) /\ stream'[j] = stream[n + j]
        BY <1>4, <1>5, <1>6, <3>1
      <4>3. QED
        BY <4>1, <4>2 DEF UnderWay
    <3>2. CASE ~(j <= Len(stream'))
      <4>1. ~(n + j <= Len(stream))
        BY <1>4, <1>5, <1>6, <3>2
      <4>2. QED
        BY <2>2, <3>2, <4>1 DEF UnderWay
    <3>3. QED
      BY <3>1, <3>2
  <2>4. ASSUME NEW i \in 1 .. Len(stream'), NEW j \in i .. Len(stream') + 1
        PROVE  /\ stream'[i].at \in 1 .. FrameLen(stream'[i].of)
               /\ Continues(stream'[i], j - i, UnderWay(j)')
    <3>1. n + i \in 1 .. Len(stream) /\ stream'[i] = stream[n + i]
      BY <1>10
    <3>2. /\ n + j \in n + i .. Len(stream) + 1 /\ (n + j) - (n + i) = j - i
          /\ j \in 1 .. Len(stream') + 1
      BY <1>4, <1>5, <1>6
    <3>3. UnderWay(j)' = UnderWay(n + j)
      BY <2>3, <3>2
    <3>4. Continues(stream[n + i], (n + j) - (n + i), UnderWay(n + j))
      BY <2>1, <3>1, <3>2 DEF StreamInv
    <3>5. QED
      BY <2>1, <3>1, <3>2, <3>3, <3>4 DEF StreamInv
  <2>5. StreamInv'
    BY <1>8, <2>4 DEF StreamInv, Continues, FrameLen
  <2>6. PICK m \in Nat : m = Len(received) + 1
    BY WireLengths
  <2>7. /\ broken = "no" /\ \A i \in 1 .. Len(received) : received[i] = i
        /\ \A i \in 1 .. Len(buffer) : buffer[i] = FrameByte(m, i)
        /\ buffer # <<>> => m <= Len(frames) /\ Len(buffer) <= FrameLen(m)
        /\ expected # Unknown => HeaderLen <= Len(buffer) /\ expected = frames[m]
        /\ UnderWay(1) = IF buffer # <<>> /\ Len(buffer) = FrameLen(m) THEN FrameByte(m + 1, 1)
                         ELSE FrameByte(m, Len(buffer) + 1)
    BY <2>1, <2>6 DEF ReaderInv
  \* The frame is there, and not yet all in the buffer.
  <2>8. buffer # <<>> => m \in 1 .. Len(frames)
    BY <2>6, <2>7, WireLengths
  <2>9. buffer # <<>> => Len(buffer) < FrameLen(m) /\ total <= FrameLen(m)
    <3> SUFFICES ASSUME buffer # <<>> PROVE Len(buffer) < FrameLen(m) /\ total <= FrameLen(m)
      OBVIOUS
    <3>1. /\ frames[m] \in Nat /\ FrameLen(m) = HeaderLen + frames[m] /\ HeaderLen \in Nat
      BY <2>8, FrameLens
    <3>2. total <= FrameLen(m)
      BY <1>0, <2>7, <3>1
    <3>3. QED
      BY <1>0, <1>2, <1>4, <3>1, <3>2
  <2>10. stream[1] = FrameByte(m, Len(buffer) + 1)
    <3>1. UnderWay(1) = stream[1]
      BY <1>4 DEF UnderWay
    <3>2. ~(buffer # <<>> /\ Len(buffer) = FrameLen(m))
      BY <1>4, <2>9
    <3>3. QED
      BY <2>7, <3>1, <3>2
  <2>11. /\ 1 \in 1 .. Len(stream) /\ stream[1].of = m /\ stream[1].at = Len(buffer) + 1
         /\ m \in 1 .. Len(frames)
    <3>1. 1 \in 1 .. Len(stream) /\ stream[1].of = m /\ stream[1].at = Len(buffer) + 1
      BY <1>4, <2>10, FrameBytes
    <3>2. QED
      BY <3>1, StreamBytes
  <2>12. /\ FrameLen(m) \in Nat /\ FrameLen(m) = HeaderLen + frames[m] /\ frames[m] \in Nat
         /\ HeaderLen \in Nat
    BY <2>11, FrameLens
  <2>13. total <= FrameLen(m)
    <3>1. expected # Unknown => buffer # <<>>
      BY <2>7, WireAssumption, WireLengths
    <3>2. QED
      BY <1>0, <2>9, <2>12, <3>1
  <2>14. ASSUME NEW j \in 1 .. Len(stream) + 1
         PROVE  Continues(FrameByte(m, Len(buffer) + 1), j - 1, UnderWay(j))
    BY <2>1, <2>10, <2>11, <2>14 DEF StreamInv
  <2>15. \A j \in 1 .. Len(stream) + 1 :
           /\ Len(buffer) + j <= FrameLen(m) => UnderWay(j) = FrameByte(m, Len(buffer) + j)
           /\ Len(buffer) + j = FrameLen(m) + 1 => UnderWay(j) = FrameByte(m + 1, 1)
    <3> SUFFICES ASSUME NEW j \in 1 .. Len(stream) + 1
                 PROVE  /\ Len(buffer) + j <= FrameLen(m) =>
                             UnderWay(j) = FrameByte(m, Len(buffer) + j)
                        /\ Len(buffer) + j = FrameLen(m) + 1 => UnderWay(j) = FrameByte(m + 1, 1)
      OBVIOUS
    <3>1. (Len(buffer) + 1) + (j - 1) = Len(buffer) + j
      BY <1>4
    <3>2. /\ FrameByte(m, Len(buffer) + 1).of = m
          /\ FrameByte(m, Len(buffer) + 1).at = Len(buffer) + 1
      BY <2>10, <2>11
    <3>3. QED
      BY <2>14, <3>1, <3>2 DEF Continues
  <2>16. \A i \in 1 .. Len(buffer') : buffer'[i] = FrameByte(m, i)
    <3> SUFFICES ASSUME NEW i \in 1 .. Len(buffer') PROVE buffer'[i] = FrameByte(m, i)
      OBVIOUS
    <3>1. CASE i \in 1 .. Len(buffer)
      BY <1>7, <2>7, <3>1
    <3>2. ASSUME NEW k \in 1 .. n, i = Len(buffer) + k PROVE buffer'[i] = FrameByte(m, i)
      <4>1. /\ k \in 1 .. Len(stream) + 1 /\ k <= Len(stream) /\ Len(buffer) + k <= FrameLen(m)
        BY <1>4, <1>5, <2>12, <2>13, <1>0
      <4>2. stream[k] = FrameByte(m, Len(buffer) + k)
        BY <2>15, <4>1 DEF UnderWay
      <4>3. QED
        BY <1>7, <3>2, <4>2
    <3>3. QED
      BY <1>9, <3>1, <3>2
  <2>17. Len(buffer') <= FrameLen(m)
    BY <1>0, <1>4, <1>5, <1>7, <2>12, <2>13
  <2>18. UnderWay(1)' = IF Len(buffer') = FrameLen(m) THEN FrameByte(m + 1, 1)
                        ELSE FrameByte(m, Len(buffer') + 1)
    <3>1. UnderWay(1)' = UnderWay(n + 1) /\ n + 1 \in 1 .. Len(stream) + 1
      BY <1>4, <1>5, <1>6, <2>3
    <3>2. Len(buffer) + (n + 1) = Len(buffer') + 1
      BY <1>4, <1>5, <1>7
    <3>3. CASE Len(buffer') = FrameLen(m)
      BY <2>15, <3>1, <3>2, <3>3
    <3>4. CASE Len(buffer') # FrameLen(m)
      <4>1. Len(buffer') + 1 <= FrameLen(m)
        <5>1. Len(buffer') \in Int /\ FrameLen(m) \in Int
          BY <1>4, <1>5, <1>7, <2>12
        <5>2. QED
          BY <2>17, <3>4, <5>1
      <4>2. QED
        BY <2>15, <3>1, <3>2, <3>4, <4>1
    <3>5. QED
      BY <3>3, <3>4
  <2>19. buffer' # <<>> /\ m <= Len(frames)
    BY <1>4, <1>5, <1>7, <2>11
  <2>20. expected # Unknown => HeaderLen <= Len(buffer')
    BY <1>4, <1>5, <1>7, <2>7, <2>12
  <2>21. ReaderInv'
    BY <1>8, <2>6, <2>7, <2>16, <2>17, <2>18, <2>19, <2>20 DEF ReaderInv, FrameLen
  <2>22. LockInv'
    BY <1>8, <2>1 DEF LockInv
  <2>23. QED
    BY <2>5, <2>21, <2>22
<1>14. QED
  BY <1>8, <1>12, <1>13 DEF IntactInv

\* What the reader has collected so far is the beginning of its frame.
LEMMA BufferIsFrame ==
  ASSUME WireTyped, ReaderInv, buffer # <<>>
  PROVE  /\ IsFrame(buffer) /\ FirstOf(buffer) = Len(received) + 1
         /\ Len(received) + 1 \in 1 .. Len(frames)
<1> DEFINE m == Len(received) + 1
<1>1. /\ buffer \in Seq(Byte) /\ Len(buffer) \in Nat /\ Len(buffer) >= 1 /\ m \in Nat /\ m >= 1
      /\ Len(frames) \in Nat
  BY WireLengths DEF WireTyped
<1>2. (\A i \in 1 .. Len(buffer) : buffer[i] = FrameByte(m, i)) /\ m <= Len(frames)
  BY DEF ReaderInv
<1> HIDE DEF m
<1>3. FirstOf(buffer) = m
  <2>1. buffer[1] = FrameByte(m, 1)
    BY <1>1, <1>2
  <2>2. QED
    BY <1>1, <2>1, FrameBytes DEF FirstOf
<1>4. buffer = [k \in 1 .. Len(buffer) |-> FrameByte(m, k)]
  BY <1>1, <1>2
<1>5. IsFrame(buffer)
  BY <1>3, <1>4 DEF IsFrame
<1>6. m \in 1 .. Len(frames)
  BY <1>1, <1>2
<1>7. QED
  BY <1>3, <1>5, <1>6 DEF m

LEMMA FirstOfs ==
  ASSUME WireTyped, buffer # <<>>
  PROVE  FirstOf(buffer) \in 1 .. Len(frames) /\ FirstOf(buffer) \in Nat
<1>1. 1 \in 1 .. Len(buffer)
  BY DEF WireTyped
<1>2. buffer[1].of \in 1 .. Len(frames)
  BY <1>1 DEF WireTyped
<1>3. QED
  BY <1>2, WireLengths DEF FirstOf

LEMMA ReadLengthStep == ASSUME WireIInv, ReadLength PROVE WireIInv'
<1> USE DEF WireIInv
<1>1. /\ broken = "no" /\ Len(buffer) = HeaderLen /\ expected = Unknown
      /\ UNCHANGED <<writeVars, stream, buffer, received, ticked>>
  BY DEF ReadLength
<1>2. PICK len \in Declared(buffer) :
        \/ len <= MAX_FRAME_LEN /\ expected' = len /\ UNCHANGED broken
        \/ ~(len <= MAX_FRAME_LEN) /\ broken' = "too large" /\ UNCHANGED expected
  BY DEF ReadLength, Accepted
<1>3. HeaderLen \in Nat /\ HeaderLen > 0 /\ MAX_FRAME_LEN \in Nat
  BY WireAssumption
<1>4. buffer # <<>>
  BY <1>1, <1>3
<1>5. len \in Nat
  <2>1. IsFrame(buffer) => len = frames[FirstOf(buffer)]
    BY DEF Declared
  <2>2. IsFrame(buffer) => len \in Nat
    BY <1>4, <2>1, FirstOfs, FrameLens
  <2>3. ~IsFrame(buffer) => len \in 0 .. (MAX_FRAME_LEN + 1)
    BY DEF Declared
  <2>4. QED
    BY <1>3, <2>2, <2>3
<1>6. UNCHANGED <<frames, writing, written, aborted, cut, locked, stream, buffer, received>>
  BY <1>1 DEF writeVars
<1>7. WireTyped'
  <2>1. \/ expected' = Unknown
        \/ expected' = len /\ len \in 0 .. MAX_FRAME_LEN /\ len # Unknown
    <3>1. len <= MAX_FRAME_LEN => len \in 0 .. MAX_FRAME_LEN /\ len # Unknown
      BY <1>3, <1>5 DEF Unknown
    <3>2. QED
      BY <1>1, <1>2, <3>1
  <2>2. /\ expected' \in 0 .. MAX_FRAME_LEN \cup {Unknown}
        /\ Len(buffer') <= HeaderLen + (IF expected' = Unknown THEN 0 ELSE expected')
    <3>1. buffer' = buffer /\ HeaderLen <= HeaderLen + 0 /\ HeaderLen <= HeaderLen + len
      BY <1>3, <1>5, <1>6
    <3>2. QED
      BY <1>1, <2>1, <3>1
  <2>3. QED
    BY <1>6, <2>2 DEF WireTyped, FrameLen
<1>8. ASSUME ~cut PROVE LockInv' /\ StreamInv' /\ ReaderInv'
  <2>1. LockInv /\ StreamInv /\ ReaderInv
    BY <1>8 DEF IntactInv
  <2>2. PICK m \in Nat : m = Len(received) + 1
    BY WireLengths
  <2>3. len = frames[m] /\ m \in 1 .. Len(frames)
    BY <1>4, <2>1, <2>2, BufferIsFrame DEF Declared
  <2>4. expected' = frames[m] /\ broken' = broken
    BY <1>2, <2>3, FrameLens
  <2>5. \A j : UnderWay(j)' = UnderWay(j)
    BY <1>6 DEF UnderWay, Pending, FrameByte
  <2>6. StreamInv'
    BY <1>6, <2>1, <2>5 DEF StreamInv, Continues, FrameLen
  <2>7. HeaderLen <= Len(buffer)
    BY <1>1, <1>3
  <2>8. ReaderInv'
    BY <1>6, <2>1, <2>2, <2>4, <2>5, <2>7 DEF ReaderInv, FrameLen
  <2>9. QED
    BY <1>6, <2>1, <2>6, <2>8 DEF LockInv
<1>9. QED
  BY <1>6, <1>7, <1>8 DEF IntactInv

LEMMA ReadFrameStep == ASSUME WireIInv, ReadFrame PROVE WireIInv'
<1> USE DEF WireIInv
<1>1. /\ expected # Unknown /\ Missing = 0 /\ buffer' = <<>> /\ expected' = Unknown
      /\ UNCHANGED <<writeVars, stream, ticked>>
      /\ \/ IsFrame(buffer) /\ received' = Append(received, FirstOf(buffer)) /\ UNCHANGED broken
         \/ ~IsFrame(buffer) /\ (received' = received \/ received' = Append(received, Junk))
  BY DEF ReadFrame, FrameComplete, AfterFrame
<1>2. HeaderLen \in Nat /\ HeaderLen > 0 /\ MAX_FRAME_LEN \in Nat /\ Len(buffer) \in Nat
  BY WireLengths
<1>3. Len(buffer) = HeaderLen + expected /\ expected \in Nat
  <2>1. expected \in Nat
    BY <1>1, <1>2 DEF WireTyped
  <2>2. QED
    BY <1>1, <1>2, <2>1 DEF Missing
<1>4. buffer # <<>>
  BY <1>2, <1>3
<1>5. UNCHANGED <<frames, writing, written, aborted, cut, locked, stream>>
  BY <1>1 DEF writeVars
<1>6. received' \in Seq(Nat)
  <2>1. received \in Seq(Nat) /\ FirstOf(buffer) \in Nat /\ Junk \in Nat
    BY <1>4, FirstOfs DEF WireTyped, Junk
  <2>2. QED
    BY <1>1, <2>1
<1>7. WireTyped'
  <2>1. /\ buffer' \in Seq(Byte) /\ expected' = Unknown
        /\ Len(buffer') <= HeaderLen + 0 /\ \A i \in 1 .. Len(buffer') : FALSE
    BY <1>1, <1>2
  <2>2. QED
    BY <1>5, <1>6, <2>1 DEF WireTyped, FrameLen
<1>8. ASSUME ~cut PROVE LockInv' /\ StreamInv' /\ ReaderInv'
  <2>1. LockInv /\ StreamInv /\ ReaderInv
    BY <1>8 DEF IntactInv
  <2>2. PICK m \in Nat : m = Len(received) + 1
    BY WireLengths
  <2>3. IsFrame(buffer) /\ FirstOf(buffer) = m /\ m \in 1 .. Len(frames)
    BY <1>4, <2>1, <2>2, BufferIsFrame
  <2>4. received' = Append(received, m) /\ broken' = broken
    BY <1>1, <2>3
  <2>5. /\ Len(received') = m /\ \A i \in 1 .. Len(received) : received'[i] = received[i]
        /\ received'[m] = m
    <3>1. received \in Seq(Nat)
      BY DEF WireTyped
    <3>2. QED
      BY <2>2, <2>4, <3>1, Appended
  <2>6. \A i \in 1 .. Len(received') : received'[i] = i
    <3>1. \A i \in 1 .. Len(received') : i \in 1 .. Len(received) \/ i = m
      BY <2>2, <2>5, WireLengths
    <3>2. QED
      BY <2>1, <2>5, <3>1 DEF ReaderInv
  <2>7. \A j : UnderWay(j)' = UnderWay(j)
    BY <1>5 DEF UnderWay, Pending, FrameByte
  <2>8. StreamInv'
    BY <1>5, <2>1, <2>7 DEF StreamInv, Continues, FrameLen
  <2>9. Len(buffer) = FrameLen(m)
    BY <1>1, <1>3, <2>1, <2>2 DEF ReaderInv, FrameLen
  <2>10. UnderWay(1) = FrameByte(m + 1, 1)
    BY <1>4, <2>1, <2>2, <2>9 DEF ReaderInv
  <2>11. ReaderInv'
    <3>1. UnderWay(1)' = FrameByte(Len(received') + 1, 0 + 1)
      BY <2>5, <2>7, <2>10
    <3>2. /\ buffer' = <<>> /\ Len(buffer') = 0 /\ expected' = Unknown
          /\ \A i \in 1 .. Len(buffer') : FALSE
      BY <1>1
    <3>3. broken' = "no"
      BY <2>1, <2>4 DEF ReaderInv
    <3>4. QED
      BY <2>6, <3>1, <3>2, <3>3 DEF ReaderInv, Unknown
  <2>12. QED
    BY <1>5, <2>1, <2>8, <2>11 DEF LockInv
<1>9. QED
  BY <1>5, <1>7, <1>8 DEF IntactInv

LEMMA WireInitIInv == ASSUME WireInit PROVE WireIInv
<1> USE DEF WireInit
<1>1. HeaderLen \in Nat /\ HeaderLen > 0 /\ MAX_FRAME_LEN \in Nat
  BY WireAssumption
<1>2. WireTyped
  <2>1. /\ frames \in Seq(0 .. MAX_FRAME_LEN) /\ stream \in Seq(Byte) /\ buffer \in Seq(Byte)
        /\ received \in Seq(Nat) /\ Len(buffer) = 0 /\ \A i \in 1 .. 0 : FALSE
    OBVIOUS
  <2>2. /\ writing \in [Writers -> Nat] /\ written \in [Writers -> Nat]
        /\ \A w \in Writers : writing[w] = 0
    OBVIOUS
  <2>3. Len(stream) = 0 /\ expected = Unknown /\ 0 <= HeaderLen + 0
    BY <1>1
  <2>4. QED
    BY <2>1, <2>2, <2>3 DEF WireTyped
<1>3. LockInv
  BY WireAssumption DEF LockInv, Writers
<1>4. StreamInv
  BY DEF StreamInv
<1>5. ReaderInv
  BY DEF ReaderInv, UnderWay, Pending
<1>6. QED
  BY <1>2, <1>3, <1>4, <1>5 DEF WireIInv, IntactInv

LEMMA WireStep == ASSUME WireIInv, [WireNext]_wireVars PROVE WireIInv'
<1>1. aborted \in BOOLEAN /\ cut \in BOOLEAN /\ (cut => aborted) /\ locked \in Writers \cup {"free"}
  BY DEF WireIInv, WireTyped
<1>2. ASSUME NEW w \in Writers, BeginFrame(w) \/ RefuseMessage(w) \/ WriteSome(w)
      PROVE  WireIInv'
  <2>1. CASE RefuseMessage(w)
    BY <1>1, <2>1, WireStays DEF RefuseMessage, readVars
  <2>2. QED
    BY <1>2, <2>1, BeginFrameStep, WriteSomeStep
<1>3. CASE Abort
  BY <1>3, AbortStep
<1>4. CASE Reads
  BY <1>4, ReadSomeStep, ReadLengthStep, ReadFrameStep DEF Reads
<1>5. CASE OtherEvent
  BY <1>1, <1>5, WireStays DEF OtherEvent, AfterEvent, writeVars
<1>6. CASE UNCHANGED wireVars
  BY <1>1, <1>6, WireStays DEF wireVars
<1>7. QED
  BY <1>2, <1>3, <1>4, <1>5, <1>6 DEF WireNext

LEMMA WireIInvImplies == ASSUME WireIInv PROVE WireInv
<1> USE DEF WireIInv
<1>1. WireTypeOK
  <2>1. Len(buffer) <= HeaderLen + MAX_FRAME_LEN
    <3>1. CASE expected = Unknown
      BY <3>1, WireLengths DEF WireTyped
    <3>2. CASE expected # Unknown
      <4>1. expected \in Nat /\ expected <= MAX_FRAME_LEN /\ Len(buffer) <= HeaderLen + expected
        BY <3>2, WireAssumption DEF WireTyped
      <4>2. QED
        BY <4>1, WireLengths
    <3>3. QED
      BY <3>1, <3>2
  <2>2. QED
    BY <2>1 DEF WireTyped, WireTypeOK
<1>2. FramesIntact
  <2> SUFFICES ASSUME ~cut
               PROVE  ~((CHOOSE k \in 0 .. Len(received) :
                           /\ \A i \in 1 .. k : received[i] = i
                           /\ k = Len(received) \/ received[k + 1] # k + 1) < Len(received))
    BY DEF FramesIntact
  <2> DEFINE Intact(k) == /\ \A i \in 1 .. k : received[i] = i
                          /\ k = Len(received) \/ received[k + 1] # k + 1
  <2>1. Len(received) \in Nat /\ \A i \in 1 .. Len(received) : received[i] = i
    BY WireLengths DEF IntactInv, ReaderInv
  <2>2. \A k \in 0 .. Len(received) : Intact(k) => k = Len(received)
    <3> SUFFICES ASSUME NEW k \in 0 .. Len(received), k # Len(received) PROVE ~Intact(k)
      OBVIOUS
    <3>1. k + 1 \in 1 .. Len(received)
      BY <2>1
    <3>2. QED
      BY <2>1, <3>1
  <2>3. Len(received) \in 0 .. Len(received) /\ Intact(Len(received))
    BY <2>1
  <2> HIDE DEF Intact
  <2>4. (CHOOSE k \in 0 .. Len(received) : Intact(k)) \in 0 .. Len(received)
        /\ Intact(CHOOSE k \in 0 .. Len(received) : Intact(k))
    BY <2>3
  <2>5. (CHOOSE k \in 0 .. Len(received) : Intact(k)) = Len(received)
    BY <2>2, <2>4
  <2>6. QED
    BY <2>1, <2>5 DEF Intact
<1>3. BreaksOnlyIfCut
  BY DEF IntactInv, ReaderInv, BreaksOnlyIfCut
<1>4. QED
  BY <1>1, <1>2, <1>3 DEF WireInv

\* Frames: whatever pieces the socket takes and gives, and whatever interrupts
\* the reader's loop, it decodes the messages in the order they were begun and
\* never gives up the connection, unless an aborted forwarder left a frame
\* unfinished; and it never buffers more than the largest frame.
THEOREM FramesAreReadAsWritten == WireSpec => []WireInv
<1>1. WireInit => WireIInv
  BY WireInitIInv
<1>2. WireIInv /\ [WireNext]_wireVars => WireIInv'
  BY WireStep
<1>3. WireIInv => WireInv
  BY WireIInvImplies
<1>4. QED
  BY <1>1, <1>2, <1>3, PTL DEF WireSpec

-----------------------------------------------------------------------------
(* The least element of a set of naturals.                                  *)

\* A non-empty set of naturals has a least element, and Min is it.
LEMMA MinIsLeast ==
  ASSUME NEW S, S \subseteq Nat, S # {}
  PROVE  Min(S) \in S /\ \A y \in S : Min(S) <= y
<1>1. \E x \in S : \A y \in S : ~ (<<y, x>> \in OpToRel(<, Nat))
  BY NatLessThanWellFounded, WFMin
<1>2. PICK x \in S : \A y \in S : ~ (<<y, x>> \in OpToRel(<, Nat))
  BY <1>1
<1>3. ASSUME NEW y \in S PROVE x <= y
  <2>1. ~ (<<y, x>> \in OpToRel(<, Nat))
    BY <1>2
  <2>2. ~ (y < x)
    BY <2>1 DEF OpToRel
  <2>3. QED
    BY <2>2
<1>4. \E z \in S : \A y \in S : z <= y
  BY <1>3
<1>5. QED
  BY <1>4 DEF Min

-----------------------------------------------------------------------------
(***************************************************************************)
(* CliTerminal: the commands that own the terminal.                         *)
(***************************************************************************)

\* What the flags promise: whatever is still set on the terminal is marked, about to be
\* marked, or being undone by the panic hook, or was left by SIGINT's default action; and nothing
\* is marked once the command ended by itself.
FlagsInv ==
  /\ RAW_MODE_ACTIVE \in BOOLEAN /\ ALT_SCREEN_ACTIVE \in BOOLEAN
  /\ raw \in BOOLEAN /\ alt \in BOOLEAN
  /\ raw => \/ RAW_MODE_ACTIVE \/ hook = "raw" \/ ended = "killed"
            \/ ended = "no" /\ pc \in {"markprompt", "markraw"}
  /\ alt => \/ ALT_SCREEN_ACTIVE \/ hook = "screen" \/ ended = "killed"
            \/ ended = "no" /\ pc \in {"screen", "markscreen"}
  /\ ended \notin {"no", "killed"} => ~RAW_MODE_ACTIVE /\ ~ALT_SCREEN_ACTIVE
  /\ pc = "start" => ~raw /\ ~alt /\ ~RAW_MODE_ACTIVE /\ ~ALT_SCREEN_ACTIVE

Typeable == {"p", "d", "x"}

\* The run of prefixes that ends at r is k long.
RunOf(k, r) ==
  /\ \A j \in (r + 1 - k)..r : typed[j] = "p"
  /\ r > k => typed[r - k] # "p"

\* What is known once r of the bytes typed went through the detach state: `out` is
\* what it let through.
Scanned(r, held, stop, out) ==
  /\ stop <=> \E i \in DetachAt : i <= r
  /\ out = SubSeq(typed, 1, IF stop THEN Min(DetachAt) - 2 ELSE IF held THEN r - 1 ELSE r)
  /\ ~stop => \E k \in 0..r : RunOf(k, r) /\ (held <=> k % 2 = 1)

InputInv ==
  /\ typed \in Seq(Typeable) /\ read \in 0..Len(typed)
  /\ prefix_held \in BOOLEAN /\ detached \in BOOLEAN /\ forwarded \in Seq(Typeable)
  /\ Scanned(read, prefix_held, detached, forwarded)

TerminalIInv ==
  /\ CliTypeOK
  /\ FlagsInv
  /\ InputInv

-----------------------------------------------------------------------------
(* What a fold over a chunk computes.  The induction over its length is a   *)
(* choice of the least length that fails.                                   *)

\* g folds the subsets of 1..n, each from its greatest element down.
FoldsUpTo(g, base, chunk, n) ==
  g = [s \in SUBSET (1..n) |-> IF s = {} THEN base
                               ELSE ConsumeByte(g[s \ {Max(s)}], chunk[Max(s)])]

LEMMA MaxIs ==
  ASSUME NEW s, s \subseteq Nat, NEW m \in s, \A x \in s : x <= m
  PROVE  Max(s) = m
<1>1. \A y \in s : m >= y
  OBVIOUS
<1>2. ASSUME NEW x \in s, \A y \in s : x >= y PROVE x = m
  BY <1>1, <1>2
<1>3. QED
  BY <1>1, <1>2 DEF Max

LEMMA FoldExists ==
  ASSUME NEW base, NEW chunk
  PROVE  \A n \in Nat : \E g : FoldsUpTo(g, base, chunk, n)
<1> DEFINE T == {n \in Nat : ~ \E g : FoldsUpTo(g, base, chunk, n)}
<1>1. SUFFICES ASSUME T # {} PROVE FALSE
  OBVIOUS
<1>2. Min(T) \in T /\ \A y \in T : Min(T) <= y
  BY <1>1, MinIsLeast
<1>3. PICK m \in Nat : m = Min(T)
  BY <1>2
<1>4. m \in T /\ \A y \in T : m <= y
  BY <1>2, <1>3
<1>5. CASE m = 0
  <2> DEFINE g == [s \in SUBSET (1..0) |-> base]
  <2>1. \A s \in SUBSET (1..0) : s = {}
    OBVIOUS
  <2>2. FoldsUpTo(g, base, chunk, 0)
    BY <2>1 DEF FoldsUpTo
  <2>3. QED
    BY <1>4, <1>5, <2>2
<1>6. CASE m # 0
  <2>1. m - 1 \in Nat /\ ~ (m <= m - 1)
    BY <1>6
  <2>2. m - 1 \notin T
    BY <1>4, <2>1
  <2>3. PICK g : FoldsUpTo(g, base, chunk, m - 1)
    BY <2>1, <2>2
  <2> DEFINE h == [s \in SUBSET (1..m) |->
                     IF m \in s THEN ConsumeByte(g[s \ {m}], chunk[m]) ELSE g[s]]
             k == [s \in SUBSET (1..m) |->
                     IF s = {} THEN base ELSE ConsumeByte(h[s \ {Max(s)}], chunk[Max(s)])]
  <2>4. ASSUME NEW s \in SUBSET (1..m), m \in s PROVE h[s] = k[s]
    <3>1. Max(s) = m
      <4>1. s \subseteq Nat /\ \A x \in s : x <= m
        BY <1>3
      <4>2. QED
        BY <2>4, <4>1, MaxIs
    <3>2. s \ {m} \in SUBSET (1..m) /\ m \notin s \ {m}
      OBVIOUS
    <3>3. h[s \ {m}] = g[s \ {m}]
      BY <3>2
    <3>4. h[s] = ConsumeByte(g[s \ {m}], chunk[m])
      BY <2>4
    <3>5. k[s] = ConsumeByte(h[s \ {m}], chunk[m])
      BY <2>4, <3>1
    <3>6. QED
      BY <3>3, <3>4, <3>5
  <2>5. ASSUME NEW s \in SUBSET (1..m), m \notin s PROVE h[s] = k[s]
    <3>1. s \in SUBSET (1..(m - 1))
      BY <1>3, <2>5
    <3>2. g[s] = IF s = {} THEN base ELSE ConsumeByte(g[s \ {Max(s)}], chunk[Max(s)])
      BY <2>3, <3>1 DEF FoldsUpTo
    <3>3. s \ {Max(s)} \in SUBSET (1..m) /\ m \notin s \ {Max(s)}
      BY <2>5
    <3>4. h[s \ {Max(s)}] = g[s \ {Max(s)}]
      BY <3>3
    <3>5. h[s] = g[s]
      BY <2>5
    <3>6. QED
      BY <3>2, <3>4, <3>5
  <2>6. h = k
    BY <2>4, <2>5
  <2>7. FoldsUpTo(h, base, chunk, m)
    BY <2>6 DEF FoldsUpTo
  <2>8. QED
    BY <1>4, <2>7
<1>7. QED
  BY <1>5, <1>6

\* The fold of Consumed, from a detach state of one's own.
Folded(base, chunk) == FoldLeft(ConsumeByte, base, chunk)

\* Folding a chunk goes through a state for each of its bytes.
LEMMA FoldGoesByteByByte ==
  ASSUME NEW base, NEW chunk \in Seq(Typeable)
  PROVE  \E h : /\ h[0] = base /\ h[Len(chunk)] = Folded(base, chunk)
                /\ \A n \in 1..Len(chunk) : h[n] = ConsumeByte(h[n - 1], chunk[n])
<1> DEFINE g == CHOOSE g : FoldsUpTo(g, base, chunk, Len(chunk))
           h == [n \in 0..Len(chunk) |-> g[1..n]]
<1>1. DOMAIN chunk = 1..Len(chunk) /\ Len(chunk) \in Nat
  OBVIOUS
<1>2. FoldLeft(ConsumeByte, base, chunk) =
        (CHOOSE f : f = [s \in SUBSET DOMAIN chunk |->
                          IF s = {} THEN base
                          ELSE ConsumeByte(f[s \ {Max(s)}], chunk[Max(s)])])[DOMAIN chunk]
  BY Zenon DEF FoldLeft, MapThenFoldSet
<1>3. Folded(base, chunk) = g[1..Len(chunk)]
  BY <1>1, <1>2 DEF Folded, FoldsUpTo
<1>4. FoldsUpTo(g, base, chunk, Len(chunk))
  BY <1>1, FoldExists
<1> HIDE DEF g
<1>5. \A s \in SUBSET (1..Len(chunk)) :
        g[s] = IF s = {} THEN base ELSE ConsumeByte(g[s \ {Max(s)}], chunk[Max(s)])
  BY <1>4 DEF FoldsUpTo
<1>6. h[0] = base
  <2>1. 1..0 = {} /\ {} \in SUBSET (1..Len(chunk))
    OBVIOUS
  <2>2. g[1..0] = base
    BY <1>5, <2>1
  <2>3. QED
    BY <1>1, <2>2
<1>7. h[Len(chunk)] = Folded(base, chunk)
  BY <1>1, <1>3
<1>8. ASSUME NEW n \in 1..Len(chunk) PROVE h[n] = ConsumeByte(h[n - 1], chunk[n])
  <2>1. n \in Nat /\ n - 1 \in 0..Len(chunk) /\ n \in 0..Len(chunk)
    BY <1>1
  <2>2. Max(1..n) = n
    <3>1. 1..n \subseteq Nat /\ n \in 1..n /\ \A x \in 1..n : x <= n
      BY <1>1
    <3>2. QED
      BY <3>1, MaxIs
  <2>3. (1..n) \ {n} = 1..(n - 1) /\ 1..n # {} /\ 1..n \in SUBSET (1..Len(chunk))
    <3>1. n \in 1..n /\ n <= Len(chunk)
      BY <1>1
    <3>2. \A x : x \in (1..n) \ {n} <=> x \in 1..(n - 1)
      BY <1>1
    <3>3. \A x \in 1..n : x \in 1..Len(chunk)
      BY <1>1, <3>1
    <3>4. QED
      BY <3>1, <3>2, <3>3
  <2>4. g[1..n] = ConsumeByte(g[1..(n - 1)], chunk[n])
    BY <1>5, <2>2, <2>3
  <2>5. QED
    BY <2>1, <2>4
<1>9. QED
  BY <1>6, <1>7, <1>8

-----------------------------------------------------------------------------
(* The runs of prefixes, and what one byte does to the detach state.        *)

LEMMA OneRun ==
  ASSUME NEW r \in Nat, NEW k \in 0..r, NEW l \in 0..r, RunOf(k, r), RunOf(l, r)
  PROVE  k = l
<1>1. ASSUME NEW m \in 0..r, NEW n \in 0..r, RunOf(m, r), RunOf(n, r), m < n PROVE FALSE
  <2>1. r > m /\ r - m \in (r + 1 - n)..r
    BY <1>1
  <2>2. typed[r - m] # "p"
    BY <1>1, <2>1 DEF RunOf
  <2>3. typed[r - m] = "p"
    BY <1>1, <2>1 DEF RunOf
  <2>4. QED
    BY <2>2, <2>3
<1>2. k \in Int /\ l \in Int
  OBVIOUS
<1>3. ~ (k < l) /\ ~ (l < k)
  BY <1>1
<1>4. QED
  BY <1>2, <1>3

\* A byte after r follows an odd run just if the run that ends at r is odd.
LEMMA OddRunIs ==
  ASSUME NEW r \in Nat, NEW k \in 0..r, RunOf(k, r)
  PROVE  OddRunBefore(r + 1) <=> k % 2 = 1
<1>1. ASSUME NEW l \in 1..r
      PROVE  RunOf(l, r) <=> /\ \A j \in ((r + 1) - l)..((r + 1) - 1) : typed[j] = "p"
                             /\ (r + 1) - l > 1 => typed[((r + 1) - l) - 1] # "p"
  <2>1. /\ (r + 1) - l = r + 1 - l /\ (r + 1) - 1 = r
        /\ ((r + 1) - l) - 1 = r - l /\ ((r + 1) - l > 1 <=> r > l)
    OBVIOUS
  <2>2. QED
    BY <2>1 DEF RunOf
<1>2. (r + 1) - 1 = r
  OBVIOUS
<1>3. OddRunBefore(r + 1) <=> \E l \in 1..r : l % 2 = 1 /\ RunOf(l, r)
  BY <1>1, <1>2 DEF OddRunBefore
<1>4. \A l \in 1..r : l \in 0..r
  OBVIOUS
<1>5. (\E l \in 1..r : l % 2 = 1 /\ RunOf(l, r)) => k % 2 = 1
  BY <1>4, OneRun
<1>6. k % 2 = 1 => k \in 1..r
  <2>1. 0 % 2 = 0
    OBVIOUS
  <2>2. k # 0 => k \in 1..r
    OBVIOUS
  <2>3. QED
    BY <2>1, <2>2
<1>7. QED
  BY <1>3, <1>5, <1>6

\* What a run becomes with one more byte.
LEMMA RunGoesOn ==
  ASSUME NEW r \in Nat, NEW k \in 0..r, RunOf(k, r)
  PROVE  /\ typed[r + 1] = "p" => RunOf(k + 1, r + 1)
         /\ typed[r + 1] # "p" => RunOf(0, r + 1)
<1>1. ASSUME typed[r + 1] = "p" PROVE RunOf(k + 1, r + 1)
  <2>1. /\ (r + 1) + 1 - (k + 1) = r + 1 - k /\ (r + 1) - (k + 1) = r - k
        /\ (r + 1 > k + 1 <=> r > k)
    OBVIOUS
  <2>2. ASSUME NEW j \in (r + 1 - k)..(r + 1) PROVE typed[j] = "p"
    <3>1. j = r + 1 \/ j \in (r + 1 - k)..r
      OBVIOUS
    <3>2. QED
      BY <1>1, <3>1 DEF RunOf
  <2>3. r > k => typed[r - k] # "p"
    BY DEF RunOf
  <2>4. QED
    BY <2>1, <2>2, <2>3 DEF RunOf
<1>2. ASSUME typed[r + 1] # "p" PROVE RunOf(0, r + 1)
  <2>1. /\ (r + 1) + 1 - 0 = r + 2 /\ (r + 1) - 0 = r + 1
        /\ \A j \in (r + 2)..(r + 1) : FALSE
    OBVIOUS
  <2>2. QED
    BY <1>2, <2>1 DEF RunOf
<1>3. QED
  BY <1>1, <1>2

DetachRecord == [held : BOOLEAN, bytes : Seq(Typeable), detach : BOOLEAN]

\* A prefix of what was typed grows by the next one or two bytes.
LEMMA PrefixGrows ==
  ASSUME NEW s \in Seq(Typeable), NEW n \in 0..(Len(s) - 1)
  PROVE  /\ SubSeq(s, 1, n) \in Seq(Typeable) /\ SubSeq(s, 1, n + 1) \in Seq(Typeable)
         /\ SubSeq(s, 1, n) \o <<s[n + 1]>> = SubSeq(s, 1, n + 1)
<1>1. n \in Nat /\ n + 1 <= Len(s) /\ Len(s) \in Nat /\ s[n + 1] \in Typeable
  OBVIOUS
<1>2. /\ SubSeq(s, 1, n) \in Seq(Typeable) /\ Len(SubSeq(s, 1, n)) = n
      /\ \A i \in 1..n : SubSeq(s, 1, n)[i] = s[i]
  BY <1>1
<1>3. /\ SubSeq(s, 1, n + 1) \in Seq(Typeable) /\ Len(SubSeq(s, 1, n + 1)) = n + 1
      /\ \A i \in 1..(n + 1) : SubSeq(s, 1, n + 1)[i] = s[i]
  BY <1>1
<1>4. <<s[n + 1]>> \in Seq(Typeable) /\ Len(<<s[n + 1]>>) = 1 /\ <<s[n + 1]>>[1] = s[n + 1]
  BY <1>1
<1> DEFINE t == <<s[n + 1]>>
           u == SubSeq(s, 1, n)
           v == SubSeq(s, 1, n + 1)
<1>5. /\ u \in Seq(Typeable) /\ Len(u) = n /\ \A i \in 1..n : u[i] = s[i]
      /\ v \in Seq(Typeable) /\ Len(v) = n + 1 /\ \A i \in 1..(n + 1) : v[i] = s[i]
      /\ t \in Seq(Typeable) /\ Len(t) = 1 /\ t[1] = s[n + 1]
  BY <1>2, <1>3, <1>4
<1> HIDE DEF t, u, v
<1>6. /\ u \o t \in Seq(Typeable) /\ Len(u \o t) = n + 1
      /\ \A i \in 1..(n + 1) : (u \o t)[i] = IF i <= n THEN u[i] ELSE t[i - n]
  <2>1. ASSUME NEW p \in Seq(Typeable), NEW q \in Seq(Typeable)
        PROVE  /\ p \o q \in Seq(Typeable) /\ Len(p \o q) = Len(p) + Len(q)
               /\ \A i \in 1..(Len(p) + Len(q)) :
                     (p \o q)[i] = IF i <= Len(p) THEN p[i] ELSE q[i - Len(p)]
    OBVIOUS
  <2>2. /\ u \o t \in Seq(Typeable) /\ Len(u \o t) = Len(u) + Len(t)
        /\ \A i \in 1..(Len(u) + Len(t)) :
              (u \o t)[i] = IF i <= Len(u) THEN u[i] ELSE t[i - Len(u)]
    BY <1>5, <2>1
  <2>3. Len(u) = n /\ Len(t) = 1
    BY <1>5
  <2>4. QED
    BY <2>2, <2>3
<1>7. ASSUME NEW i \in 1..(n + 1) PROVE (u \o t)[i] = v[i]
  <2>1. CASE i <= n
    <3>1. i \in 1..n
      BY <1>1, <2>1
    <3>2. (u \o t)[i] = u[i]
      BY <1>6, <2>1
    <3>3. QED
      BY <1>5, <3>1, <3>2
  <2>2. CASE i = n + 1
    <3>1. i - n = 1 /\ ~ (i <= n)
      BY <1>1, <2>2
    <3>2. QED
      BY <1>5, <1>6, <2>2, <3>1
  <2>3. i <= n \/ i = n + 1
    BY <1>1
  <2>4. QED
    BY <2>1, <2>2, <2>3
<1>8. u \o t = v
  BY <1>5, <1>6, <1>7
<1>9. QED
  BY <1>2, <1>3, <1>8 DEF t, u, v

\* Appending to what a chunk lets through is appending to what went to the session.
LEMMA ThenAppended ==
  ASSUME NEW f \in Seq(Typeable), NEW s \in Seq(Typeable), NEW t \in Seq(Typeable)
  PROVE  f \o (s \o t) = (f \o s) \o t /\ f \o s \in Seq(Typeable)
OBVIOUS

\* One byte more, and what is known of all of them stays true.
LEMMA OneByteMore ==
  ASSUME typed \in Seq(Typeable), NEW r \in 0..(Len(typed) - 1), NEW a \in DetachRecord,
         NEW f \in Seq(Typeable), Scanned(r, a.held, a.detach, f \o a.bytes),
         NEW b, b = ConsumeByte(a, typed[r + 1])
  PROVE  b \in DetachRecord /\ Scanned(r + 1, b.held, b.detach, f \o b.bytes)
<1>1. /\ r \in Nat /\ Len(typed) \in Nat /\ r + 1 \in 1..Len(typed) /\ typed[r + 1] \in Typeable
      /\ a.held \in BOOLEAN /\ a.bytes \in Seq(Typeable) /\ a.detach \in BOOLEAN
  BY DEF DetachRecord
<1>2. DetachAt \subseteq Nat /\ \A i \in DetachAt : i \in Nat
  BY DEF DetachAt
<1>3. CASE a.detach
  <2>1. b = a
    BY <1>3 DEF ConsumeByte
  <2>2. PICK i \in DetachAt : i <= r
    BY <1>3 DEF Scanned
  <2>3. i <= r + 1
    BY <1>1, <1>2, <2>2
  <2>4. QED
    BY <1>3, <2>1, <2>2, <2>3 DEF Scanned
<1>4. CASE ~a.detach
  <2>1. PICK k \in 0..r : RunOf(k, r) /\ (a.held <=> k % 2 = 1)
    BY <1>4 DEF Scanned
  <2>2. OddRunBefore(r + 1) <=> a.held
    BY <1>1, <2>1, OddRunIs
  <2>3. r + 1 \in DetachAt <=> typed[r + 1] = "d" /\ a.held
    BY <1>1, <2>2 DEF DetachAt
  <2>4. \A i \in DetachAt : ~ (i <= r)
    BY <1>4 DEF Scanned
  <2>5. ASSUME r + 1 \notin DetachAt PROVE ~ \E i \in DetachAt : i <= r + 1
    <3>1. ASSUME NEW i \in DetachAt, i <= r + 1 PROVE FALSE
      <4>1. i \in Nat /\ ~ (i <= r) /\ i # r + 1
        BY <1>2, <2>4, <2>5
      <4>2. QED
        BY <1>1, <3>1, <4>1
    <3>2. QED
      BY <3>1
  <2>6. f \o a.bytes = SubSeq(typed, 1, IF a.held THEN r - 1 ELSE r)
    BY <1>4 DEF Scanned
  <2>7. k + 1 \in 0..(r + 1) /\ 0 \in 0..(r + 1) /\ ((k + 1) % 2 = 1 <=> ~ (k % 2 = 1))
        /\ ~ (0 % 2 = 1) /\ k \in Nat
    BY <1>1
  <2>8. CASE a.held /\ typed[r + 1] = "d"
    <3>1. b = [a EXCEPT !.held = FALSE, !.detach = TRUE]
      BY <1>4, <2>8 DEF ConsumeByte
    <3>2. b \in DetachRecord /\ b.detach /\ b.bytes = a.bytes
      BY <3>1 DEF DetachRecord
    <3>3. r + 1 \in DetachAt
      BY <2>3, <2>8
    <3>4. Min(DetachAt) = r + 1
      <4>1. Min(DetachAt) \in DetachAt /\ Min(DetachAt) <= r + 1
        BY <1>2, <3>3, MinIsLeast
      <4>2. Min(DetachAt) \in Nat /\ ~ (Min(DetachAt) <= r)
        BY <1>2, <2>4, <4>1
      <4>3. QED
        BY <1>1, <4>1, <4>2
    <3>5. Min(DetachAt) - 2 = r - 1 /\ r + 1 <= r + 1
      BY <1>1, <3>4
    <3>6. f \o b.bytes = SubSeq(typed, 1, Min(DetachAt) - 2)
      BY <2>6, <2>8, <3>2, <3>5
    <3>7. QED
      BY <3>2, <3>3, <3>5, <3>6 DEF Scanned
  <2>9. CASE a.held /\ typed[r + 1] # "d"
    <3>1. b = [a EXCEPT !.held = FALSE, !.bytes = a.bytes \o <<"p", typed[r + 1]>>]
      BY <1>4, <2>9 DEF ConsumeByte
    <3>2. <<"p", typed[r + 1]>> \in Seq(Typeable)
      BY <1>1 DEF Typeable
    <3>3. a.bytes \o <<"p", typed[r + 1]>> \in Seq(Typeable)
      BY <1>1, <3>2
    <3>4. /\ b \in DetachRecord /\ ~b.detach /\ ~b.held
          /\ b.bytes = a.bytes \o <<"p", typed[r + 1]>>
      BY <1>4, <3>1, <3>3 DEF DetachRecord
    <3>5. k # 0 /\ typed[r] = "p" /\ r - 1 \in 0..(Len(typed) - 1) /\ r - 1 \in Nat
      <4>1. k # 0
        BY <2>1, <2>7, <2>9
      <4>2. r \in (r + 1 - k)..r /\ r - 1 \in 0..(Len(typed) - 1)
        BY <1>1, <4>1
      <4>3. QED
        BY <2>1, <4>1, <4>2 DEF RunOf
    <3>6. /\ SubSeq(typed, 1, r - 1) \o <<typed[r]>> = SubSeq(typed, 1, r)
          /\ SubSeq(typed, 1, r) \o <<typed[r + 1]>> = SubSeq(typed, 1, r + 1)
          /\ SubSeq(typed, 1, r - 1) \in Seq(Typeable)
      <4>1. (r - 1) + 1 = r
        BY <1>1
      <4>2. /\ SubSeq(typed, 1, r - 1) \o <<typed[(r - 1) + 1]>> = SubSeq(typed, 1, (r - 1) + 1)
            /\ SubSeq(typed, 1, r - 1) \in Seq(Typeable)
        BY <3>5, PrefixGrows
      <4>3. SubSeq(typed, 1, r) \o <<typed[r + 1]>> = SubSeq(typed, 1, r + 1)
        BY PrefixGrows
      <4>4. QED
        BY <4>1, <4>2, <4>3
    <3>7. /\ <<"p">> \in Seq(Typeable) /\ <<typed[r + 1]>> \in Seq(Typeable)
          /\ <<"p", typed[r + 1]>> = <<"p">> \o <<typed[r + 1]>>
      BY <1>1 DEF Typeable
    <3>8. f \o b.bytes = (SubSeq(typed, 1, r - 1) \o <<"p">>) \o <<typed[r + 1]>>
      <4>1. f \o (a.bytes \o (<<"p">> \o <<typed[r + 1]>>))
              = (f \o a.bytes) \o (<<"p">> \o <<typed[r + 1]>>)
        <5>1. <<"p">> \o <<typed[r + 1]>> \in Seq(Typeable)
          BY <3>7
        <5>2. QED
          BY <1>1, <5>1, ThenAppended
      <4>2. (f \o a.bytes) \o (<<"p">> \o <<typed[r + 1]>>)
              = ((f \o a.bytes) \o <<"p">>) \o <<typed[r + 1]>>
        <5>1. f \o a.bytes \in Seq(Typeable)
          BY <1>1, <3>7, ThenAppended
        <5>2. <<"p">> \in Seq(Typeable) /\ <<typed[r + 1]>> \in Seq(Typeable)
          BY <3>7
        <5>3. QED
          BY <5>1, <5>2, ThenAppended
      <4>3. QED
        BY <2>6, <2>9, <3>4, <3>7, <4>1, <4>2
    <3>9. f \o b.bytes = SubSeq(typed, 1, r + 1)
      BY <3>5, <3>6, <3>8
    <3>10. \E l \in 0..(r + 1) : RunOf(l, r + 1) /\ ~ (l % 2 = 1)
      BY <1>1, <2>1, <2>7, <2>9, RunGoesOn
    <3>11. QED
      BY <2>3, <2>5, <2>9, <3>4, <3>9, <3>10 DEF Scanned
  <2>10. CASE ~a.held /\ typed[r + 1] = "p"
    <3>1. b = [a EXCEPT !.held = TRUE]
      BY <1>4, <2>10 DEF ConsumeByte
    <3>2. b \in DetachRecord /\ ~b.detach /\ b.held /\ b.bytes = a.bytes
      BY <1>4, <3>1 DEF DetachRecord
    <3>3. \E l \in 0..(r + 1) : RunOf(l, r + 1) /\ l % 2 = 1
      BY <1>1, <2>1, <2>7, <2>10, RunGoesOn
    <3>4. f \o b.bytes = SubSeq(typed, 1, (r + 1) - 1)
      <4>1. (r + 1) - 1 = r
        BY <1>1
      <4>2. QED
        BY <2>6, <2>10, <3>2, <4>1
    <3>5. QED
      BY <2>3, <2>5, <2>10, <3>2, <3>3, <3>4 DEF Scanned
  <2>11. CASE ~a.held /\ typed[r + 1] # "p"
    <3>1. b = [a EXCEPT !.bytes = Append(a.bytes, typed[r + 1])]
      BY <1>4, <2>11 DEF ConsumeByte
    <3>2. /\ Append(a.bytes, typed[r + 1]) = a.bytes \o <<typed[r + 1]>>
          /\ Append(a.bytes, typed[r + 1]) \in Seq(Typeable)
          /\ <<typed[r + 1]>> \in Seq(Typeable)
      BY <1>1
    <3>3. /\ b \in DetachRecord /\ ~b.detach /\ ~b.held
          /\ b.bytes = a.bytes \o <<typed[r + 1]>>
      BY <1>4, <2>11, <3>1, <3>2 DEF DetachRecord
    <3>4. f \o b.bytes = (f \o a.bytes) \o <<typed[r + 1]>>
      <4>1. f \o (a.bytes \o <<typed[r + 1]>>) = (f \o a.bytes) \o <<typed[r + 1]>>
        BY <1>1, <3>2, ThenAppended
      <4>2. QED
        BY <3>3, <4>1
    <3>5. f \o b.bytes = SubSeq(typed, 1, r + 1)
      BY <2>6, <2>11, <3>4, PrefixGrows
    <3>6. \E l \in 0..(r + 1) : RunOf(l, r + 1) /\ ~ (l % 2 = 1)
      BY <1>1, <2>1, <2>7, <2>11, RunGoesOn
    <3>7. QED
      BY <2>3, <2>5, <2>11, <3>3, <3>5, <3>6 DEF Scanned
  <2>12. QED
    BY <1>1, <2>8, <2>9, <2>10, <2>11
<1>5. QED
  BY <1>1, <1>3, <1>4

\* A chunk goes through byte by byte, and what is known stays true to its end.
LEMMA ChunkScanned ==
  ASSUME typed \in Seq(Typeable), NEW r \in 0..Len(typed), NEW upTo \in (r + 1)..Len(typed),
         NEW base \in DetachRecord, NEW f \in Seq(Typeable),
         Scanned(r, base.held, base.detach, f \o base.bytes),
         NEW a, a = Folded(base, SubSeq(typed, r + 1, upTo))
  PROVE  a \in DetachRecord /\ Scanned(upTo, a.held, a.detach, f \o a.bytes)
<1> DEFINE chunk == SubSeq(typed, r + 1, upTo)
<1>1. /\ r \in Nat /\ upTo \in Nat /\ upTo - r \in Nat /\ Len(typed) \in Nat
      /\ upTo <= Len(typed) /\ r + (upTo - r) = upTo
  OBVIOUS
<1>2. /\ chunk \in Seq(Typeable) /\ Len(chunk) = upTo - r
      /\ \A n \in 1..(upTo - r) : chunk[n] = typed[r + n]
  <2>1. ASSUME NEW s \in Seq(Typeable), NEW m \in 1..Len(s), NEW n \in m..Len(s)
        PROVE  /\ SubSeq(s, m, n) \in Seq(Typeable) /\ Len(SubSeq(s, m, n)) = n + 1 - m
               /\ \A i \in 1..(n + 1 - m) : SubSeq(s, m, n)[i] = s[m + i - 1]
    OBVIOUS
  <2>2. r + 1 \in 1..Len(typed) /\ upTo \in (r + 1)..Len(typed)
    BY <1>1
  <2>3. /\ chunk \in Seq(Typeable) /\ Len(chunk) = upTo + 1 - (r + 1)
        /\ \A i \in 1..(upTo + 1 - (r + 1)) : chunk[i] = typed[(r + 1) + i - 1]
    BY <2>1, <2>2
  <2>4. upTo + 1 - (r + 1) = upTo - r /\ \A i \in 1..(upTo - r) : (r + 1) + i - 1 = r + i
    BY <1>1
  <2>5. QED
    BY <2>3, <2>4
<1> HIDE DEF chunk
<1>3. PICK h : /\ h[0] = base /\ h[Len(chunk)] = Folded(base, chunk)
               /\ \A n \in 1..Len(chunk) : h[n] = ConsumeByte(h[n - 1], chunk[n])
  <2>1. chunk \in Seq(Typeable)
    BY <1>2
  <2>2. QED
    BY <2>1, FoldGoesByteByByte
<1> DEFINE Known(n) ==
      h[n] \in DetachRecord /\ Scanned(r + n, h[n].held, h[n].detach, f \o h[n].bytes)
<1>4. Known(0)
  <2>1. r + 0 = r
    BY <1>1
  <2>2. QED
    BY <1>3, <2>1
<1>5. ASSUME NEW n \in 0..((upTo - r) - 1), Known(n) PROVE Known(n + 1)
  <2>1. /\ n + 1 \in 1..(upTo - r) /\ (n + 1) - 1 = n /\ r + n \in 0..(Len(typed) - 1)
        /\ r + (n + 1) = (r + n) + 1
    BY <1>1
  <2>2. h[n + 1] = ConsumeByte(h[n], typed[(r + n) + 1])
    <3>1. h[n + 1] = ConsumeByte(h[(n + 1) - 1], chunk[n + 1])
      BY <1>2, <1>3, <2>1
    <3>2. chunk[n + 1] = typed[r + (n + 1)]
      BY <1>2, <2>1
    <3>3. QED
      BY <2>1, <3>1, <3>2
  <2>3. h[n] \in DetachRecord /\ Scanned(r + n, h[n].held, h[n].detach, f \o h[n].bytes)
    BY <1>5
  <2>4. /\ h[n + 1] \in DetachRecord
        /\ Scanned((r + n) + 1, h[n + 1].held, h[n + 1].detach, f \o h[n + 1].bytes)
    BY <2>1, <2>2, <2>3, OneByteMore
  <2>5. QED
    BY <2>1, <2>4
<1> HIDE DEF Known
<1>6. \A n \in 0..(upTo - r) : Known(n)
  <2> DEFINE T == {n \in 0..(upTo - r) : ~Known(n)}
  <2>1. SUFFICES ASSUME T # {} PROVE FALSE
    OBVIOUS
  <2>2. T \subseteq Nat
    OBVIOUS
  <2>3. Min(T) \in T /\ \A y \in T : Min(T) <= y
    BY <2>1, <2>2, MinIsLeast
  <2>4. PICK m \in 0..(upTo - r) : m = Min(T)
    BY <2>3
  <2>5. ~Known(m) /\ \A y \in T : m <= y
    BY <2>3, <2>4
  <2>6. m # 0
    BY <1>4, <2>5
  <2>7. m - 1 \in 0..((upTo - r) - 1) /\ m - 1 \in 0..(upTo - r) /\ ~ (m <= m - 1)
        /\ (m - 1) + 1 = m
    BY <1>1, <2>6
  <2>8. Known(m - 1)
    BY <2>5, <2>7
  <2>9. Known((m - 1) + 1)
    BY <1>5, <2>7, <2>8
  <2>10. QED
    BY <2>5, <2>7, <2>9
<1>7. Known(upTo - r)
  BY <1>1, <1>6
<1>8. h[upTo - r] = a
  BY <1>2, <1>3 DEF chunk
<1>9. QED
  BY <1>1, <1>7, <1>8 DEF Known

LEMMA InputStays ==
  ASSUME InputInv, Consume \/ UNCHANGED inputVars
  PROVE  InputInv'
<1>1. CASE UNCHANGED inputVars
  BY <1>1 DEF inputVars, InputInv, Scanned, DetachAt, OddRunBefore, RunOf
<1>2. CASE Consume
  <2>1. PICK upTo \in (read + 1)..Len(typed) :
          LET action == Consumed(SubSeq(typed, read + 1, upTo)) IN
          /\ read' = upTo
          /\ prefix_held' = action.held /\ detached' = action.detach
          /\ forwarded' = forwarded \o action.bytes
    BY <1>2 DEF Consume
  <2> DEFINE base == [held |-> prefix_held, bytes |-> <<>>, detach |-> FALSE]
             a == Consumed(SubSeq(typed, read + 1, upTo))
  <2>2. /\ read' = upTo /\ prefix_held' = a.held /\ detached' = a.detach
        /\ forwarded' = forwarded \o a.bytes /\ typed' = typed /\ ~detached
    BY <1>2, <2>1 DEF Consume
  <2>3. /\ typed \in Seq(Typeable) /\ read \in 0..Len(typed) /\ prefix_held \in BOOLEAN
        /\ forwarded \in Seq(Typeable) /\ Scanned(read, prefix_held, detached, forwarded)
    BY DEF InputInv
  <2>4. <<>> \in Seq(Typeable) /\ forwarded \o <<>> = forwarded
    BY <2>3
  <2>5. /\ base \in DetachRecord /\ base.held = prefix_held /\ base.detach = FALSE
        /\ base.bytes = <<>>
    BY <2>3, <2>4 DEF DetachRecord
  <2>6. a = Folded(base, SubSeq(typed, read + 1, upTo))
    BY DEF Consumed, Folded
  <2> HIDE DEF base, a
  <2>7. Scanned(read, base.held, base.detach, forwarded \o base.bytes)
    BY <2>2, <2>3, <2>4, <2>5 DEF Scanned
  <2>8. a \in DetachRecord /\ Scanned(upTo, a.held, a.detach, forwarded \o a.bytes)
    BY <2>3, <2>5, <2>6, <2>7, ChunkScanned
  <2>9. /\ a.held \in BOOLEAN /\ a.detach \in BOOLEAN /\ a.bytes \in Seq(Typeable)
        /\ forwarded \o a.bytes \in Seq(Typeable)
    BY <2>3, <2>8 DEF DetachRecord
  <2>10. upTo \in 0..Len(typed)
    BY <2>3
  <2>11. Scanned(read, prefix_held, detached, forwarded)'
    BY <2>2, <2>8 DEF Scanned, DetachAt, OddRunBefore, RunOf
  <2>12. QED
    BY <2>2, <2>3, <2>9, <2>10, <2>11 DEF InputInv
<1>3. QED
  BY <1>1, <1>2

\* A command that ends leaves nothing marked, whatever the panic hook is at.
LEMMA FlagsAtTheEnd ==
  ASSUME CliTypeOK, FlagsInv, ended = "no",
         pc \notin {"markprompt", "markraw", "screen", "markscreen"},
         NEW how \in {"ok", "error", "exit", "signal"}, EndCommand(how),
         request' = "approved" => key = "y", request' \in {"none", "asked", "approved", "denied"}
  PROVE  FlagsInv' /\ CliTypeOK'
<1>1. /\ UNCHANGED <<cmd, pc, hook, signal, polled, key, ahead>> /\ ended' = how
      /\ raw' = (raw /\ ~RAW_MODE_ACTIVE) /\ RAW_MODE_ACTIVE' = FALSE
      /\ alt' = (alt /\ ~ALT_SCREEN_ACTIVE) /\ ALT_SCREEN_ACTIVE' = FALSE
  BY DEF EndCommand, RestoreAll
<1>2. /\ raw' \in BOOLEAN /\ alt' \in BOOLEAN /\ RAW_MODE_ACTIVE' \in BOOLEAN
      /\ ALT_SCREEN_ACTIVE' \in BOOLEAN /\ ~RAW_MODE_ACTIVE' /\ ~ALT_SCREEN_ACTIVE'
  BY <1>1
<1>3. (raw' => raw /\ ~RAW_MODE_ACTIVE) /\ (alt' => alt /\ ~ALT_SCREEN_ACTIVE)
  BY <1>1 DEF FlagsInv
<1>4. (raw' => hook' = "raw") /\ (alt' => hook' = "screen")
  BY <1>1, <1>3 DEF FlagsInv
<1>5. pc' = "start" => ~raw' /\ ~alt'
  BY <1>1, <1>3 DEF FlagsInv
<1>6. FlagsInv'
  BY <1>2, <1>4, <1>5 DEF FlagsInv
<1>7. CliTypeOK'
  BY <1>1 DEF CliTypeOK
<1>8. QED
  BY <1>6, <1>7

LEMMA FlagsStay ==
  ASSUME CliTypeOK, FlagsInv, TermStep
  PROVE  FlagsInv' /\ CliTypeOK'
<1> USE DEF CliTypeOK, FlagsInv
<1>1. CASE ShowTicket
  <2>1. At("pair", "start") /\ request' = request
    BY <1>1 DEF ShowTicket
  <2>2. CASE EnterAlt("screen") /\ UNCHANGED <<ended, hook, signal, polled, key, ahead, cmd>>
    BY <2>1, <2>2 DEF At, EnterAlt
  <2>3. CASE /\ pc' = "waiting"
             /\ UNCHANGED <<raw, alt, RAW_MODE_ACTIVE, ALT_SCREEN_ACTIVE,
                            ended, hook, signal, polled, key, ahead, cmd>>
    BY <2>1, <2>3 DEF At
  <2>4. CASE EndCommand("error")
    BY <2>1, <2>4, FlagsAtTheEnd DEF At
  <2>5. QED
    BY <1>1, <2>2, <2>3, <2>4 DEF ShowTicket
<1>2. CASE ScreenMarked
  BY <1>2 DEF ScreenMarked, At
<1>3. CASE PromptRaw
  <2>1. At("pair", "prompt") /\ request' = request
    BY <1>3 DEF PromptRaw
  <2>2. CASE EnterRaw("markprompt") /\ UNCHANGED <<cmd, hook, signal, polled, ended, key, ahead>>
    BY <2>1, <2>2 DEF At, EnterRaw
  <2>3. CASE /\ pc' = "key"
             /\ UNCHANGED <<raw, alt, RAW_MODE_ACTIVE, ALT_SCREEN_ACTIVE, cmd,
                            hook, signal, polled, ended, key, ahead>>
    BY <2>1, <2>3 DEF At
  <2>4. CASE EndCommand("error")
    BY <2>1, <2>4, FlagsAtTheEnd DEF At
  <2>5. QED
    BY <1>3, <2>2, <2>3, <2>4 DEF PromptRaw
<1>4. CASE PromptMarked
  BY <1>4 DEF PromptMarked, At
<1>5. CASE AnswerPrompt
  BY <1>5 DEF AnswerPrompt, At, Approves, EndCommand, RestoreAll
<1>6. CASE AttachRaw
  <2>1. At("attach", "start") /\ request' = request
    BY <1>6 DEF AttachRaw
  <2>2. CASE EnterRaw("markraw") /\ UNCHANGED <<cmd, hook, signal, polled, ended, key, ahead>>
    BY <2>1, <2>2 DEF At, EnterRaw
  <2>3. CASE EndCommand("error")
    BY <2>1, <2>3, FlagsAtTheEnd DEF At
  <2>4. QED
    BY <1>6, <2>2, <2>3 DEF AttachRaw
<1>7. CASE RawMarked
  <2>1. /\ pc = "markraw" /\ ended = "no" /\ RAW_MODE_ACTIVE' = TRUE
        /\ UNCHANGED <<raw, ALT_SCREEN_ACTIVE, hook, ended, key, request>>
    BY <1>7 DEF RawMarked, At
  <2>2. CASE alt' = TRUE /\ pc' = "markscreen"
    BY <2>1, <2>2
  <2>3. CASE pc' = "attached" /\ UNCHANGED alt
    BY <2>1, <2>3
  <2>4. QED
    BY <1>7, <2>2, <2>3 DEF RawMarked
<1>8. CASE AttachScreenMarked
  BY <1>8 DEF AttachScreenMarked, At
<1>9. CASE SignalReceived
  BY <1>9 DEF SignalReceived, PollsSignals, EndCommand, RestoreAll
<1>10. CASE ApprovalRequested
  BY <1>10 DEF ApprovalRequested, At
<1>11. CASE PairingEnds
  BY <1>11 DEF PairingEnds, At, EndCommand, RestoreAll
<1>12. CASE AttachEnds
  BY <1>12 DEF AttachEnds, At, EndCommand, RestoreAll
<1>13. ASSUME NEW k \in {"term", "int"}, SignalArrives(k) PROVE FlagsInv' /\ CliTypeOK'
  BY <1>13 DEF SignalArrives, Registered
<1>14. CASE HookRaw
  BY <1>14 DEF HookRaw
<1>15. CASE HookStep
  <2>1. UNCHANGED <<pc, RAW_MODE_ACTIVE, ended, key, request>>
    BY <1>15 DEF HookStep
  <2>2. CASE hook = "raw" /\ raw' = FALSE /\ hook' = "alt" /\ UNCHANGED <<alt, ALT_SCREEN_ACTIVE>>
    BY <2>1, <2>2
  <2>3. CASE /\ hook = "alt" /\ hook' = IF ALT_SCREEN_ACTIVE THEN "screen" ELSE "done"
             /\ ALT_SCREEN_ACTIVE' = FALSE /\ UNCHANGED <<raw, alt>>
    BY <2>1, <2>3
  <2>4. CASE /\ hook = "screen" /\ alt' = FALSE /\ hook' = "done"
             /\ UNCHANGED <<raw, ALT_SCREEN_ACTIVE>>
    BY <2>1, <2>4
  <2>5. QED
    BY <1>15, <2>2, <2>3, <2>4 DEF HookStep
<1>16. ASSUME NEW k \in {"y", "other", "eof"}, TypeKey(k) PROVE FlagsInv' /\ CliTypeOK'
  BY <1>16 DEF TypeKey
<1>17. CASE PollCtrlC
  BY <1>17 DEF PollCtrlC
<1>18. QED
  BY <1>1, <1>2, <1>3, <1>4, <1>5, <1>6, <1>7, <1>8, <1>9, <1>10, <1>11, <1>12, <1>13,
     <1>14, <1>15, <1>16, <1>17 DEF TermStep, CommandStep

LEMMA TerminalStarts == TerminalInit => TerminalIInv
<1> SUFFICES ASSUME TerminalInit PROVE TerminalIInv
  OBVIOUS
<1>1. CliTypeOK /\ FlagsInv
  BY DEF TerminalInit, TermInit, CliTypeOK, FlagsInv
<1>2. /\ read = 0 /\ prefix_held = FALSE /\ forwarded = <<>> /\ detached = FALSE
      /\ typed \in SeqOf(Typeable, MaxTyped)
  BY DEF TerminalInit, InputInit, Typeable
<1>3. typed \in Seq(Typeable)
  <2>1. PICK m \in 0..MaxTyped : typed \in [1..m -> Typeable]
    BY <1>2 DEF SeqOf
  <2>2. m \in Nat
    BY TerminalAssumption
  <2>3. QED
    BY <2>1, <2>2
<1>4. Len(typed) \in Nat /\ <<>> \in Seq(Typeable) /\ SubSeq(typed, 1, 0) = <<>>
  BY <1>3
<1>5. RunOf(0, 0)
  <2>1. /\ 0 + 1 - 0 = 1 /\ ~ (0 > 0) /\ \A j \in 1..0 : FALSE
    OBVIOUS
  <2>2. QED
    BY <2>1 DEF RunOf
<1>6. ~ \E i \in DetachAt : i <= 0
  BY <1>4 DEF DetachAt
<1>7. 0 % 2 = 0 /\ 0 \in 0..0
  OBVIOUS
<1>8. Scanned(0, FALSE, FALSE, <<>>)
  BY <1>4, <1>5, <1>6, <1>7 DEF Scanned
<1>9. InputInv
  <2>1. Scanned(read, prefix_held, detached, forwarded)
    BY <1>2, <1>8
  <2>2. QED
    <3>1. read \in 0..Len(typed) /\ prefix_held \in BOOLEAN /\ detached \in BOOLEAN
      <4>1. 0 \in 0..Len(typed)
        BY <1>4
      <4>2. FALSE \in BOOLEAN
        OBVIOUS
      <4>3. QED
        BY <1>2, <4>1, <4>2
    <3>2. forwarded \in Seq(Typeable)
      BY <1>2, <1>4
    <3>3. QED
      BY <1>3, <2>1, <3>1, <3>2 DEF InputInv
<1>10. QED
  BY <1>1, <1>9 DEF TerminalIInv

LEMMA TerminalStepKeeps ==
  TerminalIInv /\ [TerminalNext]_terminalVars => TerminalIInv'
<1> SUFFICES ASSUME TerminalIInv, [TerminalNext]_terminalVars PROVE TerminalIInv'
  OBVIOUS
<1>1. CliTypeOK /\ FlagsInv /\ InputInv
  BY DEF TerminalIInv
<1>2. CASE TermStep
  <2>1. UNCHANGED inputVars
    BY <1>2 DEF TermStep, CommandStep, ShowTicket, ScreenMarked, PromptRaw, PromptMarked,
                AnswerPrompt, AttachRaw, RawMarked, AttachScreenMarked, SignalReceived,
                ApprovalRequested, PairingEnds, AttachEnds, SignalArrives, PollCtrlC, HookRaw, HookStep,
                TypeKey
  <2>2. QED
    BY <1>1, <1>2, <2>1, FlagsStay, InputStays DEF TerminalIInv
<1>3. ASSUME UNCHANGED termVars PROVE FlagsInv' /\ CliTypeOK'
  BY <1>1, <1>3 DEF termVars, FlagsInv, CliTypeOK
<1>4. CASE Consume
  BY <1>1, <1>3, <1>4, InputStays DEF TerminalIInv, Consume
<1>5. CASE UNCHANGED terminalVars
  BY <1>1, <1>3, <1>5, InputStays DEF TerminalIInv, terminalVars
<1>6. QED
  BY <1>2, <1>4, <1>5 DEF TerminalNext

LEMMA TerminalFollows == TerminalIInv => TerminalInv
<1> SUFFICES ASSUME TerminalIInv PROVE TerminalInv
  OBVIOUS
<1>1. CliTypeOK /\ FlagsInv /\ InputInv
  BY DEF TerminalIInv
<1>2. TerminalRestored
  BY <1>1 DEF FlagsInv, TerminalRestored
<1>3. InputIsFaithful
  BY <1>1 DEF InputInv, Scanned, InputIsFaithful
<1>4. QED
  BY <1>1, <1>2, <1>3 DEF TerminalInv

\* TerminalInv: a command that ends, SIGTERM and SIGHUP included, leaves the terminal as it
\* found it (all but the default action of SIGINT, before ctrl_c() is first polled,
\* cli/src/main.rs:533), approves only on the key that says so, and however the input is
\* cut into chunks, hands the session what was typed before the detach sequence
\* (cli/src/terminal.rs, attach_loop.rs).
THEOREM TerminalGivenBack == TerminalSpec => []TerminalInv
<1>1. TerminalInit => TerminalIInv
  BY TerminalStarts
<1>2. TerminalIInv /\ [TerminalNext]_terminalVars => TerminalIInv'
  BY TerminalStepKeeps
<1>3. TerminalIInv => TerminalInv
  BY TerminalFollows
<1>4. QED
  BY <1>1, <1>2, <1>3, PTL DEF TerminalSpec

-----------------------------------------------------------------------------
(***************************************************************************)
(* CliCommands: the one-shot commands.                                      *)
(***************************************************************************)

Kinds == {"kill", "attach", "killall", "open", "new", "hook"}

Texts == Names \cup AutoNames

\* What a command may have listed: sessions, or the lines of a payload.
Lists == (UNION {[S -> Texts] : S \in SUBSET Ids}) \cup Payloads \cup {<<>>}

CommandRecord ==
  [kind : Kinds \cup {Nothing}, ref : Refs \cup {Nothing},
   pc : {"idle", "list", "create", "kill", "again", "attach", "emit", "done"},
   list : Lists, left : SUBSET Nat, result : {"ok", "error", Nothing}]

\* The shapes of all the parts of the state.
CommandsTyped ==
  /\ name \in [Ids -> Texts \cup {Nothing}] /\ created \in 0..MaxSessions
  /\ exited \subseteq Listed /\ killer \in [Ids -> Cmds \cup {Nothing}]
  /\ overtaken \in [Cmds -> BOOLEAN] /\ applied \in [Cmds -> Seq(Nat)]
  /\ command \in [Cmds -> CommandRecord]

\* A session that is gone was removed by the kill of a command, and no two listed
\* sessions have the same name.
SessionsInv ==
  /\ \A i \in Ids :
       /\ i > created => name[i] = Nothing /\ killer[i] = Nothing
       /\ name[i] # Nothing => killer[i] = Nothing
       /\ i <= created /\ name[i] = Nothing => killer[i] # Nothing
  /\ \A i, j \in Listed : i # j => name[i] # name[j]

\* The commands that may yet create a session.
Openers ==
  {c \in Cmds : command[c].kind \in {"open", "new"} /\ command[c].pc \in {"list", "create"}}

\* There is room for what they create.
RoomInv == created + Cardinality(Openers) <= MaxSessions

\* What a command is doing where it stands.
Standing(r) ==
  /\ r.pc = "idle" <=> r.kind = Nothing
  /\ r.pc = "done" <=> r.result # Nothing
  /\ r.pc = "list" => r.kind \in {"kill", "attach", "killall", "open"} /\ r.left = {}
  /\ r.pc = "create" => r.kind \in {"open", "new"}
  /\ r.pc = "kill" => r.kind \in {"kill", "killall"}
  /\ r.pc = "again" => r.kind = "open"
  /\ r.pc = "attach" => r.kind \in {"attach", "open"}
  /\ r.pc = "emit" => r.kind = "hook"
  /\ r.kind = "hook" => r.pc \in {"emit", "done"}
  /\ r.kind \in {"kill", "attach"} => r.ref \in Refs
  /\ r.kind = "open" => r.ref \in Names
  /\ r.kind = "new" => r.ref \in Names \cup {Nothing}
  /\ r.pc \in {"kill", "again", "attach", "emit"} => r.left # {}
  /\ r.pc = "done" /\ r.result = "ok" /\ r.kind \in {"kill", "killall", "hook"} => r.left = {}

StandingInv == \A c \in Cmds : Standing(command[c])

\* Only kill and kill-all remove sessions, and only once they have listed.
OthersKillNothing ==
  \A c \in Cmds :
    command[c].kind \notin {"kill", "killall"} \/ command[c].pc \in {"idle", "list"} =>
      KilledBy(c) = {}

\* The session that kill has removed or is about to remove is the one that it resolved;
\* it succeeds only once that session is gone, and fails for a fault, or if it resolved none.
KillInv ==
  \A c \in Cmds : command[c].kind = "kill" /\ command[c].pc \in {"kill", "done"} =>
    /\ command[c].left \cup KilledBy(c) \subseteq Resolve(command[c].list, command[c].ref)
    /\ \A i, j \in command[c].left \cup KilledBy(c) : i = j
    /\ command[c].left \subseteq 1..created
    /\ Done(c, "ok") =>
         \E i \in Resolve(command[c].list, command[c].ref) : i \in 1..created /\ i \notin Listed
    /\ Done(c, "error") => faults \/ Resolve(command[c].list, command[c].ref) = {}

\* kill-all is through with the sessions it listed first, and those are gone; it stops at
\* the first of the others, for a fault, which it may have met after the removal.
KillAllInv ==
  \A c \in Cmds : command[c].kind = "killall" /\ command[c].pc \in {"kill", "done"} =>
    /\ command[c].left \cup KilledBy(c) \subseteq DOMAIN command[c].list
    /\ DOMAIN command[c].list \subseteq 1..created
    /\ \A i \in DOMAIN command[c].list \ command[c].left :
         i \notin Listed /\ \A j \in command[c].left : i < j
    /\ \A i \in KilledBy(c) \cap command[c].left : Done(c, "error") /\ i = First(c)
    /\ Done(c, "error") => faults /\ command[c].left # {}

\* While nobody crossed it, a command that opens a name finds it free until it has
\* created the session, and its session listed under that name from then on.
OpenInv ==
  \A c \in Cmds : command[c].kind = "open" /\ ~overtaken[c] =>
    /\ command[c].pc = "create" => command[c].ref \notin Taken
    /\ command[c].pc \in {"again", "attach"} =>
         \A i \in command[c].left : i \in Listed /\ name[i] = command[c].ref
    /\ ~Done(c, "error")

\* The events of a hook were applied, in order, up to the first that is left.
HookInv ==
  \A c \in Cmds :
    /\ command[c].kind # "hook" => applied[c] = <<>>
    /\ command[c].kind = "hook" =>
         /\ \A k, l \in DOMAIN applied[c] : k < l => applied[c][k] < applied[c][l]
         /\ ToSet(applied[c]) \cup command[c].left = codex_states(command[c].list)
         /\ \A i \in ToSet(applied[c]), j \in command[c].left : i < j
         /\ Done(c, "ok") => ToSet(applied[c]) # {}
         /\ Done(c, "error") => command[c].left # {} \/ codex_states(command[c].list) = {}

CommandsIInv ==
  /\ CommandsTyped
  /\ SessionsInv
  /\ RoomInv
  /\ StandingInv
  /\ OthersKillNothing
  /\ KillInv
  /\ KillAllInv
  /\ OpenInv
  /\ HookInv

-----------------------------------------------------------------------------
(* What the steps do to a command.                                          *)

\* Only command c changes.
OnlyCommand(c) ==
  command' \in [Cmds -> CommandRecord] /\ \A d \in Cmds : d # c => command'[d] = command[d]

\* Command c still is the same command about the same list.
SameCommand(c) ==
  /\ OnlyCommand(c)
  /\ command'[c].kind = command[c].kind /\ command'[c].ref = command[c].ref

Ended(c, result) ==
  /\ SameCommand(c) /\ command'[c].list = command[c].list
  /\ command'[c].left = command[c].left
  /\ command'[c].pc = "done" /\ command'[c].result = result

Advanced(c) ==
  /\ SameCommand(c) /\ command'[c].list = command[c].list
  /\ command'[c].left = command[c].left \ {First(c)}
  /\ command'[c].left = {} => command'[c].pc = "done" /\ command'[c].result = "ok"
  /\ command'[c].left # {} =>
       command'[c].pc = command[c].pc /\ command'[c].result = command[c].result

LEMMA CommandEnds ==
  ASSUME command \in [Cmds -> CommandRecord], NEW c \in Cmds, NEW result \in {"ok", "error"},
         Finishes(c, result)
  PROVE  Ended(c, result)
<1>1. command'[c] = [command[c] EXCEPT !.pc = "done", !.result = result]
  BY DEF Finishes
<1>2. command[c] \in CommandRecord
  OBVIOUS
<1>3. /\ command'[c] \in CommandRecord
      /\ command'[c].kind = command[c].kind /\ command'[c].ref = command[c].ref
      /\ command'[c].list = command[c].list /\ command'[c].left = command[c].left
      /\ command'[c].pc = "done" /\ command'[c].result = result
  BY <1>1, <1>2 DEF CommandRecord
<1>4. OnlyCommand(c)
  BY <1>3 DEF Finishes, OnlyCommand
<1>5. QED
  BY <1>3, <1>4 DEF Ended, SameCommand

LEMMA CommandAdvances ==
  ASSUME command \in [Cmds -> CommandRecord], NEW c \in Cmds, Advances(c)
  PROVE  Advanced(c)
<1> DEFINE left == command[c].left \ {First(c)}
<1> DEFINE at == IF left = {} THEN "done" ELSE command[c].pc
<1> DEFINE result == IF left = {} THEN "ok" ELSE command[c].result
<1>1. command' = [command EXCEPT ![c].left = left, ![c].pc = at, ![c].result = result]
  BY DEF Advances
<1>2. command[c] \in CommandRecord
  OBVIOUS
<1>3. /\ left \in SUBSET Nat
      /\ at \in {"idle", "list", "create", "kill", "again", "attach", "emit", "done"}
      /\ result \in {"ok", "error", Nothing}
  BY <1>2 DEF CommandRecord
<1> HIDE DEF left, at, result
<1>4. command'[c] = [command[c] EXCEPT !.left = left, !.pc = at, !.result = result]
  BY <1>1
<1>5. /\ command'[c] \in CommandRecord
      /\ command'[c].kind = command[c].kind /\ command'[c].ref = command[c].ref
      /\ command'[c].list = command[c].list /\ command'[c].left = left
      /\ command'[c].pc = at /\ command'[c].result = result
  BY <1>4, <1>2, <1>3 DEF CommandRecord
<1>6. OnlyCommand(c)
  BY <1>1, <1>5 DEF OnlyCommand
<1>7. QED
  BY <1>5, <1>6 DEF Advanced, SameCommand, left, at, result

\* A command that starts.
Started(c) ==
  /\ OnlyCommand(c) /\ command[c].pc = "idle"
  /\ Standing(command'[c]) /\ command'[c].kind # Nothing
  /\ command'[c].pc \in {"list", "create", "emit", "done"}
  /\ command'[c].kind \in {"open", "new"} => Room
  /\ command'[c].kind = "open" => command'[c].pc = "list"
  /\ command'[c].pc = "done" =>
       command'[c].kind = "hook" /\ command'[c].result = "error" /\ command'[c].left = {}
  /\ command'[c].kind = "hook" =>
       command'[c].left = codex_states(command'[c].list)

\* The lines of a payload are numbered.
LEMMA StatesAreLines ==
  \A payload \in Payloads : codex_states(payload) \subseteq Nat
<1> SUFFICES ASSUME NEW payload \in Payloads PROVE DOMAIN payload \subseteq Nat
  BY DEF codex_states
<1>1. CASE payload = <<"working">>
  BY <1>1
<1>2. CASE payload = <<"awaiting", "junk", "idle">>
  BY <1>2
<1>3. CASE payload = <<"junk">>
  BY <1>3
<1>4. QED
  BY <1>1, <1>2, <1>3 DEF Payloads

LEMMA IdleTyped == Idle \in CommandRecord /\ Idle.left = {} /\ Idle.result = Nothing
<1>1. <<>> \in Lists
  BY DEF Lists
<1>2. QED
  BY <1>1 DEF Idle, CommandRecord

LEMMA CommandStarts ==
  ASSUME CommandsTyped, NEW c \in Cmds, Start(c)
  PROVE  Started(c) /\ UNCHANGED <<name, exited, created, starts, faults, killer, overtaken, applied>>
<1> USE CommandsAssumption
<1>0. /\ command \in [Cmds -> CommandRecord] /\ command[c].pc = "idle"
      /\ UNCHANGED <<name, exited, created, starts, faults, killer, overtaken, applied>>
  BY DEF Start, CommandsTyped
<1>1. ASSUME NEW r \in CommandRecord, command' = [command EXCEPT ![c] = r]
      PROVE  OnlyCommand(c) /\ command'[c] = r
  BY <1>0, <1>1 DEF OnlyCommand
<1>2. ASSUME NEW kind \in {"kill", "attach"}, NEW ref \in Refs,
             command' = [command EXCEPT
               ![c] = [Idle EXCEPT !.kind = kind, !.ref = ref, !.pc = "list"]]
      PROVE  Started(c)
  <2> DEFINE r == [Idle EXCEPT !.kind = kind, !.ref = ref, !.pc = "list"]
  <2>1. /\ r \in CommandRecord /\ r.kind = kind /\ r.ref = ref /\ r.pc = "list"
        /\ r.left = {} /\ r.result = Nothing
    BY IdleTyped DEF CommandRecord, Kinds
  <2>2. command' = [command EXCEPT ![c] = r]
    BY <1>2
  <2> HIDE DEF r
  <2>3. OnlyCommand(c) /\ command'[c] = r
    BY <1>1, <2>1, <2>2
  <2>4. Standing(r)
    BY <2>1 DEF Standing
  <2>5. QED
    BY <1>0, <2>1, <2>3, <2>4 DEF Started
<1>3. ASSUME command' = [command EXCEPT ![c] = [Idle EXCEPT !.kind = "killall", !.pc = "list"]]
      PROVE  Started(c)
  <2> DEFINE r == [Idle EXCEPT !.kind = "killall", !.pc = "list"]
  <2>1. /\ r \in CommandRecord /\ r.kind = "killall" /\ r.pc = "list"
        /\ r.left = {} /\ r.result = Nothing
    BY IdleTyped DEF CommandRecord, Kinds
  <2>2. command' = [command EXCEPT ![c] = r]
    BY <1>3
  <2> HIDE DEF r
  <2>3. OnlyCommand(c) /\ command'[c] = r
    BY <1>1, <2>1, <2>2
  <2>4. Standing(r)
    BY <2>1 DEF Standing
  <2>5. QED
    BY <1>0, <2>1, <2>3, <2>4 DEF Started
<1>4. ASSUME Room, NEW kind \in {"open", "new"}, NEW at \in {"list", "create"},
             NEW ref \in Names \cup {Nothing},
             kind = "open" => ref \in Names /\ at = "list", kind = "new" => at = "create",
             command' = [command EXCEPT
               ![c] = [Idle EXCEPT !.kind = kind, !.ref = ref, !.pc = at]]
      PROVE  Started(c)
  <2> DEFINE r == [Idle EXCEPT !.kind = kind, !.ref = ref, !.pc = at]
  <2>1. /\ r \in CommandRecord /\ r.kind = kind /\ r.ref = ref /\ r.pc = at
        /\ r.left = {} /\ r.result = Nothing
    BY IdleTyped DEF CommandRecord, Kinds, Refs
  <2>2. command' = [command EXCEPT ![c] = r]
    BY <1>4
  <2> HIDE DEF r
  <2>3. OnlyCommand(c) /\ command'[c] = r
    BY <1>1, <2>1, <2>2
  <2>4. Standing(r)
    BY <2>1, <1>4 DEF Standing, Refs
  <2>5. QED
    BY <1>0, <1>4, <2>1, <2>3, <2>4 DEF Started
<1>5. ASSUME NEW i \in Ids, NEW payload \in Payloads,
             LET states == codex_states(payload)
                 starter   == [Idle EXCEPT !.kind = "hook", !.ref = i, !.list = payload]
             IN  command' = [command EXCEPT ![c] =
                          IF states = {} THEN [starter EXCEPT !.pc = "done", !.result = "error"]
                          ELSE [starter EXCEPT !.pc = "emit", !.left = states]]
      PROVE  Started(c)
  <2> DEFINE states == codex_states(payload)
             starter == [Idle EXCEPT !.kind = "hook", !.ref = i, !.list = payload]
             failed == [starter EXCEPT !.pc = "done", !.result = "error"]
             emits == [starter EXCEPT !.pc = "emit", !.left = states]
  <2>0. /\ i \in Refs /\ payload \in Lists /\ states \in SUBSET Nat
    BY StatesAreLines DEF Refs, Lists
  <2>1. command' = [command EXCEPT ![c] = IF states = {} THEN failed ELSE emits]
    BY <1>5
  <2>2. /\ starter \in CommandRecord /\ starter.kind = "hook" /\ starter.list = payload
        /\ starter.left = {} /\ starter.result = Nothing
    BY IdleTyped, <2>0 DEF CommandRecord, Kinds
  <2> HIDE DEF states, starter
  <2>3. /\ failed \in CommandRecord /\ failed.kind = "hook" /\ failed.list = payload
        /\ failed.left = {} /\ failed.result = "error" /\ failed.pc = "done"
    BY <2>2 DEF CommandRecord
  <2>4. /\ emits \in CommandRecord /\ emits.kind = "hook" /\ emits.list = payload
        /\ emits.left = states /\ emits.result = Nothing /\ emits.pc = "emit"
    BY <2>2, <2>0 DEF CommandRecord
  <2> HIDE DEF failed, emits
  <2>5. CASE states = {}
    <3>1. command' = [command EXCEPT ![c] = failed]
      BY <2>1, <2>5
    <3>2. OnlyCommand(c) /\ command'[c] = failed
      BY <1>1, <2>3, <3>1
    <3>3. Standing(failed)
      BY <2>3 DEF Standing
    <3>4. codex_states(failed.list) = {}
      BY <2>3, <2>5 DEF states
    <3>5. QED
      BY <1>0, <2>3, <3>2, <3>3, <3>4 DEF Started
  <2>6. CASE states # {}
    <3>1. command' = [command EXCEPT ![c] = emits]
      BY <2>1, <2>6
    <3>2. OnlyCommand(c) /\ command'[c] = emits
      BY <1>1, <2>4, <3>1
    <3>3. Standing(emits)
      BY <2>4, <2>6 DEF Standing
    <3>4. codex_states(emits.list) = emits.left
      BY <2>4 DEF states
    <3>5. QED
      BY <1>0, <2>4, <3>2, <3>3, <3>4 DEF Started
  <2>7. QED
    BY <2>5, <2>6
<1>6. CASE \E kind \in {"kill", "attach"}, ref \in Refs :
             command' = [command EXCEPT
               ![c] = [Idle EXCEPT !.kind = kind, !.ref = ref, !.pc = "list"]]
  BY <1>0, <1>2, <1>6
<1>7. CASE command' = [command EXCEPT ![c] = [Idle EXCEPT !.kind = "killall", !.pc = "list"]]
  BY <1>0, <1>3, <1>7
<1>8. CASE Room /\ \E n \in Names :
             command' = [command EXCEPT
               ![c] = [Idle EXCEPT !.kind = "open", !.ref = n, !.pc = "list"]]
  <2>1. PICK n \in Names :
             command' = [command EXCEPT
               ![c] = [Idle EXCEPT !.kind = "open", !.ref = n, !.pc = "list"]]
    BY <1>8
  <2>2. n \in Names \cup {Nothing}
    OBVIOUS
  <2>3. QED
    BY <1>0, <1>4, <1>8, <2>1, <2>2
<1>9. CASE Room /\ \E n \in Names \cup {Nothing} :
             command' = [command EXCEPT
               ![c] = [Idle EXCEPT !.kind = "new", !.ref = n, !.pc = "create"]]
  BY <1>0, <1>4, <1>9
<1>10. CASE \E i \in Ids, payload \in Payloads :
             LET states == codex_states(payload)
                 starter   == [Idle EXCEPT !.kind = "hook", !.ref = i, !.list = payload]
             IN  command' = [command EXCEPT ![c] =
                          IF states = {} THEN [starter EXCEPT !.pc = "done", !.result = "error"]
                          ELSE [starter EXCEPT !.pc = "emit", !.left = states]]
  BY <1>0, <1>5, <1>10
<1>11. QED
  BY <1>6, <1>7, <1>8, <1>9, <1>10 DEF Start

\* A command that has listed the sessions, and what it made of the list.
ListedNow(c) ==
  /\ SameCommand(c) /\ command[c].pc = "list"
  /\ command'[c].list = Summaries /\ command'[c].left \subseteq Listed
  /\ command[c].kind = "killall" => command'[c].left = Listed
  /\ command[c].kind # "killall" => \A i, j \in command'[c].left : i = j
  /\ command[c].kind = "kill" =>
       /\ command'[c].left \subseteq Resolve(Summaries, command[c].ref)
       /\ command'[c].left = {} => Resolve(Summaries, command[c].ref) = {}
  /\ command[c].kind = "open" =>
       /\ command'[c].left \subseteq NameIs(Summaries, command[c].ref)
       /\ command'[c].left = {} => NameIs(Summaries, command[c].ref) = {}
  /\ command'[c].pc = IF command'[c].left = {}
                      THEN IF command[c].kind = "open" THEN "create" ELSE "done"
                      ELSE IF command[c].kind = "open" THEN "again"
                      ELSE IF command[c].kind = "attach" THEN "attach" ELSE "kill"
  /\ command'[c].result = IF command'[c].left # {} \/ command[c].kind = "open" THEN Nothing
                          ELSE IF command[c].kind = "killall" THEN "ok" ELSE "error"

LEMMA CommandLists ==
  ASSUME CommandsTyped, StandingInv, NEW c \in Cmds, List(c)
  PROVE  ListedNow(c) /\ UNCHANGED <<name, exited, created, starts, faults, killer, overtaken, applied>>
<1> USE CommandsAssumption
<1> DEFINE kind == command[c].kind
           ref == command[c].ref
           hits == IF kind = "open" THEN OpenHits(Summaries, ref)
                   ELSE IF kind = "killall" THEN DOMAIN Summaries ELSE Resolve(Summaries, ref)
           left == IF kind = "killall" \/ hits = {} THEN hits ELSE {Min(hits)}
           at == IF left = {} THEN IF kind = "open" THEN "create" ELSE "done"
                 ELSE IF kind = "open" THEN "again"
                 ELSE IF kind = "attach" THEN "attach" ELSE "kill"
           result == IF left # {} \/ kind = "open" THEN Nothing
                     ELSE IF kind = "killall" THEN "ok" ELSE "error"
<1>1. command' = [command EXCEPT ![c].list = Summaries, ![c].left = left, ![c].pc = at,
                                 ![c].result = result]
  BY DEF List
<1>2. /\ command \in [Cmds -> CommandRecord] /\ command[c] \in CommandRecord
      /\ command[c].pc = "list"
      /\ kind \in {"kill", "attach", "killall", "open"}
      /\ kind \in {"kill", "attach"} => ref \in Refs
      /\ kind = "open" => ref \in Names
  BY DEF List, CommandsTyped, StandingInv, Standing
<1>3. Summaries \in Lists /\ DOMAIN Summaries = Listed
  <2>1. Listed \in SUBSET Ids /\ Summaries \in [Listed -> Texts]
    BY DEF Listed, Summaries, CommandsTyped
  <2>2. QED
    BY <2>1 DEF Lists
<1>4. Resolve(Summaries, ref) \subseteq Listed /\ OpenHits(Summaries, ref) \subseteq Listed
  BY <1>3 DEF Resolve, OpenHits, NameIs, IdIs, IdStarts
<1>5. hits \subseteq Listed
  BY <1>3, <1>4
<1>6. Listed \subseteq Nat
  BY DEF Listed, Ids
<1>7. hits # {} => Min(hits) \in hits
  BY <1>5, <1>6, MinIsLeast
<1>8. left \subseteq hits /\ (left = {} => hits = {})
  BY <1>7
<1>9. kind # "killall" => \A i, j \in left : i = j
  OBVIOUS
<1>10. /\ kind = "killall" => left = Listed
       /\ kind = "kill" => /\ left \subseteq Resolve(Summaries, ref)
                           /\ left = {} => Resolve(Summaries, ref) = {}
       /\ kind = "open" => /\ left \subseteq NameIs(Summaries, ref)
                           /\ left = {} => NameIs(Summaries, ref) = {}
  BY <1>2, <1>3, <1>8 DEF OpenHits
<1>11. left \subseteq Listed
  BY <1>5, <1>8
<1>12. /\ at = IF left = {} THEN IF kind = "open" THEN "create" ELSE "done"
               ELSE IF kind = "open" THEN "again"
               ELSE IF kind = "attach" THEN "attach" ELSE "kill"
       /\ result = IF left # {} \/ kind = "open" THEN Nothing
                   ELSE IF kind = "killall" THEN "ok" ELSE "error"
  OBVIOUS
<1>13. /\ left \in SUBSET Nat
       /\ at \in {"idle", "list", "create", "kill", "again", "attach", "emit", "done"}
       /\ result \in {"ok", "error", Nothing}
  BY <1>6, <1>11
<1> HIDE DEF left, at, result, hits, kind, ref
<1>14. command'[c] = [command[c] EXCEPT !.list = Summaries, !.left = left, !.pc = at,
                                        !.result = result]
  BY <1>1, <1>2
<1>15. /\ command'[c] \in CommandRecord
       /\ command'[c].kind = command[c].kind /\ command'[c].ref = command[c].ref
       /\ command'[c].list = Summaries /\ command'[c].left = left
       /\ command'[c].pc = at /\ command'[c].result = result
  BY <1>14, <1>2, <1>3, <1>13 DEF CommandRecord
<1>16. OnlyCommand(c)
  BY <1>1, <1>2, <1>15 DEF OnlyCommand
<1>17. UNCHANGED <<name, exited, created, starts, faults, killer, overtaken, applied>>
  BY DEF List
<1>18. SameCommand(c)
  BY <1>15, <1>16 DEF SameCommand
<1>19. command[c].kind = kind /\ command[c].ref = ref
  BY DEF kind, ref
<1>20. ListedNow(c)
  BY <1>2, <1>9, <1>10, <1>11, <1>12, <1>15, <1>18, <1>19 DEF ListedNow
<1>21. QED
  BY <1>17, <1>20

\* A command that has created the session it asked for.
CreatedNow(c, n) ==
  /\ SameCommand(c) /\ command[c].pc = "create" /\ command[c].kind \in {"open", "new"}
  /\ command'[c].list = command[c].list /\ command'[c].left = {created + 1}
  /\ n \in Texts /\ n \notin Taken
  /\ command[c].kind = "open" => n = command[c].ref
  /\ command'[c].pc = IF command[c].kind = "new" THEN "done" ELSE "again"
  /\ command'[c].result = IF command[c].kind = "new" THEN "ok" ELSE Nothing
  /\ name' = [name EXCEPT ![created + 1] = n] /\ created' = created + 1
  /\ Touched(c, n) /\ UNCHANGED <<exited, starts, faults, killer, applied>>

LEMMA CommandCreates ==
  ASSUME CommandsTyped, StandingInv, NEW c \in Cmds, NEW n \in Texts, n \notin Taken,
         command[c].kind = "open" => n = command[c].ref,
         command[c].pc = "create", Create(c, n),
         UNCHANGED <<exited, starts, faults, killer, applied>>
  PROVE  CreatedNow(c, n)
<1> USE CommandsAssumption
<1> DEFINE at == IF command[c].kind = "new" THEN "done" ELSE "again"
           result == IF command[c].kind = "new" THEN "ok" ELSE Nothing
           left == {created + 1}
<1>1. command' = [command EXCEPT ![c].left = left, ![c].pc = at, ![c].result = result]
  BY DEF Create
<1>2. /\ command \in [Cmds -> CommandRecord] /\ command[c] \in CommandRecord
      /\ command[c].kind \in {"open", "new"}
  BY DEF CommandsTyped, StandingInv, Standing
<1>3. /\ left \in SUBSET Nat
      /\ at \in {"idle", "list", "create", "kill", "again", "attach", "emit", "done"}
      /\ result \in {"ok", "error", Nothing}
  <2>1. created + 1 \in Nat
    BY DEF CommandsTyped
  <2>2. QED
    BY <2>1
<1> HIDE DEF left, at, result
<1>4. command'[c] = [command[c] EXCEPT !.left = left, !.pc = at, !.result = result]
  BY <1>1, <1>2
<1>5. /\ command'[c] \in CommandRecord
      /\ command'[c].kind = command[c].kind /\ command'[c].ref = command[c].ref
      /\ command'[c].list = command[c].list /\ command'[c].left = left
      /\ command'[c].pc = at /\ command'[c].result = result
  BY <1>4, <1>2, <1>3 DEF CommandRecord
<1>6. SameCommand(c)
  BY <1>1, <1>2, <1>5 DEF OnlyCommand, SameCommand
<1>7. name' = [name EXCEPT ![created + 1] = n] /\ created' = created + 1 /\ Touched(c, n)
  BY DEF Create
<1>8. /\ command'[c].left = {created + 1}
      /\ command'[c].pc = IF command[c].kind = "new" THEN "done" ELSE "again"
      /\ command'[c].result = IF command[c].kind = "new" THEN "ok" ELSE Nothing
  BY <1>5 DEF left, at, result
<1>9. QED
  BY <1>2, <1>5, <1>6, <1>7, <1>8 DEF CreatedNow

\* CreateSession creates one session under a free name, or is refused.
LEMMA CreateSessionDoes ==
  ASSUME CommandsTyped, StandingInv, NEW c \in Cmds, CreateSession(c)
  PROVE  \/ \E n \in Texts : CreatedNow(c, n)
         \/ /\ Ended(c, "error") /\ command[c].pc = "create" /\ command[c].ref \in Taken
            /\ UNCHANGED <<name, exited, created, starts, faults, killer, overtaken, applied>>
<1> USE CommandsAssumption
<1>1. /\ command[c].pc = "create" /\ UNCHANGED <<exited, starts, faults, killer, applied>>
      /\ command[c].kind \in {"open", "new"}
      /\ command[c].kind = "open" => command[c].ref \in Names
      /\ command[c] \in CommandRecord
  BY DEF CreateSession, CommandsTyped, StandingInv, Standing
<1>2. CASE command[c].ref = Nothing /\ \E n \in AutoName : Create(c, n)
  <2>1. PICK n \in AutoName : Create(c, n)
    BY <1>2
  <2>2. n \in Texts /\ n \notin Taken
    BY DEF AutoName, Texts
  <2>3. command[c].kind # "open"
    BY <1>1, <1>2
  <2>4. CreatedNow(c, n)
    BY <1>1, <2>1, <2>2, <2>3, CommandCreates
  <2>5. QED
    BY <2>2, <2>4
<1>3. CASE command[c].ref # Nothing /\ command[c].ref \notin Taken /\ Create(c, command[c].ref)
  <2>1. PICK n \in Names : n = command[c].ref
    <3>1. command[c].kind = "new" => command[c].ref \in Names \cup {Nothing}
      BY <1>1 DEF StandingInv, Standing
    <3>2. QED
      BY <1>1, <1>3, <3>1
  <2>2. n \in Texts /\ n \notin Taken /\ Create(c, n)
    BY <1>3, <2>1 DEF Texts
  <2>3. CreatedNow(c, n)
    BY <1>1, <2>1, <2>2, CommandCreates
  <2>4. QED
    BY <2>2, <2>3
<1>4. CASE /\ command[c].ref \in Taken /\ Finishes(c, "error")
           /\ UNCHANGED <<name, created, overtaken>>
  <2>1. Ended(c, "error")
    BY <1>4, CommandEnds DEF CommandsTyped
  <2>2. QED
    BY <1>1, <1>4, <2>1
<1>5. QED
  BY <1>2, <1>3, <1>4 DEF CreateSession

\* A command that has removed the session it was at; its row may be left behind.
KilledNow(c) ==
  /\ Advanced(c) \/ (faults /\ Ended(c, "error"))
  /\ command[c].pc = "kill" /\ First(c) \in Listed
  /\ name' = [name EXCEPT ![First(c)] = Nothing] /\ exited' = exited \ {First(c)}
  /\ killer' = [killer EXCEPT ![First(c)] = c] /\ Touched(c, name[First(c)])
  /\ UNCHANGED <<created, starts, faults, applied>>

\* A command that has passed a session that is gone.
PassedNow(c) == Advanced(c) /\ command[c].pc = "kill" /\ First(c) \notin Listed

LEMMA KillDoes ==
  ASSUME CommandsTyped, NEW c \in Cmds, Kill(c)
  PROVE  \/ KilledNow(c)
         \/ /\ PassedNow(c) \/ (Ended(c, "error") /\ command[c].pc = "kill" /\ faults)
            /\ UNCHANGED <<name, exited, created, starts, faults, killer, overtaken, applied>>
<1>1. command \in [Cmds -> CommandRecord]
  BY DEF CommandsTyped
<1>2. Advances(c) => Advanced(c)
  BY <1>1, CommandAdvances
<1>3. KillFailed(c) => faults /\ Ended(c, "error")
  BY <1>1, CommandEnds DEF KillFailed
<1>4. command[c].pc = "kill" /\ UNCHANGED <<created, starts, faults, applied>>
  BY DEF Kill
<1>5. CASE /\ First(c) \in Listed
           /\ name' = [name EXCEPT ![First(c)] = Nothing] /\ exited' = exited \ {First(c)}
           /\ killer' = [killer EXCEPT ![First(c)] = c] /\ Touched(c, name[First(c)])
           /\ Advances(c) \/ KillFailed(c)
  BY <1>2, <1>3, <1>4, <1>5 DEF KilledNow
<1>6. CASE /\ (First(c) \notin Listed /\ KilledAlready(c)) \/ KillFailed(c)
           /\ UNCHANGED <<name, exited, killer, overtaken>>
  BY <1>2, <1>3, <1>4, <1>6 DEF PassedNow, KilledAlready
<1>7. QED
  BY <1>5, <1>6 DEF Kill

\* A command that has found its session listed again.
AgainNow(c) ==
  /\ SameCommand(c) /\ command[c].pc = "again" /\ command'[c].pc = "attach"
  /\ command'[c].list = command[c].list /\ command'[c].left = command[c].left
  /\ command'[c].result = command[c].result

LEMMA ListAgainDoes ==
  ASSUME CommandsTyped, NEW c \in Cmds, ListAgain(c)
  PROVE  /\ AgainNow(c) \/ (Ended(c, "error") /\ command[c].pc = "again" /\ First(c) \notin Listed)
         /\ UNCHANGED <<name, exited, created, starts, faults, killer, overtaken, applied>>
<1>1. /\ command \in [Cmds -> CommandRecord] /\ command[c] \in CommandRecord
      /\ command[c].pc = "again"
  BY DEF CommandsTyped, ListAgain
<1>2. CASE command' = [command EXCEPT ![c].pc = "attach"]
  <2>1. command'[c] = [command[c] EXCEPT !.pc = "attach"]
    BY <1>1, <1>2
  <2>2. /\ command'[c] \in CommandRecord
        /\ command'[c].kind = command[c].kind /\ command'[c].ref = command[c].ref
        /\ command'[c].list = command[c].list /\ command'[c].left = command[c].left
        /\ command'[c].pc = "attach" /\ command'[c].result = command[c].result
    BY <1>1, <2>1 DEF CommandRecord
  <2>3. SameCommand(c)
    BY <1>1, <1>2, <2>2 DEF OnlyCommand, SameCommand
  <2>4. QED
    BY <1>1, <2>2, <2>3 DEF AgainNow, ListAgain
<1>3. CASE First(c) \notin Listed /\ Finishes(c, "error")
  BY <1>1, <1>3, CommandEnds DEF ListAgain
<1>4. QED
  BY <1>2, <1>3 DEF ListAgain

LEMMA AttachDoes ==
  ASSUME CommandsTyped, NEW c \in Cmds, Attach(c)
  PROVE  /\ command[c].pc = "attach"
         /\ Ended(c, IF First(c) \in Listed THEN "ok" ELSE "error")
         /\ UNCHANGED <<name, exited, created, starts, faults, killer, overtaken, applied>>
BY CommandEnds DEF Attach, CommandsTyped

\* A hook that has applied its next event.
EmittedNow(c) ==
  /\ Advanced(c) /\ command[c].pc = "emit"
  /\ applied' = [applied EXCEPT ![c] = Append(@, First(c))]
  /\ UNCHANGED <<name, exited, created, starts, faults, killer, overtaken>>

LEMMA EmitDoes ==
  ASSUME CommandsTyped, NEW c \in Cmds, Emit(c)
  PROVE  \/ EmittedNow(c)
         \/ /\ Ended(c, "error") /\ command[c].pc = "emit"
            /\ UNCHANGED <<name, exited, created, starts, faults, killer, overtaken, applied>>
<1>1. command \in [Cmds -> CommandRecord]
  BY DEF CommandsTyped
<1>2. CASE applied' = [applied EXCEPT ![c] = Append(@, First(c))] /\ Advances(c)
  <2>1. Advanced(c)
    BY <1>1, <1>2, CommandAdvances
  <2>2. QED
    BY <1>2, <2>1 DEF Emit, EmittedNow
<1>3. CASE EmitRefused(c) /\ UNCHANGED applied
  <2>1. Ended(c, "error")
    BY <1>1, <1>3, CommandEnds DEF EmitRefused
  <2>2. QED
    BY <1>3, <2>1 DEF Emit
<1>4. QED
  BY <1>2, <1>3 DEF Emit

-----------------------------------------------------------------------------
(* What a step of a command does, all together.                             *)

\* A command that ends where it stands: refused, failed, or attached.
EndedNow(c) ==
  \/ Ended(c, "error") /\ command[c].pc = "create" /\ command[c].ref \in Taken
  \/ Ended(c, "error") /\ command[c].pc = "kill" /\ faults
  \/ Ended(c, "error") /\ command[c].pc = "again" /\ First(c) \notin Listed
  \/ Ended(c, IF First(c) \in Listed THEN "ok" ELSE "error") /\ command[c].pc = "attach"
  \/ Ended(c, "error") /\ command[c].pc = "emit"

\* Nothing but commands changes.
Quiet == UNCHANGED <<name, exited, created, starts, faults, killer, overtaken, applied>>

Does(c) ==
  \/ Started(c) /\ Quiet
  \/ ListedNow(c) /\ Quiet
  \/ EndedNow(c) /\ Quiet
  \/ PassedNow(c) /\ Quiet
  \/ AgainNow(c) /\ Quiet
  \/ \E n \in Texts : CreatedNow(c, n)
  \/ KilledNow(c)
  \/ EmittedNow(c)

LEMMA EveryStepDoes ==
  ASSUME CommandsIInv, NEW c \in Cmds, Start(c) \/ Step(c)
  PROVE  Does(c)
<1>1. CommandsTyped /\ StandingInv
  BY DEF CommandsIInv
<1>2. CASE Start(c)
  BY <1>1, <1>2, CommandStarts DEF Does, Quiet
<1>3. CASE List(c)
  BY <1>1, <1>3, CommandLists DEF Does, Quiet
<1>4. CASE CreateSession(c)
  BY <1>1, <1>4, CreateSessionDoes DEF Does, Quiet, EndedNow
<1>5. CASE Kill(c)
  BY <1>1, <1>5, KillDoes DEF Does, Quiet, EndedNow
<1>6. CASE Attach(c)
  BY <1>1, <1>6, AttachDoes DEF Does, Quiet, EndedNow
<1>7. CASE Emit(c)
  BY <1>1, <1>7, EmitDoes DEF Does, Quiet, EndedNow
<1>8. CASE ListAgain(c)
  BY <1>1, <1>8, ListAgainDoes DEF Does, Quiet, EndedNow
<1>9. QED
  BY <1>2, <1>3, <1>4, <1>5, <1>6, <1>7, <1>8 DEF Step

\* The next of what a command has left is one of it, and the least.
LEMMA FirstIsLeast ==
  ASSUME CommandsTyped, NEW c \in Cmds, command[c].left # {}
  PROVE  /\ First(c) \in command[c].left /\ First(c) \in Nat
         /\ \A k \in command[c].left : First(c) <= k
<1>1. command[c].left \subseteq Nat
  BY DEF CommandsTyped, CommandRecord
<1>2. QED
  BY <1>1, MinIsLeast DEF First

LEMMA FiniteOpeners ==
  Openers \subseteq Cmds /\ IsFiniteSet(Openers) /\ Cardinality(Openers) \in Nat
<1>1. Openers \subseteq Cmds /\ IsFiniteSet(Cmds)
  BY CommandsAssumption DEF Openers
<1>2. IsFiniteSet(Openers)
  BY <1>1, FS_Subset
<1>3. QED
  BY <1>1, <1>2, FS_CardinalityType

\* A command that creates a session has room for it.
LEMMA RoomToCreate ==
  ASSUME CommandsTyped, RoomInv, NEW c \in Openers
  PROVE  created + 1 \in Ids /\ created \in Nat
<1>1. Cardinality(Openers) # 0
  BY FiniteOpeners, FS_EmptySet
<1>2. Cardinality(Openers) \in Nat
  BY FiniteOpeners
<1>3. Cardinality(Openers) >= 1
  BY <1>1, <1>2
<1>4. created \in Nat /\ MaxSessions \in Nat
  BY CommandsAssumption DEF CommandsTyped
<1>5. created + Cardinality(Openers) <= MaxSessions
  BY DEF RoomInv
<1>6. created + 1 <= MaxSessions
  BY <1>2, <1>3, <1>4, <1>5
<1>7. QED
  BY <1>4, <1>6 DEF Ids

\* The session that a kill removes was listed, and by its command.
LEMMA KillsOne ==
  ASSUME CommandsIInv, NEW c \in Cmds, KilledNow(c)
  PROVE  /\ First(c) \in command[c].left /\ First(c) \in Ids /\ name[First(c)] # Nothing
         /\ killer[First(c)] = Nothing /\ First(c) <= created
         /\ KilledBy(c)' = KilledBy(c) \cup {First(c)}
         /\ \A d \in Cmds : d # c => KilledBy(d)' = KilledBy(d)
         /\ \A i \in Listed' : i \in Listed /\ i # First(c) /\ name'[i] = name[i]
         /\ command[c].kind \in {"kill", "killall"}
<1> USE CommandsAssumption
<1>1. /\ CommandsTyped /\ SessionsInv /\ StandingInv
      /\ First(c) \in Listed /\ killer' = [killer EXCEPT ![First(c)] = c]
      /\ name' = [name EXCEPT ![First(c)] = Nothing] /\ command[c].pc = "kill"
  BY DEF KilledNow, CommandsIInv
<1>2. command[c].left # {} /\ command[c].kind \in {"kill", "killall"}
  BY <1>1 DEF StandingInv, Standing
<1>3. First(c) \in command[c].left
  BY <1>1, <1>2, FirstIsLeast
<1>4. First(c) \in Ids /\ name[First(c)] # Nothing
  BY <1>1 DEF Listed
<1>5. killer[First(c)] = Nothing
  BY <1>1, <1>4 DEF SessionsInv
<1>6. First(c) <= created
  <2>1. ~ (First(c) > created)
    BY <1>1, <1>4 DEF SessionsInv
  <2>2. created \in Nat /\ First(c) \in Nat
    BY <1>1, <1>4 DEF CommandsTyped, Ids
  <2>3. QED
    BY <2>1, <2>2
<1>7. killer \in [Ids -> Cmds \cup {Nothing}] /\ name \in [Ids -> Texts \cup {Nothing}]
  BY <1>1 DEF CommandsTyped
<1> DEFINE f == First(c)
<1>8. f \in Ids /\ killer[f] = Nothing /\ killer' = [killer EXCEPT ![f] = c]
      /\ name' = [name EXCEPT ![f] = Nothing] /\ name[f] # Nothing
  BY <1>1, <1>4, <1>5
<1> HIDE DEF f
<1>9. /\ KilledBy(c)' = KilledBy(c) \cup {f}
      /\ \A d \in Cmds : d # c => KilledBy(d)' = KilledBy(d)
  BY <1>7, <1>8 DEF KilledBy
<1>10. \A i \in Listed' : i \in Listed /\ i # f /\ name'[i] = name[i]
  BY <1>7, <1>8 DEF Listed
<1>11. QED
  BY <1>2, <1>3, <1>4, <1>5, <1>6, <1>9, <1>10 DEF f

\* What a new session adds to the sessions listed.
LEMMA CreatesOne ==
  ASSUME CommandsIInv, NEW c \in Cmds, NEW n \in Texts, CreatedNow(c, n)
  PROVE  /\ created + 1 \in Ids /\ created \in Nat /\ created + 1 \notin Listed
         /\ Listed' = Listed \cup {created + 1}
         /\ name'[created + 1] = n /\ \A i \in Ids : i # created + 1 => name'[i] = name[i]
         /\ Taken' = Taken \cup {n}
         /\ \A d \in Cmds : KilledBy(d)' = KilledBy(d)
<1> USE CommandsAssumption
<1>1. /\ CommandsTyped /\ SessionsInv /\ RoomInv
      /\ name' = [name EXCEPT ![created + 1] = n] /\ killer' = killer
      /\ command[c].pc = "create" /\ command[c].kind \in {"open", "new"}
  BY DEF CreatedNow, CommandsIInv
<1>2. created + 1 \in Ids /\ created \in Nat
  BY <1>1, RoomToCreate DEF Openers
<1>3. name[created + 1] = Nothing
  <2>1. created + 1 > created
    BY <1>2
  <2>2. QED
    BY <1>1, <1>2, <2>1 DEF SessionsInv
<1>4. n # Nothing
  BY DEF Texts
<1>5. name \in [Ids -> Texts \cup {Nothing}]
  BY <1>1 DEF CommandsTyped
<1>6. /\ name'[created + 1] = n /\ \A i \in Ids : i # created + 1 => name'[i] = name[i]
      /\ created + 1 \notin Listed
  BY <1>1, <1>2, <1>3, <1>5 DEF Listed
<1>7. Listed' = Listed \cup {created + 1}
  BY <1>2, <1>4, <1>6 DEF Listed
<1>8. Taken' = Taken \cup {n}
  BY <1>2, <1>6, <1>7 DEF Taken, Listed
<1>9. \A d \in Cmds : KilledBy(d)' = KilledBy(d)
  BY <1>1 DEF KilledBy
<1>10. QED
  BY <1>2, <1>6, <1>7, <1>8, <1>9

\* Without a kill and a creation the sessions stay as they are.
LEMMA QuietSessions ==
  ASSUME UNCHANGED <<name, created, killer>>
  PROVE  /\ Listed' = Listed /\ Taken' = Taken /\ Summaries' = Summaries
         /\ \A c \in Cmds : KilledBy(c)' = KilledBy(c)
BY DEF Listed, Taken, Summaries, KilledBy

\* In every step only one command changes.
LEMMA OneMoves ==
  ASSUME NEW c \in Cmds, Does(c)
  PROVE  OnlyCommand(c)
BY DEF Does, Started, ListedNow, EndedNow, PassedNow, AgainNow, CreatedNow, KilledNow,
       EmittedNow, SameCommand, Ended, Advanced

-----------------------------------------------------------------------------
(* Each part of the invariant under a step of a command.                    *)

LEMMA TypedStays ==
  ASSUME CommandsIInv, NEW c \in Cmds, Does(c)
  PROVE  CommandsTyped'
<1> USE CommandsAssumption
<1>1. CommandsTyped /\ SessionsInv /\ RoomInv /\ StandingInv
  BY DEF CommandsIInv
<1>2. command' \in [Cmds -> CommandRecord]
  BY OneMoves DEF OnlyCommand
<1>3. CASE Quiet
  BY <1>1, <1>2, <1>3 DEF Quiet, CommandsTyped, Listed
<1>4. ASSUME NEW n \in Texts, CreatedNow(c, n) PROVE CommandsTyped'
  <2>1. /\ created + 1 \in Ids /\ Listed' = Listed \cup {created + 1}
    BY <1>4, CreatesOne
  <2>2. /\ name' = [name EXCEPT ![created + 1] = n] /\ created' = created + 1
        /\ exited' = exited /\ killer' = killer /\ applied' = applied
        /\ overtaken' \in [Cmds -> BOOLEAN]
    BY <1>1, <1>4 DEF CreatedNow, Touched, CommandsTyped
  <2>3. name' \in [Ids -> Texts \cup {Nothing}]
    BY <1>1, <2>2 DEF CommandsTyped
  <2>4. created' \in 0..MaxSessions
    BY <2>1, <2>2 DEF Ids
  <2>5. exited' \subseteq Listed'
    BY <1>1, <2>1, <2>2 DEF CommandsTyped
  <2>6. QED
    BY <1>1, <1>2, <2>2, <2>3, <2>4, <2>5 DEF CommandsTyped
<1>5. CASE KilledNow(c)
  <2>1. First(c) \in Ids
    BY <1>5, KillsOne
  <2>2. /\ name' = [name EXCEPT ![First(c)] = Nothing] /\ created' = created
        /\ exited' = exited \ {First(c)} /\ applied' = applied
        /\ killer' = [killer EXCEPT ![First(c)] = c]
        /\ overtaken' \in [Cmds -> BOOLEAN]
    BY <1>1, <1>5 DEF KilledNow, Touched, CommandsTyped
  <2> DEFINE f == First(c)
  <2>3. f \in Ids /\ name' = [name EXCEPT ![f] = Nothing] /\ exited' = exited \ {f}
        /\ killer' = [killer EXCEPT ![f] = c]
    BY <2>1, <2>2
  <2> HIDE DEF f
  <2>4. name' \in [Ids -> Texts \cup {Nothing}] /\ killer' \in [Ids -> Cmds \cup {Nothing}]
    BY <1>1, <2>3 DEF CommandsTyped
  <2>5. exited' \subseteq Listed'
    BY <1>1, <2>3 DEF CommandsTyped, Listed
  <2>6. created' \in 0..MaxSessions /\ applied' \in [Cmds -> Seq(Nat)]
    BY <1>1, <2>2 DEF CommandsTyped
  <2>7. QED
    BY <1>2, <2>2, <2>4, <2>5, <2>6 DEF CommandsTyped
<1>6. CASE EmittedNow(c)
  <2>1. First(c) \in Nat
    <3>1. command[c].left # {}
      BY <1>1, <1>6 DEF EmittedNow, StandingInv, Standing
    <3>2. QED
      BY <1>1, <3>1, FirstIsLeast
  <2>2. /\ applied' = [applied EXCEPT ![c] = Append(applied[c], First(c))]
        /\ UNCHANGED <<name, exited, created, starts, faults, killer, overtaken>>
    BY <1>6 DEF EmittedNow
  <2>3. Append(applied[c], First(c)) \in Seq(Nat)
    BY <1>1, <2>1 DEF CommandsTyped
  <2>4. applied' \in [Cmds -> Seq(Nat)]
    BY <1>1, <2>2, <2>3 DEF CommandsTyped
  <2>5. QED
    BY <1>1, <1>2, <2>2, <2>4 DEF CommandsTyped, Listed
<1>7. QED
  BY <1>3, <1>4, <1>5, <1>6 DEF Does

LEMMA SessionsStay ==
  ASSUME CommandsIInv, NEW c \in Cmds, Does(c)
  PROVE  SessionsInv'
<1> USE CommandsAssumption
<1>1. CommandsTyped /\ SessionsInv
  BY DEF CommandsIInv
<1>2. CASE UNCHANGED <<name, created, killer>>
  BY <1>1, <1>2 DEF SessionsInv, Listed
<1>3. ASSUME NEW n \in Texts, CreatedNow(c, n) PROVE SessionsInv'
  <2>1. /\ created + 1 \in Ids /\ created \in Nat /\ created + 1 \notin Listed
        /\ Listed' = Listed \cup {created + 1}
        /\ name'[created + 1] = n /\ \A i \in Ids : i # created + 1 => name'[i] = name[i]
    BY <1>3, CreatesOne
  <2>2. created' = created + 1 /\ killer' = killer /\ n \notin Taken
    BY <1>3 DEF CreatedNow
  <2>3. n # Nothing
    BY DEF Texts
  <2>4. killer[created + 1] = Nothing
    <3>1. created + 1 > created
      BY <2>1
    <3>2. QED
      BY <1>1, <2>1, <3>1 DEF SessionsInv
  <2>5. ASSUME NEW i \in Ids
        PROVE  /\ i > created' => name'[i] = Nothing /\ killer'[i] = Nothing
               /\ name'[i] # Nothing => killer'[i] = Nothing
               /\ i <= created' /\ name'[i] = Nothing => killer'[i] # Nothing
    <3>1. CASE i = created + 1
      BY <2>1, <2>2, <2>3, <2>4, <3>1
    <3>2. CASE i # created + 1
      <4>1. i \in Nat
        BY DEF Ids
      <4>2. (i > created' => i > created) /\ (i <= created' => i <= created)
        BY <2>1, <2>2, <3>2, <4>1
      <4>3. name'[i] = name[i] /\ killer'[i] = killer[i]
        BY <2>1, <2>2, <3>2
      <4>4. QED
        BY <1>1, <4>2, <4>3 DEF SessionsInv
    <3>3. QED
      BY <3>1, <3>2
  <2>6. ASSUME NEW i \in Listed', NEW j \in Listed', i # j PROVE name'[i] # name'[j]
    <3>1. \A k \in Listed : k # created + 1 /\ name'[k] = name[k] /\ name[k] # n
      BY <2>1, <2>2 DEF Taken, Listed
    <3>2. QED
      BY <1>1, <2>1, <2>6, <3>1 DEF SessionsInv
  <2>7. QED
    BY <2>5, <2>6 DEF SessionsInv
<1>4. CASE KilledNow(c)
  <2>1. /\ First(c) \in Ids /\ First(c) <= created
        /\ \A i \in Listed' : i \in Listed /\ i # First(c) /\ name'[i] = name[i]
    BY <1>4, KillsOne
  <2>2. /\ created' = created /\ killer' = [killer EXCEPT ![First(c)] = c]
        /\ name' = [name EXCEPT ![First(c)] = Nothing]
    BY <1>4 DEF KilledNow
  <2>3. name'[First(c)] = Nothing /\ killer'[First(c)] = c /\ c # Nothing
    BY <1>1, <2>1, <2>2 DEF CommandsTyped
  <2>4. \A i \in Ids : i # First(c) => name'[i] = name[i] /\ killer'[i] = killer[i]
    BY <1>1, <2>1, <2>2 DEF CommandsTyped
  <2>5. ASSUME NEW i \in Ids
        PROVE  /\ i > created' => name'[i] = Nothing /\ killer'[i] = Nothing
               /\ name'[i] # Nothing => killer'[i] = Nothing
               /\ i <= created' /\ name'[i] = Nothing => killer'[i] # Nothing
    <3>1. CASE i = First(c)
      <4>1. ~ (i > created)
        <5>1. i \in Nat /\ created \in Nat
          BY <1>1 DEF Ids, CommandsTyped
        <5>2. QED
          BY <2>1, <3>1, <5>1
      <4>2. QED
        BY <2>2, <2>3, <3>1, <4>1
    <3>2. CASE i # First(c)
      <4>1. name'[i] = name[i] /\ killer'[i] = killer[i]
        BY <2>4, <3>2
      <4>2. QED
        BY <1>1, <2>2, <4>1 DEF SessionsInv
    <3>3. QED
      BY <3>1, <3>2
  <2>6. \A i, j \in Listed' : i # j => name'[i] # name'[j]
    BY <1>1, <2>1 DEF SessionsInv
  <2>7. QED
    BY <2>5, <2>6 DEF SessionsInv
<1>5. CASE EmittedNow(c)
  BY <1>2, <1>5 DEF EmittedNow
<1>6. QED
  BY <1>2, <1>3, <1>4, <1>5 DEF Does, Quiet

\* While the sessions created stay the same, a command that is not one of the openers
\* any more leaves room.
LEMMA RoomShrinks ==
  ASSUME RoomInv, created \in Nat, created' = created, Openers' \subseteq Openers
  PROVE  RoomInv'
<1>1. Cardinality(Openers') <= Cardinality(Openers) /\ Cardinality(Openers') \in Nat
  BY FiniteOpeners, FS_Subset, FS_CardinalityType
<1>2. created + Cardinality(Openers) <= MaxSessions /\ Cardinality(Openers) \in Nat
  BY FiniteOpeners DEF RoomInv
<1>3. MaxSessions \in Nat
  BY CommandsAssumption
<1>4. created + Cardinality(Openers') <= MaxSessions
  BY <1>1, <1>2, <1>3
<1>5. QED
  BY <1>4 DEF RoomInv

LEMMA RoomStays ==
  ASSUME CommandsIInv, NEW c \in Cmds, Does(c)
  PROVE  RoomInv'
<1> USE CommandsAssumption
<1>1. CommandsTyped /\ RoomInv /\ StandingInv /\ created \in Nat
  BY DEF CommandsIInv, CommandsTyped
<1>2. \A d \in Cmds : d # c => command'[d] = command[d]
  BY OneMoves DEF OnlyCommand
<1>3. CASE Started(c) /\ Quiet /\ command'[c].kind \in {"open", "new"}
  <2>1. Room /\ created' = created
    BY <1>3 DEF Started, Quiet
  <2> DEFINE Busy == {d \in Cmds : command[d].pc \in {"list", "create"}}
  <2>2. Openers' \subseteq Openers \cup {c} /\ Openers \subseteq Busy
    BY <1>2 DEF Openers
  <2>3. /\ IsFiniteSet(Openers) /\ IsFiniteSet(Openers \cup {c})
        /\ Cardinality(Openers \cup {c}) <= Cardinality(Openers) + 1
    <3>1. IsFiniteSet(Openers) /\ Cardinality(Openers) \in Nat
      BY FiniteOpeners
    <3>2. /\ IsFiniteSet(Openers \cup {c})
          /\ Cardinality(Openers \cup {c}) =
               IF c \in Openers THEN Cardinality(Openers) ELSE Cardinality(Openers) + 1
      BY <3>1, FS_AddElement
    <3>3. QED
      BY <3>1, <3>2
  <2>4. /\ Cardinality(Openers') <= Cardinality(Openers \cup {c})
        /\ Cardinality(Openers') \in Nat /\ Cardinality(Openers \cup {c}) \in Nat
    BY <2>2, <2>3, FS_Subset, FS_CardinalityType
  <2>5. Cardinality(Openers) <= Cardinality(Busy) /\ Cardinality(Busy) \in Nat
    <3>1. IsFiniteSet(Busy)
      BY FS_Subset
    <3>2. QED
      BY <2>2, <3>1, FS_Subset, FS_CardinalityType
  <2>6. created + Cardinality(Busy) < MaxSessions
    BY <2>1 DEF Room
  <2>7. Cardinality(Openers) \in Nat /\ MaxSessions \in Nat
    BY FiniteOpeners
  <2> HIDE DEF Busy
  <2>8. created + Cardinality(Openers') <= MaxSessions
    BY <1>1, <2>3, <2>4, <2>5, <2>6, <2>7
  <2>9. QED
    BY <2>1, <2>8 DEF RoomInv
<1>4. ASSUME created' = created, c \notin Openers' \/ c \in Openers PROVE RoomInv'
  <2>1. Openers' \subseteq Openers
    BY <1>2, <1>4 DEF Openers
  <2>2. QED
    BY <1>1, <1>4, <2>1, RoomShrinks
<1>5. CASE Started(c) /\ Quiet /\ command'[c].kind \notin {"open", "new"}
  BY <1>4, <1>5 DEF Quiet, Openers
<1>6. CASE ListedNow(c) /\ Quiet
  BY <1>4, <1>6 DEF ListedNow, SameCommand, Quiet, Openers
<1>7. CASE EndedNow(c) /\ Quiet
  BY <1>4, <1>7 DEF EndedNow, Ended, Quiet, Openers
<1>8. ASSUME NEW n \in Texts, CreatedNow(c, n) PROVE RoomInv'
  <2>1. /\ c \in Openers /\ Openers' \subseteq Openers \ {c} /\ created' = created + 1
    BY <1>2, <1>8 DEF CreatedNow, Openers
  <2>2. IsFiniteSet(Openers) /\ Cardinality(Openers) \in Nat
    BY FiniteOpeners
  <2>3. /\ IsFiniteSet(Openers \ {c})
        /\ Cardinality(Openers \ {c}) = Cardinality(Openers) - 1
    BY <2>1, <2>2, FS_RemoveElement
  <2>4. Cardinality(Openers') <= Cardinality(Openers \ {c}) /\ Cardinality(Openers') \in Nat
    BY <2>1, <2>3, FS_Subset, FS_CardinalityType
  <2>5. created + Cardinality(Openers) <= MaxSessions /\ MaxSessions \in Nat
    BY <1>1 DEF RoomInv
  <2>6. (created + 1) + Cardinality(Openers') <= MaxSessions
    BY <1>1, <2>2, <2>3, <2>4, <2>5
  <2>7. QED
    BY <2>1, <2>6 DEF RoomInv
<1>9. CASE KilledNow(c)
  <2>1. command'[c].kind = command[c].kind /\ command[c].kind \in {"kill", "killall"}
    BY <1>9, KillsOne DEF KilledNow, Advanced, Ended, SameCommand
  <2>2. QED
    BY <1>4, <1>9, <2>1 DEF KilledNow, Openers
<1>10. CASE EmittedNow(c)
  <2>1. command'[c].kind = command[c].kind /\ command[c].kind = "hook"
    BY <1>1, <1>10 DEF EmittedNow, Advanced, SameCommand, StandingInv, Standing
  <2>2. QED
    BY <1>4, <1>10, <2>1 DEF EmittedNow, Openers
<1>11. CASE PassedNow(c) /\ Quiet
  <2>1. command'[c].pc \in {"kill", "done"}
    BY <1>11 DEF PassedNow, Advanced
  <2>2. QED
    BY <1>4, <1>11, <2>1 DEF Quiet, Openers
<1>12. CASE AgainNow(c) /\ Quiet
  BY <1>4, <1>12 DEF AgainNow, Quiet, Openers
<1>13. QED
  BY <1>3, <1>5, <1>6, <1>7, <1>8, <1>9, <1>10, <1>11, <1>12 DEF Does

LEMMA StandingStays ==
  ASSUME CommandsIInv, NEW c \in Cmds, Does(c)
  PROVE  StandingInv'
<1> USE CommandsAssumption
<1>1. Standing(command[c]) /\ \A d \in Cmds : Standing(command[d])
  BY DEF CommandsIInv, StandingInv
<1>2. \A d \in Cmds : d # c => command'[d] = command[d]
  BY OneMoves DEF OnlyCommand
<1>3. CASE Started(c)
  BY <1>1, <1>2, <1>3 DEF Started, StandingInv
<1>4. ASSUME Standing(command'[c]) PROVE StandingInv'
  BY <1>1, <1>2, <1>4 DEF StandingInv
<1>5. CASE ListedNow(c)
  <2>1. Standing(command'[c])
    BY <1>1, <1>5 DEF ListedNow, SameCommand, Standing
  <2>2. QED
    BY <1>4, <2>1
<1>6. CASE EndedNow(c)
  <2>1. Standing(command'[c])
    BY <1>1, <1>6 DEF EndedNow, Ended, SameCommand, Standing
  <2>2. QED
    BY <1>4, <2>1
<1>7. ASSUME NEW n \in Texts, CreatedNow(c, n) PROVE StandingInv'
  <2>1. Standing(command'[c])
    BY <1>1, <1>7 DEF CreatedNow, SameCommand, Standing
  <2>2. QED
    BY <1>4, <2>1
<1>8. CASE Advanced(c) /\ command[c].pc \in {"kill", "emit"}
  <2>1. Standing(command'[c])
    BY <1>1, <1>8 DEF Advanced, SameCommand, Standing
  <2>2. QED
    BY <1>4, <2>1
<1>9. CASE AgainNow(c)
  <2>1. Standing(command'[c])
    BY <1>1, <1>9 DEF AgainNow, SameCommand, Standing
  <2>2. QED
    BY <1>4, <2>1
<1>10. CASE KilledNow(c)
  BY <1>6, <1>8, <1>10 DEF KilledNow, EndedNow
<1>11. QED
  BY <1>3, <1>5, <1>6, <1>7, <1>8, <1>9, <1>10 DEF Does, PassedNow, EmittedNow

\* A command of another kind removes nothing, and no kill removes before it has listed.
LEMMA OthersStay ==
  ASSUME CommandsIInv, NEW c \in Cmds, Does(c)
  PROVE  OthersKillNothing'
<1> USE CommandsAssumption
<1>1. OthersKillNothing /\ Standing(command[c])
  BY DEF CommandsIInv, StandingInv
<1>2. \A d \in Cmds : d # c => command'[d] = command[d]
  BY OneMoves DEF OnlyCommand
<1>3. ASSUME \A d \in Cmds : KilledBy(d)' = KilledBy(d),
             command[c].kind \notin {"kill", "killall"} \/ command[c].pc \in {"idle", "list"}
               \/ (command'[c].kind = command[c].kind /\ command'[c].pc \notin {"idle", "list"})
      PROVE  OthersKillNothing'
  <2>1. command'[c].kind \notin {"kill", "killall"} \/ command'[c].pc \in {"idle", "list"} =>
          KilledBy(c) = {}
    BY <1>1, <1>3 DEF OthersKillNothing
  <2>2. \A d \in Cmds :
          command'[d].kind \notin {"kill", "killall"} \/ command'[d].pc \in {"idle", "list"} =>
            KilledBy(d) = {}
    BY <1>1, <1>2, <2>1 DEF OthersKillNothing
  <2>3. QED
    BY <1>3, <2>2 DEF OthersKillNothing
<1>4. CASE Started(c) /\ Quiet
  BY <1>3, <1>4, QuietSessions DEF Started, Quiet
<1>5. CASE ListedNow(c) /\ Quiet
  BY <1>3, <1>5, QuietSessions DEF ListedNow, Quiet
<1>6. CASE EndedNow(c) /\ Quiet
  BY <1>3, <1>6, QuietSessions DEF EndedNow, Ended, SameCommand, Quiet
<1>7. ASSUME NEW n \in Texts, CreatedNow(c, n) PROVE OthersKillNothing'
  BY <1>3, <1>7, CreatesOne DEF CreatedNow
<1>8. CASE KilledNow(c)
  <2>1. command'[c].kind = command[c].kind /\ command[c].kind \in {"kill", "killall"}
    BY <1>8, KillsOne DEF KilledNow, Advanced, Ended, SameCommand
  <2>2. command'[c].pc \in {"kill", "done"}
    BY <1>8 DEF KilledNow, Advanced, Ended
  <2>3. \A d \in Cmds : d # c => KilledBy(d)' = KilledBy(d)
    BY <1>8, KillsOne
  <2>4. QED
    BY <1>1, <1>2, <2>1, <2>2, <2>3 DEF OthersKillNothing
<1>9. CASE EmittedNow(c)
  <2>1. UNCHANGED <<name, created, killer>> /\ command[c].kind = "hook"
    BY <1>1, <1>9 DEF EmittedNow, Standing
  <2>2. QED
    BY <1>3, <2>1, QuietSessions
<1>10. CASE PassedNow(c) /\ Quiet
  BY <1>3, <1>10, QuietSessions DEF PassedNow, Advanced, SameCommand, Quiet
<1>11. CASE AgainNow(c) /\ Quiet
  BY <1>3, <1>11, QuietSessions DEF AgainNow, SameCommand, Quiet
<1>12. QED
  BY <1>4, <1>5, <1>6, <1>7, <1>8, <1>9, <1>10, <1>11 DEF Does

\* A session that is gone does not come back: its id is not given again.
LEMMA GoneStays ==
  ASSUME CommandsIInv, NEW c \in Cmds, Does(c)
  PROVE  /\ 1..created \subseteq 1..created'
         /\ \A i \in 1..created : i \notin Listed => i \notin Listed'
<1>1. created \in Nat
  BY DEF CommandsIInv, CommandsTyped
<1>2. CASE UNCHANGED <<name, created>>
  BY <1>2 DEF Listed
<1>3. ASSUME NEW n \in Texts, CreatedNow(c, n)
      PROVE  created' = created + 1 /\ Listed' = Listed \cup {created + 1}
  BY <1>3, CreatesOne DEF CreatedNow
<1>4. ASSUME KilledNow(c)
      PROVE  created' = created /\ Listed' \subseteq Listed
  BY <1>4, KillsOne DEF KilledNow
<1>5. QED
  BY <1>1, <1>2, <1>3, <1>4 DEF Does, Quiet, EmittedNow

\* What a command killed, another command's step leaves alone.
LEMMA OthersKills ==
  ASSUME CommandsIInv, NEW c \in Cmds, Does(c), NEW d \in Cmds, d # c
  PROVE  KilledBy(d)' = KilledBy(d)
<1>1. UNCHANGED killer => KilledBy(d)' = KilledBy(d)
  BY DEF KilledBy
<1>2. KilledNow(c) => KilledBy(d)' = KilledBy(d)
  BY KillsOne
<1>3. UNCHANGED killer \/ KilledNow(c)
  BY DEF Does, Quiet, CreatedNow, EmittedNow
<1>4. QED
  BY <1>1, <1>2, <1>3

\* The sessions listed are among those created.
LEMMA ListedAreCreated ==
  ASSUME CommandsTyped, SessionsInv
  PROVE  Listed \subseteq 1..created
<1>1. ASSUME NEW i \in Listed PROVE i \in 1..created
  <2>1. i \in Ids /\ name[i] # Nothing
    BY DEF Listed
  <2>2. ~ (i > created)
    BY <2>1 DEF SessionsInv
  <2>3. i \in Nat /\ i >= 1 /\ created \in Nat
    BY <2>1 DEF Ids, CommandsTyped
  <2>4. QED
    BY <2>2, <2>3
<1>2. QED
  BY <1>1

\* What a kill of one session says of one command.
KillsAsResolved(c) ==
  command[c].kind = "kill" /\ command[c].pc \in {"kill", "done"} =>
    /\ command[c].left \cup KilledBy(c) \subseteq Resolve(command[c].list, command[c].ref)
    /\ \A i, j \in command[c].left \cup KilledBy(c) : i = j
    /\ command[c].left \subseteq 1..created
    /\ Done(c, "ok") =>
         \E i \in Resolve(command[c].list, command[c].ref) : i \in 1..created /\ i \notin Listed
    /\ Done(c, "error") => faults \/ Resolve(command[c].list, command[c].ref) = {}

LEMMA KillStays ==
  ASSUME CommandsIInv, NEW c \in Cmds, Does(c)
  PROVE  KillInv'
<1> USE CommandsAssumption
<1>1. /\ CommandsTyped /\ SessionsInv /\ OthersKillNothing /\ Standing(command[c])
      /\ \A d \in Cmds : KillsAsResolved(d)
  BY DEF CommandsIInv, StandingInv, KillInv, KillsAsResolved
<1>2. \A d \in Cmds : d # c => command'[d] = command[d]
  BY OneMoves DEF OnlyCommand
<1>3. starts' = starts /\ faults' = faults
  BY DEF Does, Quiet, CreatedNow, KilledNow, EmittedNow
<1>4. /\ 1..created \subseteq 1..created'
      /\ \A i \in 1..created : i \notin Listed => i \notin Listed'
  BY GoneStays
<1>5. ASSUME NEW d \in Cmds, d # c PROVE KillsAsResolved(d)'
  <2>1. KillsAsResolved(d) /\ KilledBy(d)' = KilledBy(d) /\ command'[d] = command[d]
    BY <1>1, <1>2, <1>5, OthersKills
  <2>2. Resolve(command[d].list, command[d].ref)' = Resolve(command[d].list, command[d].ref)
    BY <1>3, <2>1 DEF Resolve, IdIs, NameIs, IdStarts
  <2>3. SUFFICES ASSUME command[d].kind = "kill", command[d].pc \in {"kill", "done"}
                 PROVE  KillsAsResolved(d)'
    BY <2>1 DEF KillsAsResolved
  <2>4. /\ (Done(d, "ok")' => Done(d, "ok")) /\ (Done(d, "error")' => Done(d, "error"))
    BY <2>1 DEF Done
  <2>5. QED
    BY <1>3, <1>4, <2>1, <2>2, <2>3, <2>4 DEF KillsAsResolved
\* The command goes on with the list it has.
<1>6. ASSUME command[c].kind = "kill", command[c].pc = "kill",
             command'[c].kind = "kill", command'[c].list = command[c].list,
             command'[c].ref = command[c].ref
      PROVE  /\ KillsAsResolved(c) /\ command[c].left # {}
             /\ Resolve(command[c].list, command[c].ref)' = Resolve(command[c].list, command[c].ref)
             /\ First(c) \in command[c].left /\ First(c) \in 1..created
             /\ First(c) \in Resolve(command[c].list, command[c].ref)
             /\ \A i \in command[c].left : i = First(c)
  <2>1. KillsAsResolved(c) /\ command[c].left # {}
    BY <1>1, <1>6 DEF Standing
  <2>2. First(c) \in command[c].left
    BY <1>1, <2>1, FirstIsLeast
  <2>3. QED
    BY <1>3, <1>6, <2>1, <2>2 DEF KillsAsResolved, Resolve, IdIs, NameIs, IdStarts
<1>7. KillsAsResolved(c)'
  <2>1. CASE command'[c].kind # "kill"
    BY <2>1 DEF KillsAsResolved
  <2>2. CASE Started(c)
    BY <2>2 DEF Started, KillsAsResolved
  <2>3. CASE ListedNow(c) /\ Quiet /\ command'[c].kind = "kill"
    <3>1. KilledBy(c)' = {} /\ created' = created
      BY <1>1, <2>3, QuietSessions DEF ListedNow, OthersKillNothing, Quiet
    <3>2. /\ command'[c].left \subseteq Resolve(Summaries, command[c].ref)
          /\ \A i, j \in command'[c].left : i = j
          /\ command'[c].list = Summaries /\ command'[c].ref = command[c].ref
          /\ command'[c].left = {} => Resolve(Summaries, command[c].ref) = {}
          /\ command'[c].left # {} => command'[c].pc = "kill"
          /\ command'[c].left = {} => command'[c].result = "error"
          /\ command'[c].left \subseteq Listed
      BY <2>3 DEF ListedNow, SameCommand
    <3>3. Resolve(command[c].list, command[c].ref)' = Resolve(Summaries, command[c].ref)
      BY <1>3, <3>2 DEF Resolve, IdIs, NameIs, IdStarts
    <3>4. command'[c].left \subseteq 1..created'
      BY <1>1, <3>1, <3>2, ListedAreCreated
    <3>5. ~Done(c, "ok")' /\ (Done(c, "error")' => command'[c].left = {})
      BY <3>2 DEF Done
    <3>6. QED
      BY <3>1, <3>2, <3>3, <3>4, <3>5 DEF KillsAsResolved
  <2>4. CASE EndedNow(c) /\ Quiet /\ command'[c].kind = "kill"
    <3>1. /\ command[c].kind = "kill" /\ command[c].pc = "kill" /\ faults
          /\ command'[c].left = command[c].left /\ command'[c].list = command[c].list
          /\ command'[c].ref = command[c].ref /\ command'[c].result = "error"
      BY <1>1, <2>4 DEF EndedNow, Ended, SameCommand, Standing
    <3>2. KilledBy(c)' = KilledBy(c) /\ created' = created
      BY <2>4, QuietSessions DEF Quiet
    <3>3. /\ KillsAsResolved(c)
          /\ Resolve(command[c].list, command[c].ref)' = Resolve(command[c].list, command[c].ref)
      BY <1>6, <2>4, <3>1
    <3>4. ~Done(c, "ok")' /\ faults'
      BY <1>3, <3>1 DEF Done
    <3>5. QED
      BY <3>1, <3>2, <3>3, <3>4 DEF KillsAsResolved
  <2>5. CASE PassedNow(c) /\ Quiet /\ command'[c].kind = "kill"
    <3>1. /\ command[c].kind = "kill" /\ command[c].pc = "kill" /\ First(c) \notin Listed
          /\ command'[c].left = command[c].left \ {First(c)}
          /\ command'[c].list = command[c].list /\ command'[c].ref = command[c].ref
          /\ command'[c].left = {} => command'[c].result = "ok"
      BY <2>5 DEF PassedNow, Advanced, SameCommand
    <3>2. KilledBy(c)' = KilledBy(c) /\ created' = created /\ Listed' = Listed
      BY <2>5, QuietSessions DEF Quiet
    <3>3. /\ KillsAsResolved(c) /\ \A i \in command[c].left : i = First(c)
          /\ Resolve(command[c].list, command[c].ref)' = Resolve(command[c].list, command[c].ref)
          /\ First(c) \in 1..created /\ First(c) \in Resolve(command[c].list, command[c].ref)
      BY <1>6, <2>5, <3>1
    <3>4. ~Done(c, "error")'
      BY <3>1, <3>3 DEF Done
    <3>5. QED
      BY <3>1, <3>2, <3>3, <3>4 DEF KillsAsResolved
  <2>6. CASE KilledNow(c) /\ command'[c].kind = "kill"
    <3>1. /\ command[c].kind = "kill" /\ command[c].pc = "kill" /\ created' = created
          /\ command'[c].left \subseteq command[c].left
          /\ command'[c].list = command[c].list /\ command'[c].ref = command[c].ref
          /\ command'[c].left = command[c].left \ {First(c)} \/ faults
      BY <2>6 DEF KilledNow, Advanced, Ended, SameCommand
    <3>2. KilledBy(c)' = KilledBy(c) \cup {First(c)} /\ First(c) \notin Listed'
      BY <2>6, KillsOne
    <3>3. /\ KillsAsResolved(c) /\ \A i \in command[c].left : i = First(c)
          /\ Resolve(command[c].list, command[c].ref)' = Resolve(command[c].list, command[c].ref)
          /\ First(c) \in 1..created /\ First(c) \in Resolve(command[c].list, command[c].ref)
          /\ First(c) \in command[c].left
      BY <1>6, <2>6, <3>1
    <3>4. command'[c].left \cup KilledBy(c)' \subseteq command[c].left \cup KilledBy(c)
      BY <3>1, <3>2, <3>3
    <3>5. Done(c, "error")' => faults'
      <4>1. CASE Advanced(c)
        BY <3>1, <3>3, <4>1 DEF Advanced, Done
      <4>2. CASE faults
        BY <1>3, <4>2
      <4>3. QED
        BY <2>6, <4>1, <4>2 DEF KilledNow
    <3>6. QED
      BY <3>1, <3>2, <3>3, <3>4, <3>5 DEF KillsAsResolved
  <2>7. CASE (\E n \in Texts : CreatedNow(c, n)) \/ EmittedNow(c) \/ AgainNow(c)
    BY <1>1, <2>1, <2>7 DEF CreatedNow, EmittedNow, AgainNow, Advanced, SameCommand, Standing
  <2>8. QED
    BY <2>1, <2>2, <2>3, <2>4, <2>5, <2>6, <2>7 DEF Does
<1>8. \A d \in Cmds : KillsAsResolved(d)'
  BY <1>5, <1>7
<1>9. QED
  BY <1>8 DEF KillInv, KillsAsResolved

\* What kill-all says of one command.
KillsAllListed(c) ==
  command[c].kind = "killall" /\ command[c].pc \in {"kill", "done"} =>
    /\ command[c].left \cup KilledBy(c) \subseteq DOMAIN command[c].list
    /\ DOMAIN command[c].list \subseteq 1..created
    /\ \A i \in DOMAIN command[c].list \ command[c].left :
         i \notin Listed /\ \A j \in command[c].left : i < j
    /\ \A i \in KilledBy(c) \cap command[c].left : Done(c, "error") /\ i = First(c)
    /\ Done(c, "error") => faults /\ command[c].left # {}

LEMMA KillAllStays ==
  ASSUME CommandsIInv, NEW c \in Cmds, Does(c)
  PROVE  KillAllInv'
<1> USE CommandsAssumption
<1>1. /\ CommandsTyped /\ SessionsInv /\ OthersKillNothing /\ Standing(command[c])
      /\ \A d \in Cmds : KillsAllListed(d)
  BY DEF CommandsIInv, StandingInv, KillAllInv, KillsAllListed
<1>2. \A d \in Cmds : d # c => command'[d] = command[d]
  BY OneMoves DEF OnlyCommand
<1>3. faults' = faults
  BY DEF Does, Quiet, CreatedNow, KilledNow, EmittedNow
<1>4. /\ 1..created \subseteq 1..created'
      /\ \A i \in 1..created : i \notin Listed => i \notin Listed'
  BY GoneStays
<1>5. ASSUME NEW d \in Cmds, d # c PROVE KillsAllListed(d)'
  <2>1. KillsAllListed(d) /\ KilledBy(d)' = KilledBy(d) /\ command'[d] = command[d]
    BY <1>1, <1>2, <1>5, OthersKills
  <2>2. First(d)' = First(d) /\ (Done(d, "error")' <=> Done(d, "error"))
    BY <2>1 DEF First, Done
  <2>3. SUFFICES ASSUME command[d].kind = "killall", command[d].pc \in {"kill", "done"}
                 PROVE  KillsAllListed(d)'
    BY <2>1 DEF KillsAllListed
  <2>4. DOMAIN command[d].list \subseteq 1..created
    BY <2>1, <2>3 DEF KillsAllListed
  <2>5. QED
    BY <1>3, <1>4, <2>1, <2>2, <2>3, <2>4 DEF KillsAllListed
\* The command goes on with the list it has.
<1>6. ASSUME command[c].kind = "killall", command[c].pc = "kill"
      PROVE  /\ command[c].left \cup KilledBy(c) \subseteq DOMAIN command[c].list
             /\ DOMAIN command[c].list \subseteq 1..created
             /\ \A i \in DOMAIN command[c].list \ command[c].left :
                  i \notin Listed /\ \A j \in command[c].left : i < j
             /\ KilledBy(c) \cap command[c].left = {} /\ command[c].left # {}
             /\ First(c) \in command[c].left
             /\ \A j \in command[c].left : j # First(c) => First(c) < j
  <2>1. KillsAllListed(c) /\ command[c].left # {} /\ ~Done(c, "error")
    BY <1>1, <1>6 DEF Standing, Done
  <2>2. /\ First(c) \in command[c].left /\ First(c) \in Nat
        /\ \A j \in command[c].left : First(c) <= j
    BY <1>1, <2>1, FirstIsLeast
  <2>3. \A j \in command[c].left : j # First(c) => First(c) < j
    <3>1. command[c].left \subseteq Nat
      BY <1>1 DEF CommandsTyped, CommandRecord
    <3>2. QED
      BY <2>2, <3>1
  <2>4. QED
    BY <1>6, <2>1, <2>2, <2>3 DEF KillsAllListed
\* It is done with the first session it has left, which is gone.
<1>7. ASSUME command[c].kind = "killall", command[c].pc = "kill", Advanced(c),
             First(c) \notin Listed', KilledBy(c)' \subseteq KilledBy(c) \cup {First(c)}
      PROVE  KillsAllListed(c)'
  <2>1. /\ command'[c].left = command[c].left \ {First(c)}
        /\ command'[c].list = command[c].list
    BY <1>7 DEF Advanced
  <2>2. /\ command'[c].left \cup KilledBy(c)' \subseteq DOMAIN command'[c].list
        /\ KilledBy(c)' \cap command'[c].left = {}
    BY <1>6, <1>7, <2>1
  <2>3. DOMAIN command'[c].list \subseteq 1..created'
    BY <1>4, <1>6, <1>7, <2>1
  <2>4. ASSUME NEW i \in DOMAIN command'[c].list \ command'[c].left
        PROVE  i \notin Listed' /\ \A j \in command'[c].left : i < j
    <3>1. CASE i = First(c)
      BY <1>6, <1>7, <2>1, <3>1
    <3>2. CASE i # First(c)
      <4>1. i \in DOMAIN command[c].list \ command[c].left
        BY <2>1, <2>4, <3>2
      <4>2. QED
        BY <1>4, <1>6, <1>7, <2>1, <4>1
    <3>3. QED
      BY <3>1, <3>2
  <2>5. ~Done(c, "error")'
    <3>1. command'[c].left = {} => command'[c].result = "ok"
      BY <1>7 DEF Advanced
    <3>2. command'[c].left # {} => command'[c].pc = "kill"
      BY <1>7 DEF Advanced
    <3>3. QED
      BY <3>1, <3>2 DEF Done
  <2>6. QED
    BY <2>2, <2>3, <2>4, <2>5 DEF KillsAllListed
\* It stops there.
<1>8. ASSUME command[c].kind = "killall", command[c].pc = "kill", Ended(c, "error"), faults,
             KilledBy(c)' \subseteq KilledBy(c) \cup {First(c)}
      PROVE  KillsAllListed(c)'
  <2>1. /\ command'[c].left = command[c].left /\ command'[c].list = command[c].list
        /\ Done(c, "error")'
    BY <1>8 DEF Ended, Done
  <2>2. First(c)' = First(c)
    BY <2>1 DEF First
  <2>3. /\ command'[c].left \cup KilledBy(c)' \subseteq DOMAIN command'[c].list
        /\ \A i \in KilledBy(c)' \cap command'[c].left : i = First(c)'
        /\ command'[c].left # {}
    BY <1>6, <1>8, <2>1, <2>2
  <2>4. DOMAIN command'[c].list \subseteq 1..created'
    BY <1>4, <1>6, <1>8, <2>1
  <2>5. \A i \in DOMAIN command'[c].list \ command'[c].left :
          i \notin Listed' /\ \A j \in command'[c].left : i < j
    BY <1>4, <1>6, <1>8, <2>1
  <2>6. QED
    BY <1>3, <1>8, <2>1, <2>3, <2>4, <2>5 DEF KillsAllListed
<1>9. KillsAllListed(c)'
  <2>1. CASE command'[c].kind # "killall"
    BY <2>1 DEF KillsAllListed
  <2>2. CASE Started(c)
    BY <2>2 DEF Started, KillsAllListed
  <2>3. CASE ListedNow(c) /\ Quiet /\ command'[c].kind = "killall"
    <3>1. KilledBy(c)' = {} /\ created' = created
      BY <1>1, <2>3, QuietSessions DEF ListedNow, OthersKillNothing, Quiet
    <3>2. /\ command'[c].left = Listed /\ command'[c].list = Summaries
          /\ command'[c].result # "error"
      BY <2>3 DEF ListedNow, SameCommand
    <3>3. DOMAIN Summaries = Listed
      BY DEF Summaries
    <3>4. Listed \subseteq 1..created
      BY <1>1, ListedAreCreated
    <3>5. QED
      BY <3>1, <3>2, <3>3, <3>4 DEF KillsAllListed, Done
  <2>4. CASE EndedNow(c) /\ Quiet /\ command'[c].kind = "killall"
    <3>1. /\ command[c].kind = "killall" /\ command[c].pc = "kill" /\ faults
          /\ Ended(c, "error")
      BY <1>1, <2>4 DEF EndedNow, Ended, SameCommand, Standing
    <3>2. KilledBy(c)' = KilledBy(c)
      BY <2>4, QuietSessions DEF Quiet
    <3>3. QED
      BY <1>8, <3>1, <3>2
  <2>5. CASE PassedNow(c) /\ Quiet /\ command'[c].kind = "killall"
    <3>1. command[c].kind = "killall" /\ command[c].pc = "kill" /\ Advanced(c)
      BY <2>5 DEF PassedNow, Advanced, SameCommand
    <3>2. KilledBy(c)' = KilledBy(c) /\ First(c) \notin Listed'
      BY <2>5, QuietSessions DEF Quiet, PassedNow
    <3>3. QED
      BY <1>7, <3>1, <3>2
  <2>6. CASE KilledNow(c) /\ command'[c].kind = "killall"
    <3>1. command[c].kind = "killall" /\ command[c].pc = "kill"
      BY <2>6 DEF KilledNow, Advanced, Ended, SameCommand
    <3>2. KilledBy(c)' = KilledBy(c) \cup {First(c)} /\ First(c) \notin Listed'
      BY <2>6, KillsOne
    <3>3. QED
      BY <1>7, <1>8, <2>6, <3>1, <3>2 DEF KilledNow
  <2>7. CASE (\E n \in Texts : CreatedNow(c, n)) \/ EmittedNow(c) \/ AgainNow(c)
    BY <1>1, <2>1, <2>7 DEF CreatedNow, EmittedNow, AgainNow, Advanced, SameCommand, Standing
  <2>8. QED
    BY <2>1, <2>2, <2>3, <2>4, <2>5, <2>6, <2>7 DEF Does
<1>10. \A d \in Cmds : KillsAllListed(d)'
  BY <1>5, <1>9
<1>11. QED
  BY <1>10 DEF KillAllInv, KillsAllListed

\* What opening a name says of one command.
OpensIts(c) ==
  command[c].kind = "open" /\ ~overtaken[c] =>
    /\ command[c].pc = "create" => command[c].ref \notin Taken
    /\ command[c].pc \in {"again", "attach"} =>
         \A i \in command[c].left : i \in Listed /\ name[i] = command[c].ref
    /\ ~Done(c, "error")

LEMMA OpenStays ==
  ASSUME CommandsIInv, NEW c \in Cmds, Does(c)
  PROVE  OpenInv'
<1> USE CommandsAssumption
<1>1. /\ CommandsTyped /\ SessionsInv /\ StandingInv /\ Standing(command[c])
      /\ \A d \in Cmds : OpensIts(d)
  BY DEF CommandsIInv, StandingInv, OpenInv, OpensIts
<1>2. \A d \in Cmds : d # c => command'[d] = command[d]
  BY OneMoves DEF OnlyCommand
<1>3. ASSUME UNCHANGED <<name, created, killer, overtaken>>, NEW d \in Cmds,
             command'[d] = command[d]
      PROVE  OpensIts(d)'
  BY <1>1, <1>3, QuietSessions DEF OpensIts, Done
\* Another command gives the name n to a session, or takes it from one.
<1>4. ASSUME NEW n, Touched(c, n), NEW d \in Cmds, d # c,
             \A m : m # n => (m \in Taken' => m \in Taken),
             \A i \in Listed : name[i] # n => i \in Listed' /\ name'[i] = name[i]
      PROVE  OpensIts(d)'
  <2>1. SUFFICES ASSUME command[d].kind = "open", ~overtaken'[d]
                 PROVE  /\ command[d].pc = "create" => command[d].ref \notin Taken'
                        /\ command[d].pc \in {"again", "attach"} =>
                             \A i \in command[d].left : i \in Listed' /\ name'[i] = command[d].ref
                        /\ ~Done(d, "error")
    BY <1>2, <1>4 DEF OpensIts, Done
  <2>2. ~overtaken[d] /\ (command[d].pc \in {"create", "again", "attach"} => command[d].ref # n)
    BY <1>4, <2>1 DEF Touched
  <2>3. OpensIts(d)
    BY <1>1
  <2>4. QED
    BY <1>4, <2>1, <2>2, <2>3 DEF OpensIts
<1>5. CASE Started(c) /\ Quiet
  <2>1. OpensIts(c)'
    BY <1>5 DEF Started, Standing, OpensIts, Done
  <2>2. \A d \in Cmds : OpensIts(d)'
    BY <1>2, <1>3, <1>5, <2>1 DEF Quiet
  <2>3. QED
    BY <2>2 DEF OpenInv, OpensIts
<1>6. CASE ListedNow(c) /\ Quiet
  <2>1. OpensIts(c)'
    <3>1. SUFFICES ASSUME command'[c].kind = "open"
                   PROVE  /\ command'[c].pc = "create" => command'[c].ref \notin Taken
                          /\ command'[c].pc \in {"again", "attach"} => \A i \in command'[c].left :
                                i \in Listed /\ name[i] = command'[c].ref
                          /\ command'[c].result = Nothing
      BY <1>6, QuietSessions DEF OpensIts, Done, Quiet
    <3>2. /\ command[c].kind = "open" /\ command'[c].ref = command[c].ref
          /\ command'[c].left \subseteq NameIs(Summaries, command[c].ref)
          /\ command'[c].left = {} => NameIs(Summaries, command[c].ref) = {}
          /\ command'[c].result = Nothing
          /\ command'[c].pc = "create" => command'[c].left = {}
      BY <1>6, <3>1 DEF ListedNow, SameCommand
    <3>3. \A n : NameIs(Summaries, n) = {i \in Listed : name[i] = n}
      BY DEF NameIs, Summaries
    <3>4. QED
      BY <3>2, <3>3 DEF Taken
  <2>2. \A d \in Cmds : OpensIts(d)'
    BY <1>2, <1>3, <1>6, <2>1 DEF Quiet
  <2>3. QED
    BY <2>2 DEF OpenInv, OpensIts
<1>7. CASE EndedNow(c) /\ Quiet
  <2>1. OpensIts(c)'
    <3>1. SUFFICES ASSUME command'[c].kind = "open", ~overtaken[c]
                   PROVE  command'[c].pc = "done" /\ command'[c].result # "error"
      BY <1>7 DEF OpensIts, Done, Quiet
    <3>2. command[c].kind = "open" /\ command'[c].pc = "done" /\ OpensIts(c)
      BY <1>1, <1>7, <3>1 DEF EndedNow, Ended, SameCommand
    <3>3. CASE command[c].pc \in {"again", "attach"}
      <4>1. command[c].left # {}
        BY <1>1, <3>3 DEF Standing
      <4>2. First(c) \in Listed
        BY <1>1, <3>1, <3>2, <3>3, <4>1, FirstIsLeast DEF OpensIts
      <4>3. QED
        BY <1>7, <3>2, <3>3, <4>2 DEF EndedNow, Ended
    <3>4. CASE command[c].pc \notin {"again", "attach"}
      BY <1>1, <1>7, <3>1, <3>2, <3>4 DEF EndedNow, Standing, OpensIts
    <3>5. QED
      BY <3>3, <3>4
  <2>2. \A d \in Cmds : OpensIts(d)'
    BY <1>2, <1>3, <1>7, <2>1 DEF Quiet
  <2>3. QED
    BY <2>2 DEF OpenInv, OpensIts
<1>8. ASSUME NEW n \in Texts, CreatedNow(c, n) PROVE OpenInv'
  <2>1. /\ created + 1 \notin Listed /\ Listed' = Listed \cup {created + 1}
        /\ name'[created + 1] = n /\ \A i \in Ids : i # created + 1 => name'[i] = name[i]
        /\ Taken' = Taken \cup {n}
    BY <1>8, CreatesOne
  <2>2. Touched(c, n)
    BY <1>8 DEF CreatedNow
  <2>3. \A i \in Listed : i \in Listed' /\ name'[i] = name[i]
    BY <2>1 DEF Listed
  <2>4. \A d \in Cmds : d # c => OpensIts(d)'
    BY <1>4, <2>1, <2>2, <2>3
  <2>5. OpensIts(c)'
    <3>1. SUFFICES ASSUME command'[c].kind = "open"
                   PROVE  /\ command'[c].pc = "again" /\ command'[c].left = {created + 1}
                          /\ command'[c].ref = n
      BY <2>1, <3>1 DEF OpensIts, Done
    <3>2. QED
      BY <1>8, <3>1 DEF CreatedNow, SameCommand
  <2>6. \A d \in Cmds : OpensIts(d)'
    BY <2>4, <2>5
  <2>7. QED
    BY <2>6 DEF OpenInv, OpensIts
<1>9. CASE KilledNow(c)
  <2>1. /\ \A i \in Listed' : i \in Listed /\ i # First(c) /\ name'[i] = name[i]
        /\ First(c) \in Listed /\ Touched(c, name[First(c)])
        /\ command'[c].kind = command[c].kind /\ command[c].kind \in {"kill", "killall"}
    BY <1>9, KillsOne DEF KilledNow, Advanced, Ended, SameCommand
  <2>2. \A m : m \in Taken' => m \in Taken
    BY <2>1 DEF Taken
  <2>3. \A i \in Listed : i # First(c) => i \in Listed' /\ name'[i] = name[i]
    BY <1>1, <1>9 DEF KilledNow, Listed, CommandsTyped
  <2>4. \A i \in Listed : name[i] # name[First(c)] => i \in Listed' /\ name'[i] = name[i]
    BY <2>3
  <2>5. \A d \in Cmds : d # c => OpensIts(d)'
    BY <1>4, <2>1, <2>2, <2>4
  <2>6. OpensIts(c)'
    BY <2>1 DEF OpensIts
  <2>7. \A d \in Cmds : OpensIts(d)'
    BY <2>5, <2>6
  <2>8. QED
    BY <2>7 DEF OpenInv, OpensIts
<1>10. CASE EmittedNow(c)
  <2>1. OpensIts(c)' /\ UNCHANGED <<name, created, killer, overtaken>>
    BY <1>1, <1>10 DEF EmittedNow, Advanced, SameCommand, Standing, OpensIts
  <2>2. \A d \in Cmds : OpensIts(d)'
    BY <1>2, <1>3, <2>1
  <2>3. QED
    BY <2>2 DEF OpenInv, OpensIts
<1>11. CASE (PassedNow(c) \/ AgainNow(c)) /\ Quiet
  <2>1. OpensIts(c)'
    <3>1. CASE PassedNow(c)
      BY <1>1, <3>1 DEF PassedNow, Advanced, SameCommand, Standing, OpensIts
    <3>2. CASE AgainNow(c)
      BY <1>1, <1>11, <3>2, QuietSessions DEF AgainNow, SameCommand, OpensIts, Done, Quiet
    <3>3. QED
      BY <1>11, <3>1, <3>2
  <2>2. \A d \in Cmds : OpensIts(d)'
    BY <1>2, <1>3, <1>11, <2>1 DEF Quiet
  <2>3. QED
    BY <2>2 DEF OpenInv, OpensIts
<1>12. QED
  BY <1>5, <1>6, <1>7, <1>8, <1>9, <1>10, <1>11 DEF Does

\* What a hook says of one command.
HooksInOrder(c) ==
  /\ command[c].kind # "hook" => applied[c] = <<>>
  /\ command[c].kind = "hook" =>
       /\ \A k, l \in DOMAIN applied[c] : k < l => applied[c][k] < applied[c][l]
       /\ ToSet(applied[c]) \cup command[c].left = codex_states(command[c].list)
       /\ \A i \in ToSet(applied[c]), j \in command[c].left : i < j
       /\ Done(c, "ok") => ToSet(applied[c]) # {}
       /\ Done(c, "error") => command[c].left # {} \/ codex_states(command[c].list) = {}

\* An ascending sequence stays ascending when a greater element follows.
LEMMA AscendingAppend ==
  ASSUME NEW s \in Seq(Nat), NEW x \in Nat,
         \A k, l \in DOMAIN s : k < l => s[k] < s[l], \A i \in ToSet(s) : i < x
  PROVE  /\ \A k, l \in DOMAIN Append(s, x) : k < l => Append(s, x)[k] < Append(s, x)[l]
         /\ ToSet(Append(s, x)) = ToSet(s) \cup {x}
<1>1. /\ DOMAIN s = 1..Len(s) /\ Len(s) \in Nat /\ DOMAIN Append(s, x) = 1..(Len(s) + 1)
      /\ Append(s, x)[Len(s) + 1] = x /\ \A k \in 1..Len(s) : Append(s, x)[k] = s[k]
  OBVIOUS
<1> DEFINE t == Append(s, x)
           n == Len(s)
<1>2. /\ DOMAIN s = 1..n /\ n \in Nat /\ DOMAIN t = 1..(n + 1) /\ t[n + 1] = x
      /\ \A k \in 1..n : t[k] = s[k]
  BY <1>1
<1> HIDE DEF t, n
<1>3. \A k \in 1..n : s[k] < x
  BY <1>2 DEF ToSet
<1>4. ASSUME NEW k \in 1..(n + 1), NEW l \in 1..(n + 1), k < l PROVE t[k] < t[l]
  <2>1. k \in 1..n
    BY <1>2, <1>4
  <2>2. CASE l = n + 1
    BY <1>2, <1>3, <2>1, <2>2
  <2>3. CASE l # n + 1
    <3>1. l \in 1..n
      BY <1>2, <2>3
    <3>2. QED
      BY <1>2, <1>4, <2>1, <3>1
  <2>4. QED
    BY <2>2, <2>3
<1>5. ToSet(t) = ToSet(s) \cup {x}
  <2>1. 1..(n + 1) = (1..n) \cup {n + 1}
    BY <1>2
  <2>2. QED
    BY <1>2, <2>1 DEF ToSet
<1>6. QED
  BY <1>2, <1>4, <1>5 DEF t

LEMMA HookStays ==
  ASSUME CommandsIInv, NEW c \in Cmds, Does(c)
  PROVE  HookInv'
<1> USE CommandsAssumption
<1>1. /\ CommandsTyped /\ Standing(command[c]) /\ \A d \in Cmds : HooksInOrder(d)
  BY DEF CommandsIInv, StandingInv, HookInv, HooksInOrder
<1>2. \A d \in Cmds : d # c => command'[d] = command[d]
  BY OneMoves DEF OnlyCommand
<1>3. ASSUME NEW d \in Cmds, command'[d] = command[d], applied'[d] = applied[d]
      PROVE  HooksInOrder(d)'
  BY <1>1, <1>3 DEF HooksInOrder, Done
<1>4. ASSUME \A d \in Cmds : d # c => applied'[d] = applied[d], HooksInOrder(c)'
      PROVE  HookInv'
  <2>1. \A d \in Cmds : HooksInOrder(d)'
    BY <1>2, <1>3, <1>4
  <2>2. QED
    BY <2>1 DEF HookInv, HooksInOrder
<1>5. CASE Started(c) /\ Quiet
  <2>1. applied[c] = <<>> /\ applied' = applied
    BY <1>1, <1>5 DEF HooksInOrder, Started, Standing, Quiet
  <2>2. ToSet(applied[c]) = {} /\ DOMAIN applied[c] = {}
    BY <2>1 DEF ToSet
  <2>3. command'[c].kind = "hook" =>
          /\ command'[c].left = codex_states(command'[c].list)
          /\ ~(command'[c].pc = "done" /\ command'[c].result = "ok")
          /\ command'[c].pc = "done" => command'[c].left = {}
    BY <1>5 DEF Started
  <2>4. HooksInOrder(c)'
    BY <2>1, <2>2, <2>3 DEF HooksInOrder, Done
  <2>5. QED
    BY <1>4, <2>1, <2>4
<1>6. ASSUME command[c].kind # "hook", SameCommand(c), applied' = applied PROVE HookInv'
  <2>1. HooksInOrder(c)'
    BY <1>1, <1>6 DEF HooksInOrder, SameCommand
  <2>2. QED
    BY <1>4, <1>6, <2>1
<1>7. CASE ListedNow(c) /\ Quiet
  BY <1>1, <1>6, <1>7 DEF ListedNow, Standing, Quiet
<1>8. CASE EndedNow(c) /\ Quiet
  <2>1. CASE command[c].kind # "hook"
    BY <1>6, <1>8, <2>1 DEF EndedNow, Ended, Quiet
  <2>2. CASE command[c].kind = "hook"
    <3>1. /\ command[c].pc = "emit" /\ command[c].left # {}
          /\ command'[c].left = command[c].left /\ command'[c].list = command[c].list
          /\ command'[c].result = "error" /\ command'[c].kind = "hook" /\ applied' = applied
      BY <1>1, <1>8, <2>2 DEF EndedNow, Ended, SameCommand, Standing, Quiet
    <3>2. HooksInOrder(c)
      BY <1>1
    <3>3. HooksInOrder(c)'
      BY <2>2, <3>1, <3>2 DEF HooksInOrder, Done
    <3>4. QED
      BY <1>4, <3>1, <3>3
  <2>3. QED
    BY <2>1, <2>2
<1>9. ASSUME NEW n \in Texts, CreatedNow(c, n) PROVE HookInv'
  BY <1>6, <1>9 DEF CreatedNow
<1>10. CASE KilledNow(c)
  BY <1>6, <1>10, KillsOne DEF KilledNow, Advanced, Ended
<1>11. CASE EmittedNow(c)
  <2>1. command[c].kind = "hook" /\ command[c].left # {} /\ command'[c].kind = "hook"
    BY <1>1, <1>11 DEF EmittedNow, Advanced, SameCommand, Standing
  <2>2. HooksInOrder(c)
    BY <1>1
  <2> DEFINE f == First(c)
             s == applied[c]
  <2>3. /\ f \in command[c].left /\ f \in Nat /\ \A k \in command[c].left : f <= k
    BY <1>1, <2>1, FirstIsLeast
  <2>4. s \in Seq(Nat) /\ applied'[c] = Append(s, f)
    BY <1>1, <1>11 DEF EmittedNow, CommandsTyped
  <2>5. \A d \in Cmds : d # c => applied'[d] = applied[d]
    BY <1>1, <1>11 DEF EmittedNow, CommandsTyped
  <2>6. /\ command'[c].left = command[c].left \ {f} /\ command'[c].list = command[c].list
        /\ command'[c].left = {} => command'[c].result = "ok"
        /\ command'[c].left # {} => command'[c].pc = "emit"
    BY <1>11 DEF EmittedNow, Advanced
  <2>7. command[c].left \subseteq Nat
    BY <1>1 DEF CommandsTyped, CommandRecord
  <2> HIDE DEF f, s
  <2>8. /\ \A k, l \in DOMAIN s : k < l => s[k] < s[l]
        /\ ToSet(s) \cup command[c].left = codex_states(command[c].list)
        /\ \A i \in ToSet(s), j \in command[c].left : i < j
    BY <2>1, <2>2 DEF HooksInOrder, s
  <2>9. /\ \A k, l \in DOMAIN Append(s, f) : k < l => Append(s, f)[k] < Append(s, f)[l]
        /\ ToSet(Append(s, f)) = ToSet(s) \cup {f}
    BY <2>3, <2>4, <2>8, AscendingAppend
  <2>10. ToSet(applied'[c]) \cup command'[c].left = codex_states(command'[c].list)
    BY <2>3, <2>4, <2>6, <2>8, <2>9
  <2>11. ASSUME NEW i \in ToSet(applied'[c]), NEW j \in command'[c].left PROVE i < j
    <3>1. j \in command[c].left /\ j # f /\ j \in Nat
      BY <2>6, <2>7
    <3>2. f < j
      BY <2>3, <3>1
    <3>3. i \in ToSet(s) \/ i = f
      BY <2>4, <2>9
    <3>4. QED
      BY <2>8, <3>1, <3>2, <3>3
  <2>12. ToSet(applied'[c]) # {} /\ ~Done(c, "error")'
    BY <2>4, <2>6, <2>9 DEF Done
  <2>13. \A k, l \in DOMAIN applied'[c] : k < l => applied'[c][k] < applied'[c][l]
    BY <2>4, <2>9
  <2>14. HooksInOrder(c)'
    BY <2>1, <2>10, <2>11, <2>12, <2>13 DEF HooksInOrder
  <2>15. QED
    BY <1>4, <2>5, <2>14
<1>12. CASE (PassedNow(c) \/ AgainNow(c)) /\ Quiet
  BY <1>1, <1>6, <1>12 DEF PassedNow, Advanced, AgainNow, SameCommand, Standing, Quiet
<1>13. QED
  BY <1>5, <1>7, <1>8, <1>9, <1>10, <1>11, <1>12 DEF Does

-----------------------------------------------------------------------------
(* The invariant, and what it says of the commands.                         *)

LEMMA CommandsStart == CommandsInit => CommandsIInv
<1> USE CommandsAssumption
<1> SUFFICES ASSUME CommandsInit PROVE CommandsIInv
  OBVIOUS
<1>1. PICK n \in 0..(MaxSessions - 1) :
        /\ created = n
        /\ \A i \in Ids : name[i] # Nothing <=> i <= n
        /\ \A i, j \in 1..n : i # j => name[i] # name[j]
  BY DEF CommandsInit
<1>2. /\ name \in [Ids -> Names \cup {Nothing}] /\ exited = {}
      /\ command = [c \in Cmds |-> Idle] /\ killer = [i \in Ids |-> Nothing]
      /\ overtaken = [c \in Cmds |-> FALSE] /\ applied = [c \in Cmds |-> <<>>]
  BY DEF CommandsInit
<1>3. n \in Nat /\ n <= MaxSessions /\ MaxSessions \in Nat
  OBVIOUS
<1>4. \A c \in Cmds : /\ command[c] = Idle /\ command[c].kind = Nothing
                      /\ command[c].pc = "idle" /\ command[c].result = Nothing
                      /\ command[c].left = {}
  BY <1>2 DEF Idle
<1>5. CommandsTyped
  <2>1. name \in [Ids -> Texts \cup {Nothing}]
    BY <1>2 DEF Texts
  <2>2. created \in 0..MaxSessions
    BY <1>1, <1>3
  <2>3. <<>> \in Seq(Nat)
    OBVIOUS
  <2>4. applied \in [Cmds -> Seq(Nat)]
    BY <1>2, <2>3
  <2>5. command \in [Cmds -> CommandRecord]
    BY <1>2, IdleTyped
  <2>6. QED
    BY <1>2, <2>1, <2>2, <2>4, <2>5 DEF CommandsTyped
<1>6. SessionsInv
  <2>1. \A i \in Ids : i \in Nat /\ (i > created => ~ (i <= n))
    BY <1>1, <1>3 DEF Ids
  <2>2. \A i \in Listed : i \in 1..n
    BY <1>1, <1>3 DEF Listed, Ids
  <2>3. QED
    BY <1>1, <1>2, <2>1, <2>2 DEF SessionsInv
<1>7. RoomInv
  <2>1. Openers = {}
    BY <1>4 DEF Openers
  <2>2. Cardinality(Openers) = 0
    BY <2>1, FS_EmptySet
  <2>3. QED
    BY <1>1, <1>3, <2>2 DEF RoomInv
<1>8. StandingInv
  BY <1>4 DEF StandingInv, Standing
<1>9. OthersKillNothing
  BY <1>2 DEF OthersKillNothing, KilledBy
<1>10. KillInv /\ KillAllInv
  BY <1>4 DEF KillInv, KillAllInv
<1>11. OpenInv
  BY <1>4 DEF OpenInv
<1>12. HookInv
  BY <1>2, <1>4 DEF HookInv
<1>13. QED
  BY <1>5, <1>6, <1>7, <1>8, <1>9, <1>10, <1>11, <1>12 DEF CommandsIInv

LEMMA CommandsStep ==
  CommandsIInv /\ [CommandsNext]_commandsVars => CommandsIInv'
<1> SUFFICES ASSUME CommandsIInv, [CommandsNext]_commandsVars PROVE CommandsIInv'
  OBVIOUS
<1>1. ASSUME NEW c \in Cmds, Start(c) \/ Step(c) PROVE CommandsIInv'
  <2>1. Does(c)
    BY <1>1, EveryStepDoes
  <2>2. CommandsTyped' /\ SessionsInv' /\ RoomInv'
    BY <2>1, TypedStays, SessionsStay, RoomStays
  <2>3. StandingInv' /\ OthersKillNothing'
    BY <2>1, StandingStays, OthersStay
  <2>4. KillInv' /\ KillAllInv' /\ OpenInv' /\ HookInv'
    BY <2>1, KillStays, KillAllStays, OpenStays, HookStays
  <2>5. QED
    BY <2>2, <2>3, <2>4 DEF CommandsIInv
<1>2. ASSUME UNCHANGED <<name, created, starts, faults, command, killer, overtaken, applied>>,
             exited' \subseteq Listed
      PROVE  CommandsIInv'
  <2>1. CommandsTyped'
    BY <1>2 DEF CommandsIInv, CommandsTyped, Listed
  <2>2. SessionsInv'
    BY <1>2 DEF CommandsIInv, SessionsInv, Listed
  <2>3. RoomInv' /\ StandingInv'
    BY <1>2 DEF CommandsIInv, RoomInv, Openers, StandingInv
  <2>4. OthersKillNothing' /\ KillInv'
    BY <1>2 DEF CommandsIInv, OthersKillNothing, KillInv, KilledBy, Resolve, IdIs, NameIs,
                IdStarts, Done, Listed
  <2>5. KillAllInv'
    BY <1>2 DEF CommandsIInv, KillAllInv, KilledBy, Done, First, Listed
  <2>6. OpenInv' /\ HookInv'
    BY <1>2 DEF CommandsIInv, OpenInv, HookInv, Done, Taken, Listed
  <2>7. QED
    BY <2>1, <2>2, <2>3, <2>4, <2>5, <2>6 DEF CommandsIInv
<1>3. ASSUME NEW i \in Ids, Exit(i) PROVE CommandsIInv'
  BY <1>2, <1>3 DEF Exit, CommandsIInv, CommandsTyped
<1>4. CASE UNCHANGED commandsVars
  BY <1>2, <1>4 DEF commandsVars, CommandsIInv, CommandsTyped
<1>5. QED
  BY <1>1, <1>3, <1>4 DEF CommandsNext

LEMMA CommandsFollows == CommandsIInv => CommandsInv
<1> USE CommandsAssumption
<1> SUFFICES ASSUME CommandsIInv PROVE CommandsInv
  OBVIOUS
<1>1. /\ CommandsTyped /\ SessionsInv /\ StandingInv /\ OthersKillNothing
      /\ KillInv /\ KillAllInv /\ OpenInv /\ HookInv
  BY DEF CommandsIInv
<1>2. \A c \in Cmds : Standing(command[c]) /\ command[c] \in CommandRecord
  BY <1>1 DEF StandingInv, CommandsTyped
<1>3. CommandsTypeOK
  <2>1. \A c \in Cmds :
          /\ command[c].pc \in {"idle", "list", "create", "kill", "again", "attach", "emit", "done"}
          /\ command[c].pc = "done" <=> command[c].result # Nothing
    BY <1>2 DEF Standing, CommandRecord
  <2>2. QED
    BY <1>1, <2>1 DEF CommandsTypeOK, CommandsTyped, SessionsInv
\* What a reference means is what it resolves to.
<1>4. ASSUME NEW c \in Cmds, command[c].kind = "kill"
       PROVE  Meant(c) = Resolve(command[c].list, command[c].ref)
  BY DEF Meant, Resolve, NameIs, IdIs, IdStarts, ListedBy
<1>5. ASSUME NEW c \in Cmds, command[c].kind \in {"kill", "killall"},
              command[c].pc \notin {"kill", "done"}
       PROVE  KilledBy(c) = {} /\ ~Done(c, "ok") /\ ~Done(c, "error")
  <2>1. command[c].pc \in {"idle", "list"}
    BY <1>2, <1>5 DEF Standing, CommandRecord
  <2>2. QED
    BY <1>1, <1>5, <2>1 DEF OthersKillNothing, Done
<1>6. KillIsByReference
  <2> SUFFICES ASSUME NEW c \in Cmds, command[c].kind = "kill"
               PROVE  /\ KilledBy(c) \subseteq Meant(c)
                      /\ \A i, j \in KilledBy(c) : i = j
                      /\ Done(c, "ok") => \E i \in Meant(c) : i \notin Listed
    BY DEF KillIsByReference
  <2>1. CASE command[c].pc \in {"kill", "done"}
    BY <1>1, <1>4, <2>1 DEF KillInv
  <2>2. CASE command[c].pc \notin {"kill", "done"}
    BY <1>5, <2>2
  <2>3. QED
    BY <2>1, <2>2
<1>7. KillAllIsExact
  <2> SUFFICES ASSUME NEW c \in Cmds, command[c].kind = "killall"
               PROVE  /\ KilledBy(c) \subseteq ListedBy(c)
                      /\ Done(c, "ok") => ListedBy(c) \cap Listed = {}
                      /\ Done(c, "error") =>
                           /\ \A i \in ListedBy(c) \cap Listed : First(c) <= i
                           /\ \A i \in KilledBy(c) : i <= First(c)
    BY DEF KillAllIsExact
  <2>1. CASE command[c].pc \in {"kill", "done"}
    <3>1. /\ command[c].left \cup KilledBy(c) \subseteq ListedBy(c)
          /\ ListedBy(c) \subseteq 1..created
          /\ \A i \in ListedBy(c) \ command[c].left :
               i \notin Listed /\ \A j \in command[c].left : i < j
          /\ \A i \in KilledBy(c) \cap command[c].left : i = First(c)
          /\ Done(c, "error") => command[c].left # {}
      BY <1>1, <2>1 DEF KillAllInv, ListedBy
    <3>2. Done(c, "ok") => command[c].left = {}
      BY <1>2 DEF Standing, Done
    <3>3. ASSUME Done(c, "error")
          PROVE  /\ First(c) \in command[c].left /\ First(c) \in Nat
                 /\ \A i \in command[c].left : First(c) <= i
      BY <1>1, <3>1, <3>3, FirstIsLeast
    <3>4. ASSUME Done(c, "error"), NEW i \in KilledBy(c) PROVE i <= First(c)
      <4>1. i \in Nat
        BY DEF KilledBy, Ids
      <4>2. CASE i \in command[c].left
        BY <3>1, <3>3, <3>4, <4>1, <4>2
      <4>3. CASE i \notin command[c].left
        BY <3>1, <3>3, <3>4, <4>1, <4>3
      <4>4. QED
        BY <4>2, <4>3
    <3>5. QED
      BY <3>1, <3>2, <3>3, <3>4
  <2>2. CASE command[c].pc \notin {"kill", "done"}
    BY <1>5, <2>2
  <2>3. QED
    BY <2>1, <2>2
<1>8. KillIsIdempotent
  <2> SUFFICES ASSUME ~faults, NEW c \in Cmds, Done(c, "error")
               PROVE  /\ command[c].kind # "killall"
                      /\ command[c].kind = "kill" => Meant(c) = {}
    BY DEF KillIsIdempotent
  <2>1. command[c].pc = "done"
    BY DEF Done
  <2>2. QED
    BY <1>1, <1>4, <2>1 DEF KillInv, KillAllInv
<1>9. OpenFailsOnlyIfCrossed
  BY <1>1 DEF OpenInv, OpenFailsOnlyIfCrossed
<1>10. HookInOrder
  <2> DEFINE events(c) == codex_states(command[c].list)
             done(c) == ToSet(applied[c])
  <2> SUFFICES ASSUME NEW c \in Cmds, command[c].kind = "hook"
               PROVE  /\ \A k, l \in DOMAIN applied[c] :
                           k < l => applied[c][k] < applied[c][l]
                      /\ done(c) \subseteq events(c)
                      /\ \A i \in done(c), j \in events(c) \ done(c) : i < j
                      /\ Done(c, "ok") <=> done(c) = events(c) /\ done(c) # {}
    BY DEF HookInOrder
  <2>1. /\ \A k, l \in DOMAIN applied[c] : k < l => applied[c][k] < applied[c][l]
        /\ done(c) \cup command[c].left = events(c)
        /\ \A i \in done(c), j \in command[c].left : i < j
        /\ Done(c, "ok") => done(c) # {}
        /\ Done(c, "error") => command[c].left # {} \/ events(c) = {}
    BY <1>1 DEF HookInv
  <2>2. done(c) \subseteq Nat /\ command[c].left \subseteq Nat
    <3>1. \A s \in Seq(Nat) : ToSet(s) \subseteq Nat
      BY DEF ToSet
    <3>2. applied[c] \in Seq(Nat)
      BY <1>1 DEF CommandsTyped
    <3>3. QED
      BY <1>2, <3>1, <3>2 DEF CommandRecord
  <2>3. /\ command[c].pc \in {"emit", "done"} /\ command[c].result \in {"ok", "error", Nothing}
        /\ command[c].pc = "done" <=> command[c].result # Nothing
        /\ command[c].pc = "emit" => command[c].left # {}
        /\ Done(c, "ok") => command[c].left = {}
    BY <1>2 DEF Standing, CommandRecord, Done
  <2> HIDE DEF events, done
  <2>4. done(c) \cap command[c].left = {}
    BY <2>1, <2>2
  <2>5. Done(c, "ok") => done(c) = events(c) /\ done(c) # {}
    BY <2>1, <2>3
  <2>6. ASSUME done(c) = events(c), done(c) # {} PROVE Done(c, "ok")
    <3>1. command[c].left = {}
      BY <2>1, <2>4, <2>6
    <3>2. command[c].pc = "done" /\ ~Done(c, "error")
      BY <2>1, <2>3, <2>6, <3>1
    <3>3. QED
      BY <2>3, <3>2 DEF Done
  <2>7. QED
    BY <2>1, <2>5, <2>6
<1>11. QED
  BY <1>3, <1>6, <1>7, <1>8, <1>9, <1>10 DEF CommandsInv

\* CommandsInv: a kill removes at most the one session its reference stood for; kill-all
\* ends with all that it listed gone, or stops, for a fault, at the first that may be left;
\* kills that cross do not make each other fail (daemon/src/ipc.rs:1179); opening a name
\* fails only when it was crossed, and a hook applies its events in order (cli/src/main.rs).
THEOREM CommandsActOnWhatWasNamed == CommandsSpec => []CommandsInv
<1>1. CommandsInit => CommandsIInv
  BY CommandsStart
<1>2. CommandsIInv /\ [CommandsNext]_commandsVars => CommandsIInv'
  BY CommandsStep
<1>3. CommandsIInv => CommandsInv
  BY CommandsFollows
<1>4. QED
  BY <1>1, <1>2, <1>3, PTL DEF CommandsSpec
=============================================================================
