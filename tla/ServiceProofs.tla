--------------------------- MODULE ServiceProofs ---------------------------
(***************************************************************************)
(* Proofs about the daemon's and the relay's services: the queue of push    *)
(* commands and its worker (PushDispatcher), the credentials of the push    *)
(* services (PushProviders), and the daemon's start over its socket, its    *)
(* databases and its key (DaemonStartup).                                   *)
(*                                                                         *)
(* Each part has an inductive invariant, its steps reduced to their effects *)
(* (what a step adds to or takes from a queue, how one process or handler   *)
(* moves), a lemma that each effect keeps each part of the invariant, and   *)
(* the theorem that the invariant of the runs follows.                      *)
(***************************************************************************)
EXTENDS PushDispatcher, PushProviders, DaemonStartup, TLAPS

-----------------------------------------------------------------------------
(***************************************************************************)
(* PushDispatcher: the queue of commands and its worker.                   *)
(***************************************************************************)

Changes == {"register", "unregister"}

Item == Tokens \cup Events \cup {None}

\* A change is of a token, an event has a number.
Cmd == {c \in [kind : {"node", "register", "unregister", "event", "publish"}, item : Item] :
          /\ c.kind \in Changes => c.item \in Tokens
          /\ c.kind = "event" => c.item \in Events}

WorkerTyped ==
  worker # Idle =>
    worker \in [pc : {"pair", "request"}, cmd : Cmd, todo : SUBSET Tokens,
                elapsed : 0 .. Budget + MaxDelay + MinDelay, backoff : 0 .. MaxDelay]

\* The shapes of all the parts of the state.
PushTyped ==
  /\ devices \in [Devices -> Tokens \cup {None}]
  /\ queue \in Seq(Cmd) /\ WorkerTyped
  /\ node \in BOOLEAN /\ registered \in BOOLEAN /\ sent \in 0 .. MaxCommands
  /\ known \in BOOLEAN /\ bound \subseteq Tokens
  /\ since \in [Events -> SUBSET Tokens] /\ offered \in [Events -> SUBSET Tokens]
  /\ tried \in [Events -> SUBSET Tokens] /\ got \in [Events -> [Tokens -> Nat]]
  /\ unanswered \subseteq Events /\ done \subseteq Events
  /\ last \in [Tokens -> BOOLEAN \cup {None}]

\* The worker is at a push of this event.
Dispatching == worker # Idle /\ worker.pc = "request" /\ worker.cmd.kind = "event"

\* It works for a daemon that has its id, and on requests for one that has registered.
ReadyInv ==
  worker # Idle =>
    /\ node /\ (worker.pc = "request" => registered)
    /\ Dispatching => worker.todo # {}

\* The events that are queued, or that the worker has taken up.
Waits(e) == \E i \in 1 .. Len(queue) : queue[i].kind = "event" /\ queue[i].item = e
TakenUp(e) == worker # Idle /\ worker.cmd.kind = "event" /\ worker.cmd.item = e

\* A token that a device holds has been offered to every event under way, and
\* none to an event that was not sent.
OfferedInv ==
  /\ \A e \in Events : Waits(e) \/ TakenUp(e) => e <= sent /\ Held \subseteq offered[e]
  /\ Dispatching => worker.todo \subseteq offered[worker.cmd.item]
  /\ \A e \in Events : sent < e => offered[e] = {}
  /\ \A e \in Events : tried[e] \subseteq offered[e]

\* Who was there all along is there, and is tried or will be.
SinceInv ==
  /\ \A e \in Events : since[e] \subseteq Held
  /\ Dispatching =>
       /\ since[worker.cmd.item] \subseteq tried[worker.cmd.item] \cup worker.todo
       /\ worker.elapsed > 0 => First(worker.todo) \in tried[worker.cmd.item]

\* Nothing was pushed of an event that waits, which waits only once, and nothing
\* to the tokens that are still to do, unless an answer was lost.
GotInv ==
  /\ \A e \in Events : sent < e \/ Waits(e) => \A t \in Tokens : got[e][t] = 0
  /\ \A e \in Events : Waits(e) => ~TakenUp(e) /\ e <= sent
  /\ \A i, j \in 1 .. Len(queue) :
       queue[i].kind = "event" /\ queue[j].kind = "event" /\ queue[i].item = queue[j].item =>
         i = j
  /\ \A e \in Events : TakenUp(e) =>
       /\ e <= sent
       /\ worker.pc = "pair" => \A t \in Tokens : got[e][t] = 0
       /\ worker.pc = "request" /\ e \notin unanswered =>
            \A t \in worker.todo : got[e][t] = 0
  /\ \A e \in Events \ unanswered : \A t \in Tokens : got[e][t] <= 1

\* The changes of a token under way.
QueuedChange(t) == \E i \in 1 .. Len(queue) : queue[i].kind \in Changes /\ queue[i].item = t
WorkedChange(t) == worker # Idle /\ worker.cmd.kind \in Changes /\ worker.cmd.item = t

\* A change that counts as the last has none behind it.
LastInv ==
  \A t \in Tokens : last[t] # None =>
    /\ ~QueuedChange(t) /\ ~WorkedChange(t)
    /\ t \in bound <=> last[t] = TRUE
    /\ t \in Held => last[t] = TRUE

\* A device holds its own tokens, and a removal of a token it holds is
\* followed by the registration of it.
HeldInv ==
  /\ \A d \in Devices : devices[d] # None => devices[d] \in TokensOf[d]
  /\ \A i \in 1 .. Len(queue) : queue[i].kind = "unregister" /\ queue[i].item \in Held =>
       \E j \in i .. Len(queue) : queue[j].kind = "register" /\ queue[j].item = queue[i].item
  /\ worker # Idle /\ worker.cmd.kind = "unregister" /\ worker.cmd.item \in Held =>
       \E j \in 1 .. Len(queue) :
         queue[j].kind = "register" /\ queue[j].item = worker.cmd.item

PushIInv ==
  /\ PushTyped
  /\ ReadyInv
  /\ OfferedInv
  /\ SinceInv
  /\ GotInv
  /\ LastInv
  /\ HeldInv

-----------------------------------------------------------------------------
(* Operators.                                                              *)

\* A set of tokens that is not empty has a first one.
LEMMA FirstIsIn ==
  ASSUME NEW S, S # {}
  PROVE  First(S) \in S
BY DEF First

LEMMA HeldAreTokens == ASSUME PushTyped PROVE Held \subseteq Tokens
BY DEF Held, PushTyped

\* The worker is busy just if it is not idle.
LEMMA BusyIsNotIdle == ASSUME WorkerTyped PROVE Busy <=> worker # Idle
BY DEF Busy, WorkerTyped, Idle

\* The worker's record, when it has one.
LEMMA WorkerFields ==
  ASSUME WorkerTyped, worker # Idle
  PROVE  /\ worker.pc \in {"pair", "request"} /\ worker.cmd \in Cmd
         /\ worker.cmd.kind \in {"node", "register", "unregister", "event", "publish"}
         /\ worker.cmd.item \in Item
         /\ worker.cmd.kind \in Changes => worker.cmd.item \in Tokens
         /\ worker.cmd.kind = "event" => worker.cmd.item \in Events
         /\ worker.todo \subseteq Tokens
         /\ worker.elapsed \in 0 .. Budget + MaxDelay + MinDelay
         /\ worker.backoff \in 0 .. MaxDelay
BY DEF WorkerTyped, Cmd

LEMMA CommandFields ==
  ASSUME NEW c \in Cmd
  PROVE  /\ c.kind \in {"node", "register", "unregister", "event", "publish"}
         /\ c.item \in Item
         /\ c.kind \in Changes => c.item \in Tokens
         /\ c.kind = "event" => c.item \in Events
BY DEF Cmd

\* An operation that starts has the shape of the worker's record.
LEMMA OperationFields ==
  ASSUME NEW c \in Cmd, NEW pc \in {"pair", "request"}, NEW todo \in SUBSET Tokens,
         worker' = Operation(c, pc, todo)
  PROVE  /\ worker' # Idle /\ WorkerTyped'
         /\ worker'.pc = pc /\ worker'.cmd = c /\ worker'.todo = todo /\ worker'.elapsed = 0
<1>1. MinDelay \in 0 .. MaxDelay /\ 0 \in 0 .. Budget + MaxDelay + MinDelay
  BY PushAssumption
<1>2. /\ Operation(c, pc, todo).cmd = c /\ ~("cmd" \in DOMAIN Idle)
      /\ "cmd" \in DOMAIN Operation(c, pc, todo)
  BY DEF Operation, Idle
<1>3. QED
  BY <1>1, <1>2 DEF Operation, WorkerTyped

-----------------------------------------------------------------------------
(* The queue.                                                              *)

\* What a command that is sent changes.
Queues(c) ==
  /\ c \in Cmd /\ queue' \in Seq(Cmd) /\ Len(queue') = Len(queue) + 1 /\ Len(queue) \in Nat
  /\ \A i \in 1 .. Len(queue) : queue'[i] = queue[i]
  /\ queue'[Len(queue) + 1] = c

LEMMA AppendQueues ==
  ASSUME queue \in Seq(Cmd), NEW c \in Cmd, queue' = Append(queue, c)
  PROVE  Queues(c)
BY DEF Queues

LEMMA QueuedWaits ==
  ASSUME NEW c, Queues(c), NEW e
  PROVE  Waits(e)' <=> Waits(e) \/ (c.kind = "event" /\ c.item = e)
<1>1. ASSUME Waits(e)' PROVE Waits(e) \/ (c.kind = "event" /\ c.item = e)
  <2>1. PICK i \in 1 .. Len(queue') : queue'[i].kind = "event" /\ queue'[i].item = e
    BY <1>1 DEF Waits
  <2>2. i \in 1 .. Len(queue) \/ i = Len(queue) + 1
    BY DEF Queues
  <2>3. QED
    BY <2>1, <2>2 DEF Queues, Waits
<1>2. ASSUME Waits(e) PROVE Waits(e)'
  <2>1. PICK i \in 1 .. Len(queue) : queue[i].kind = "event" /\ queue[i].item = e
    BY <1>2 DEF Waits
  <2>2. i \in 1 .. Len(queue') /\ queue'[i] = queue[i]
    BY DEF Queues
  <2>3. QED
    BY <2>1, <2>2 DEF Waits
<1>3. ASSUME c.kind = "event", c.item = e PROVE Waits(e)'
  <2>1. Len(queue) + 1 \in 1 .. Len(queue') /\ queue'[Len(queue) + 1] = c
    BY DEF Queues
  <2>2. QED
    BY <1>3, <2>1 DEF Waits
<1>4. QED
  BY <1>1, <1>2, <1>3

LEMMA QueuedChanges ==
  ASSUME NEW c, Queues(c), NEW t
  PROVE  QueuedChange(t)' => QueuedChange(t) \/ (c.kind \in Changes /\ c.item = t)
<1> SUFFICES ASSUME QueuedChange(t)' PROVE QueuedChange(t) \/ (c.kind \in Changes /\ c.item = t)
  OBVIOUS
<1>1. PICK i \in 1 .. Len(queue') : queue'[i].kind \in Changes /\ queue'[i].item = t
  BY DEF QueuedChange
<1>2. i \in 1 .. Len(queue) \/ i = Len(queue) + 1
  BY DEF Queues
<1>3. QED
  BY <1>1, <1>2 DEF Queues, QueuedChange

\* What the worker's recv changes.
Takes ==
  /\ queue # <<>> /\ Head(queue) = queue[1] /\ queue[1] \in Cmd
  /\ Len(queue) \in Nat /\ Len(queue) > 0
  /\ queue' \in Seq(Cmd) /\ Len(queue') = Len(queue) - 1
  /\ \A i \in 1 .. Len(queue') : queue'[i] = queue[i + 1]

LEMMA TailTakes ==
  ASSUME queue \in Seq(Cmd), queue # <<>>, queue' = Tail(queue)
  PROVE  Takes
BY DEF Takes

LEMMA TakenWaits ==
  ASSUME Takes, NEW e, Waits(e)'
  PROVE  \E i \in 2 .. Len(queue) : queue[i].kind = "event" /\ queue[i].item = e
<1>1. PICK i \in 1 .. Len(queue') : queue'[i].kind = "event" /\ queue'[i].item = e
  BY DEF Waits
<1>2. i + 1 \in 2 .. Len(queue) /\ queue'[i] = queue[i + 1]
  BY DEF Takes
<1>3. QED
  BY <1>1, <1>2

LEMMA TakenChanges ==
  ASSUME Takes, NEW t, QueuedChange(t)'
  PROVE  QueuedChange(t)
<1>1. PICK i \in 1 .. Len(queue') : queue'[i].kind \in Changes /\ queue'[i].item = t
  BY DEF QueuedChange
<1>2. i + 1 \in 1 .. Len(queue) /\ queue'[i] = queue[i + 1]
  BY DEF Takes
<1>3. QED
  BY <1>1, <1>2 DEF QueuedChange

-----------------------------------------------------------------------------
(* The worker's requests.                                                  *)

\* The operations that may follow one that ends.
Rests == worker' = Idle

Begins ==
  /\ worker.pc = "pair" /\ worker.cmd.kind # "node" /\ registered' = TRUE
  /\ worker.cmd.kind = "event" => Held # {}
  /\ worker' = Operation(worker.cmd, "request", IF worker.cmd.kind = "event" THEN Held ELSE {})

GoesOn ==
  /\ Dispatching /\ worker.todo \ {First(worker.todo)} # {}
  /\ worker' = Operation(worker.cmd, "request", worker.todo \ {First(worker.todo)})

\* The last change of a token counts when nothing is behind it.
Counts ==
  /\ worker.pc = "request" /\ worker.cmd.kind \in Changes /\ ~QueuedChange(worker.cmd.item)
  /\ last' = [last EXCEPT ![worker.cmd.item] = (worker.cmd.kind = "register")]

Ends(ok) ==
  /\ Rests \/ (ok /\ Begins) \/ GoesOn
  /\ registered' = (registered \/ (worker.pc = "pair" /\ ok))
  /\ last' = last \/ (ok /\ Counts)
  /\ done' = done \/ (Rests /\ done' = Done(worker.cmd))
  /\ Rests /\ Dispatching => worker.todo \subseteq {First(worker.todo)}

\* An operation that ends is followed by the next one of its command, if any.
LEMMA FinishEnds ==
  ASSUME PushTyped, worker # Idle, NEW ok \in BOOLEAN, Finish(ok)
  PROVE  Ends(ok)
<1> DEFINE cmd == worker.cmd
<1> DEFINE left == IF cmd.kind # "event" \/ worker.pc = "pair" THEN {}
                   ELSE worker.todo \ {First(worker.todo)}
<1>1. worker.pc \in {"pair", "request"} /\ cmd \in Cmd
  BY WorkerFields DEF PushTyped
<1>2. /\ worker' = (IF worker.pc = "pair" /\ ok THEN Start(cmd)
                    ELSE IF left # {} THEN Operation(cmd, "request", left) ELSE Idle)
      /\ registered' = (registered \/ (worker.pc = "pair" /\ ok))
      /\ done' = (IF worker' = Idle THEN Done(cmd) ELSE done)
  BY DEF Finish, AfterFailure
<1>3. last' = last \/ (ok /\ Counts)
  BY DEF Finish, Counts, QueuedChange, Changes
<1>4. CASE worker.pc = "pair" /\ ok
  <2>1. worker' = Start(cmd) /\ registered' = TRUE
    BY <1>2, <1>4
  <2>2. Rests \/ Begins
    BY <1>4, <2>1 DEF Start, Recipients, Rests, Begins
  <2>3. QED
    BY <1>2, <1>3, <1>4, <2>2 DEF Ends, Dispatching, Rests
<1>5. CASE ~(worker.pc = "pair" /\ ok)
  <2>1. CASE left # {}
    <3>1. Dispatching /\ left = worker.todo \ {First(worker.todo)}
      BY <1>1, <2>1 DEF Dispatching
    <3>2. worker' = Operation(cmd, "request", left)
      BY <1>2, <1>5, <2>1
    <3>3. GoesOn
      BY <2>1, <3>1, <3>2 DEF GoesOn
    <3>4. worker' # Idle
      <4>1. left \in SUBSET Tokens
        BY <3>1, WorkerFields DEF PushTyped
      <4>2. QED
        BY <1>1, <3>2, <4>1, OperationFields
    <3>5. QED
      BY <1>2, <1>3, <1>5, <3>3, <3>4 DEF Ends, Rests
  <2>2. CASE left = {}
    <3>1. Rests
      BY <1>2, <1>5, <2>2 DEF Rests
    <3>2. Dispatching => worker.todo \subseteq {First(worker.todo)}
      BY <2>2 DEF Dispatching
    <3>3. QED
      BY <1>2, <1>3, <1>5, <3>1, <3>2 DEF Ends, Rests
  <2>3. QED
    BY <2>1, <2>2
<1>6. QED
  BY <1>4, <1>5

\* What a request may change at the relay: the binding of its own token, and
\* one more push to the first of the tokens to do.
BoundMoves ==
  /\ known' \in BOOLEAN /\ bound' \subseteq Tokens
  /\ \A t \in Tokens : ~WorkedChange(t) => (t \in bound' <=> t \in bound)

Pushed(e, t) == Dispatching /\ e = worker.cmd.item /\ t = First(worker.todo)

GotMoves ==
  /\ got' \in [Events -> [Tokens -> Nat]]
  /\ \A e \in Events, t \in Tokens :
       IF Pushed(e, t) THEN got'[e][t] = got[e][t] + 1 ELSE got'[e][t] = got[e][t]

Carries ==
  /\ BoundMoves /\ GotMoves
  /\ worker.pc = "request" /\ worker.cmd.kind \in Changes =>
       (worker.cmd.item \in bound' <=> worker.cmd.kind = "register")

LEMMA CarriedOutCarries ==
  ASSUME PushTyped, ReadyInv, worker # Idle, CarriedOut
  PROVE  Carries
<1>1. /\ worker.pc \in {"pair", "request"}
      /\ worker.cmd.kind \in {"node", "register", "unregister", "event", "publish"}
      /\ worker.cmd.kind \in Changes => worker.cmd.item \in Tokens
      /\ worker.cmd.kind = "event" => worker.cmd.item \in Events
      /\ worker.todo \subseteq Tokens
  BY WorkerFields DEF PushTyped
<1>2. /\ known \in BOOLEAN /\ bound \subseteq Tokens /\ got \in [Events -> [Tokens -> Nat]]
  BY DEF PushTyped
<1>3. CASE Dispatching
  <2>1. First(worker.todo) \in Tokens /\ worker.cmd.item \in Events
    BY <1>1, <1>3, FirstIsIn DEF ReadyInv, Dispatching
  <2>2. /\ got' = [got EXCEPT ![worker.cmd.item][First(worker.todo)] = @ + 1]
        /\ known' = known /\ bound' = bound
    BY <1>3 DEF CarriedOut, Dispatching
  <2>3. GotMoves
    BY <1>2, <1>3, <2>1, <2>2 DEF GotMoves, Pushed
  <2>4. QED
    BY <1>2, <1>3, <2>2, <2>3 DEF Carries, BoundMoves, Dispatching, Changes
<1>4. CASE ~Dispatching
  <2>1. /\ got' = got /\ known' \in BOOLEAN
        /\ \/ bound' = bound /\ ~(worker.pc = "request" /\ worker.cmd.kind \in Changes)
           \/ /\ worker.pc = "request" /\ worker.cmd.kind = "register"
              /\ bound' = bound \cup {worker.cmd.item}
           \/ /\ worker.pc = "request" /\ worker.cmd.kind = "unregister"
              /\ bound' = bound \ {worker.cmd.item}
    BY <1>1, <1>2, <1>4 DEF CarriedOut, Dispatching, Changes
  <2>2. GotMoves
    BY <1>2, <1>4, <2>1 DEF GotMoves, Pushed
  <2>3. BoundMoves
    BY <1>1, <1>2, <2>1 DEF BoundMoves, WorkedChange, Changes
  <2>4. QED
    BY <1>1, <2>1, <2>2, <2>3 DEF Carries, Changes
<1>5. QED
  BY <1>3, <1>4

\* A push that is tried, or has been.
Tries ==
  /\ tried' \in [Events -> SUBSET Tokens]
  /\ \A e \in Events : tried[e] \subseteq tried'[e]
  /\ \A e \in Events : \A t \in tried'[e] : t \in tried[e] \/ Pushed(e, t)
  /\ Dispatching => First(worker.todo) \in tried'[worker.cmd.item]

LEMMA TryingTries ==
  ASSUME PushTyped, ReadyInv, worker # Idle, Trying
  PROVE  Tries
<1>1. /\ worker.todo \subseteq Tokens /\ tried \in [Events -> SUBSET Tokens]
      /\ worker.cmd.kind = "event" => worker.cmd.item \in Events
  BY WorkerFields DEF PushTyped
<1>2. CASE Dispatching
  <2>1. First(worker.todo) \in Tokens /\ worker.cmd.item \in Events
    BY <1>1, <1>2, FirstIsIn DEF ReadyInv, Dispatching
  <2>2. tried' = [tried EXCEPT ![worker.cmd.item] = @ \cup {First(worker.todo)}]
    BY <1>2 DEF Trying, Dispatching
  <2>3. QED
    BY <1>1, <1>2, <2>1, <2>2 DEF Tries, Pushed
<1>3. CASE ~Dispatching
  <2>1. tried' = tried
    BY <1>3 DEF Trying, Dispatching
  <2>2. QED
    BY <1>1, <1>3, <2>1 DEF Tries
<1>4. QED
  BY <1>2, <1>3

\* The worker sleeps and tries again.
Retries ==
  /\ worker' # Idle /\ WorkerTyped'
  /\ worker'.pc = worker.pc /\ worker'.cmd = worker.cmd /\ worker'.todo = worker.todo
  /\ UNCHANGED <<registered, last, done>>

LEMMA SleepRetries ==
  ASSUME PushTyped, worker # Idle, worker.elapsed <= Budget,
         NEW took \in 0 .. Budget - worker.elapsed, NEW jitter \in 0 .. MinDelay,
         ~OutOfBudget(worker.backoff + jitter, Budget - worker.elapsed),
         worker' = [worker EXCEPT !.backoff = NextDelay(@),
                                  !.elapsed = @ + took + (worker.backoff + jitter)],
         UNCHANGED <<registered, last, done>>
  PROVE  Retries
<1>1. /\ worker \in [pc : {"pair", "request"}, cmd : Cmd, todo : SUBSET Tokens,
                     elapsed : 0 .. Budget + MaxDelay + MinDelay, backoff : 0 .. MaxDelay]
      /\ MinDelay \in Nat /\ MaxDelay \in Nat /\ Budget \in Nat
  BY PushAssumption DEF PushTyped, WorkerTyped
<1>2. NextDelay(worker.backoff) \in 0 .. MaxDelay
  BY <1>1 DEF NextDelay, Least
<1>3. worker.elapsed + took + (worker.backoff + jitter) \in 0 .. Budget + MaxDelay + MinDelay
  BY <1>1
<1>4. worker' \in [pc : {"pair", "request"}, cmd : Cmd, todo : SUBSET Tokens,
                   elapsed : 0 .. Budget + MaxDelay + MinDelay, backoff : 0 .. MaxDelay]
  <2> DEFINE delay == NextDelay(worker.backoff)
  <2> DEFINE elapsed == worker.elapsed + took + (worker.backoff + jitter)
  <2>1. worker' = [worker EXCEPT !.backoff = delay, !.elapsed = elapsed]
    BY <1>1
  <2>2. delay \in 0 .. MaxDelay /\ elapsed \in 0 .. Budget + MaxDelay + MinDelay
    BY <1>2, <1>3
  <2> HIDE DEF delay, elapsed
  <2>3. QED
    BY <1>1, <2>1, <2>2
<1>5. worker'.pc = worker.pc /\ worker'.cmd = worker.cmd /\ worker'.todo = worker.todo
  BY <1>1
<1>6. worker' # Idle
  <2>1. "cmd" \in DOMAIN worker' /\ ~("cmd" \in DOMAIN Idle)
    BY <1>4 DEF Idle
  <2>2. QED
    BY <2>1
<1>7. QED
  BY <1>4, <1>5, <1>6 DEF Retries, WorkerTyped

\* What follows an operation that ends.
Follows(ok) ==
  \/ worker' = Idle
  \/ /\ worker' # Idle /\ worker'.pc = "request" /\ worker'.cmd = worker.cmd
     /\ worker'.elapsed = 0 /\ registered' = TRUE
     /\ \/ /\ ok /\ worker.pc = "pair"
           /\ worker.cmd.kind = "event" => worker'.todo = Held /\ Held # {}
        \/ /\ Dispatching /\ worker'.todo = worker.todo \ {First(worker.todo)}
           /\ worker'.todo # {}

LEMMA EndsFollows ==
  ASSUME PushTyped, ReadyInv, worker # Idle, NEW ok \in BOOLEAN, Ends(ok)
  PROVE  Follows(ok) /\ WorkerTyped' /\ registered' \in BOOLEAN
<1>1. worker.pc \in {"pair", "request"} /\ worker.cmd \in Cmd /\ worker.todo \subseteq Tokens
  BY WorkerFields DEF PushTyped
<1>2. registered' \in BOOLEAN
  BY DEF Ends, PushTyped
<1>3. CASE Rests
  BY <1>2, <1>3 DEF Rests, Follows, WorkerTyped
<1>4. CASE ok /\ Begins
  <2>1. (IF worker.cmd.kind = "event" THEN Held ELSE {}) \in SUBSET Tokens
    BY HeldAreTokens
  <2>2. worker' = Operation(worker.cmd, "request", IF worker.cmd.kind = "event" THEN Held ELSE {})
    BY <1>4 DEF Begins
  <2>3. /\ worker' # Idle /\ WorkerTyped' /\ worker'.pc = "request"
        /\ worker'.cmd = worker.cmd /\ worker'.elapsed = 0
        /\ worker'.todo = IF worker.cmd.kind = "event" THEN Held ELSE {}
    BY <1>1, <2>1, <2>2, OperationFields
  <2>4. QED
    BY <1>2, <1>4, <2>3 DEF Begins, Follows
<1>5. CASE GoesOn
  <2> DEFINE left == worker.todo \ {First(worker.todo)}
  <2>1. left \in SUBSET Tokens
    BY <1>1
  <2>2. worker' = Operation(worker.cmd, "request", left)
    BY <1>5 DEF GoesOn
  <2> HIDE DEF left
  <2>3. /\ worker' # Idle /\ WorkerTyped' /\ worker'.pc = "request"
        /\ worker'.cmd = worker.cmd /\ worker'.elapsed = 0
        /\ worker'.todo = left
    BY <1>1, <2>1, <2>2, OperationFields
  <2>4. registered' = TRUE
    BY <1>5 DEF GoesOn, Dispatching, ReadyInv, Ends
  <2>5. QED
    BY <1>2, <1>5, <2>3, <2>4 DEF GoesOn, Follows, left
<1>6. QED
  BY <1>3, <1>4, <1>5 DEF Ends

\* The answer of a request that was carried out did not arrive.
Unheard ==
  unanswered' = IF worker.cmd.kind = "event" THEN unanswered \cup {worker.cmd.item}
                ELSE unanswered

\* A step of the worker at the relay.
Requests ==
  /\ worker # Idle /\ UNCHANGED <<devices, sent, queue, node, since, offered>> /\ Tries
  /\ \/ UNCHANGED <<known, bound, got, unanswered>> /\ (Ends(FALSE) \/ Retries)
     \/ Carries /\ unanswered' = unanswered /\ Ends(TRUE)
     \/ Carries /\ Unheard /\ (Ends(FALSE) \/ Retries)

LEMMA AnsweredRequests == ASSUME PushTyped, ReadyInv, Answered PROVE Requests
<1>1. /\ worker # Idle
      /\ UNCHANGED <<devices, sent, queue, node, since, offered>> /\ unanswered' = unanswered
  BY BusyIsNotIdle DEF PushTyped, Answered, rest
<1>2. Tries
  BY <1>1, TryingTries DEF Answered
<1>3. CASE Acceptable /\ CarriedOut /\ ensure_success
  <2>1. Carries
    BY <1>1, <1>3, CarriedOutCarries
  <2>2. Ends(TRUE)
    BY <1>1, <1>3, FinishEnds DEF ensure_success
  <2>3. QED
    BY <1>1, <1>2, <2>1, <2>2 DEF Requests
<1>4. CASE Finish(FALSE) /\ UNCHANGED <<known, bound, got>>
  <2>1. Ends(FALSE)
    BY <1>1, <1>4, FinishEnds
  <2>2. QED
    BY <1>1, <1>2, <1>4, <2>1 DEF Requests
<1>5. QED
  BY <1>3, <1>4 DEF Answered

LEMMA NoAnswerRequests == ASSUME PushTyped, ReadyInv, NoAnswer PROVE Requests
<1>1. /\ worker # Idle /\ worker.elapsed <= Budget
      /\ UNCHANGED <<devices, sent, queue, node, since, offered>>
  BY BusyIsNotIdle DEF PushTyped, NoAnswer, rest
<1>2. Tries
  BY <1>1, TryingTries DEF NoAnswer
<1>3. Ends(FALSE) \/ Retries
  <2>1. PICK took \in 0 .. Budget - worker.elapsed, jitter \in 0 .. MinDelay :
          \/ Finish(FALSE)
          \/ /\ ~OutOfBudget(worker.backoff + jitter, Budget - worker.elapsed)
             /\ worker' = [worker EXCEPT !.backoff = NextDelay(@),
                                         !.elapsed = @ + took + (worker.backoff + jitter)]
             /\ UNCHANGED <<registered, last, done>>
    BY DEF NoAnswer
  <2>2. CASE Finish(FALSE)
    BY <1>1, <2>2, FinishEnds
  <2>3. CASE /\ ~OutOfBudget(worker.backoff + jitter, Budget - worker.elapsed)
             /\ worker' = [worker EXCEPT !.backoff = NextDelay(@),
                                         !.elapsed = @ + took + (worker.backoff + jitter)]
             /\ UNCHANGED <<registered, last, done>>
    BY <1>1, <2>3, SleepRetries
  <2>4. QED
    BY <2>1, <2>2, <2>3
<1>4. \/ UNCHANGED <<known, bound, got, unanswered>>
      \/ CarriedOut /\ Unheard
  BY DEF NoAnswer, Unheard
<1>5. CASE UNCHANGED <<known, bound, got, unanswered>>
  BY <1>1, <1>2, <1>3, <1>5 DEF Requests
<1>6. CASE CarriedOut /\ Unheard
  <2>1. Carries
    BY <1>1, <1>6, CarriedOutCarries
  <2>2. QED
    BY <1>1, <1>2, <1>3, <1>6, <2>1 DEF Requests
<1>7. QED
  BY <1>4, <1>5, <1>6

LEMMA ExpireRequests == ASSUME PushTyped, ReadyInv, SinceInv, Expire PROVE Requests
<1>1. /\ worker # Idle /\ worker.elapsed > Budget /\ Finish(FALSE)
      /\ UNCHANGED <<devices, sent, queue, node, since, offered, tried>>
      /\ UNCHANGED <<known, bound, got, unanswered>>
  BY BusyIsNotIdle DEF PushTyped, Expire, rest
<1>2. worker.elapsed > 0
  BY <1>1, WorkerFields, PushAssumption DEF PushTyped
<1>3. Tries
  BY <1>1, <1>2 DEF Tries, SinceInv, PushTyped
<1>4. Ends(FALSE)
  BY <1>1, FinishEnds
<1>5. QED
  BY <1>1, <1>3, <1>4 DEF Requests

\* A command that the worker takes up.
TakesUp ==
  /\ worker = Idle /\ Takes
  /\ UNCHANGED <<devices, sent, known, bound, since, offered, tried, got, unanswered, last>>
  /\ node' \in BOOLEAN /\ registered' \in BOOLEAN /\ done' \subseteq Events
  /\ \/ worker' = Idle
     \/ /\ worker' # Idle /\ WorkerTyped' /\ worker'.cmd = queue[1] /\ worker'.elapsed = 0
        /\ node' /\ (worker'.pc = "request" => registered')
        /\ Dispatching' => worker'.todo = Held /\ Held # {}

LEMMA ReceiveTakesUp == ASSUME PushTyped, Receive PROVE TakesUp
<1> DEFINE cmd == Head(queue)
<1> DEFINE named == node \/ cmd.kind = "node"
<1>1. /\ worker = Idle /\ queue # <<>> /\ queue' = Tail(queue) /\ node' = named
      /\ registered' = (registered /\ Ready(cmd))
      /\ worker' = (IF ~named THEN Idle
                    ELSE IF Ready(cmd) THEN Start(cmd) ELSE Operation(cmd, "pair", {}))
      /\ done' = Done(cmd) \/ done' = done
      /\ UNCHANGED <<devices, sent, known, bound, since, offered, tried, got, unanswered, last>>
  BY DEF Receive, rest
<1>2. Takes
  BY <1>1, TailTakes DEF PushTyped
<1>3. cmd = queue[1] /\ cmd \in Cmd
  BY <1>2 DEF Takes
<1>4. node' \in BOOLEAN /\ registered' \in BOOLEAN
  BY <1>1 DEF PushTyped, Ready
<1>5. done' \subseteq Events
  BY <1>1, <1>3, CommandFields DEF PushTyped, Done
<1> HIDE DEF cmd
<1>6. CASE worker' = Idle
  BY <1>1, <1>2, <1>4, <1>5, <1>6 DEF TakesUp
<1>7. CASE worker' # Idle /\ Ready(cmd)
  <2>1. /\ node' = TRUE /\ registered' = TRUE /\ worker' = Start(cmd)
    BY <1>1, <1>4, <1>7 DEF Ready, PushTyped
  <2>2. /\ cmd.kind = "event" => Held # {}
        /\ worker' = Operation(cmd, "request", IF cmd.kind = "event" THEN Held ELSE {})
    BY <1>7, <2>1 DEF Start, Recipients
  <2>3. (IF cmd.kind = "event" THEN Held ELSE {}) \in SUBSET Tokens
    BY HeldAreTokens
  <2>4. /\ worker' # Idle /\ WorkerTyped' /\ worker'.pc = "request" /\ worker'.cmd = cmd
        /\ worker'.todo = (IF cmd.kind = "event" THEN Held ELSE {}) /\ worker'.elapsed = 0
    BY <1>3, <2>2, <2>3, OperationFields
  <2>5. Dispatching' => worker'.todo = Held /\ Held # {}
    BY <2>2, <2>4 DEF Dispatching
  <2>6. QED
    BY <1>1, <1>2, <1>3, <1>4, <1>5, <2>1, <2>4, <2>5 DEF TakesUp
<1>8. CASE worker' # Idle /\ ~Ready(cmd)
  <2>1. node' = TRUE /\ worker' = Operation(cmd, "pair", {})
    BY <1>1, <1>4, <1>8
  <2>2. /\ worker' # Idle /\ WorkerTyped' /\ worker'.pc = "pair" /\ worker'.cmd = cmd
        /\ worker'.elapsed = 0
    BY <1>3, <2>1, OperationFields
  <2>3. ~Dispatching'
    BY <2>2 DEF Dispatching
  <2>4. QED
    BY <1>1, <1>2, <1>3, <1>4, <1>5, <2>1, <2>2, <2>3 DEF TakesUp
<1>9. QED
  BY <1>6, <1>7, <1>8

-----------------------------------------------------------------------------
(* A step of the worker at the relay.                                      *)

LEMMA RequestsKeepWaiting ==
  ASSUME Requests
  PROVE  /\ Held' = Held /\ \A e : Waits(e)' <=> Waits(e)
         /\ \A t : QueuedChange(t)' <=> QueuedChange(t)
BY DEF Requests, Held, Waits, QueuedChange

\* The worker afterwards: at rest, at the same request, or at one that follows.
LEMMA RequestsNext ==
  ASSUME PushTyped, ReadyInv, Requests
  PROVE  /\ \/ Follows(TRUE)
            \/ Retries
         /\ WorkerTyped' /\ registered' \in BOOLEAN
         /\ worker' # Idle => worker'.cmd = worker.cmd
<1>1. Ends(TRUE) \/ Ends(FALSE) \/ Retries
  BY DEF Requests
<1>2. CASE Ends(TRUE)
  <2>1. Follows(TRUE) /\ WorkerTyped' /\ registered' \in BOOLEAN
    BY <1>2, EndsFollows DEF Requests
  <2>2. QED
    BY <2>1 DEF Follows
<1>3. CASE Ends(FALSE)
  <2>1. Follows(FALSE) /\ WorkerTyped' /\ registered' \in BOOLEAN
    BY <1>3, EndsFollows DEF Requests
  <2>2. QED
    BY <2>1 DEF Follows
<1>4. CASE Retries
  BY <1>4 DEF Retries, PushTyped
<1>5. QED
  BY <1>1, <1>2, <1>3, <1>4

LEMMA RequestsKeepTypes == ASSUME PushTyped, ReadyInv, Requests PROVE PushTyped'
<1>1. WorkerTyped' /\ registered' \in BOOLEAN
  BY RequestsNext
<1>2. /\ UNCHANGED <<devices, sent, queue, node, since, offered>>
      /\ tried' \in [Events -> SUBSET Tokens]
  BY DEF Requests, Tries
<1>3. /\ worker.cmd.kind \in Changes => worker.cmd.item \in Tokens
      /\ worker.cmd.kind = "event" => worker.cmd.item \in Events
  BY WorkerFields DEF Requests, PushTyped
<1>4. /\ known' \in BOOLEAN /\ bound' \subseteq Tokens
      /\ got' \in [Events -> [Tokens -> Nat]]
  BY DEF Requests, Carries, BoundMoves, GotMoves, PushTyped
<1>5. unanswered' \subseteq Events
  BY <1>3 DEF Requests, Unheard, PushTyped
<1>6. done' \subseteq Events /\ last' \in [Tokens -> BOOLEAN \cup {None}]
  <2>1. CASE Retries
    BY <2>1 DEF Retries, PushTyped
  <2>2. CASE Ends(TRUE) \/ Ends(FALSE)
    <3>1. done' = done \/ done' = Done(worker.cmd)
      BY <2>2 DEF Ends
    <3>2. last' = last \/ Counts
      BY <2>2 DEF Ends
    <3>3. QED
      BY <1>3, <3>1, <3>2 DEF Done, Counts, PushTyped
  <2>3. QED
    BY <2>1, <2>2 DEF Requests
<1>7. QED
  BY <1>1, <1>2, <1>4, <1>5, <1>6 DEF PushTyped

LEMMA RequestsKeepReady == ASSUME PushTyped, ReadyInv, Requests PROVE ReadyInv'
<1>1. worker # Idle /\ node' = node
  BY DEF Requests
<1>2. CASE Retries
  BY <1>1, <1>2 DEF Retries, ReadyInv, Dispatching
<1>3. CASE Follows(TRUE)
  BY <1>1, <1>3 DEF Follows, ReadyInv, Dispatching
<1>4. QED
  BY <1>2, <1>3, RequestsNext

LEMMA RequestsKeepOffered ==
  ASSUME PushTyped, ReadyInv, OfferedInv, Requests
  PROVE  OfferedInv'
<1>1. worker # Idle /\ UNCHANGED <<sent, offered>>
  BY DEF Requests
<1>2. Held' = Held /\ \A e : Waits(e)' <=> Waits(e)
  BY RequestsKeepWaiting
<1>3. \A e : TakenUp(e)' => TakenUp(e)
  BY <1>1, RequestsNext DEF TakenUp
<1>4. Dispatching' => worker'.todo \subseteq offered'[worker'.cmd.item]
  <2> SUFFICES ASSUME Dispatching' PROVE worker'.todo \subseteq offered[worker.cmd.item]
    BY <1>1, RequestsNext DEF Dispatching
  <2>1. CASE Retries
    BY <1>1, <2>1 DEF Retries, OfferedInv, Dispatching
  <2>2. CASE Follows(TRUE)
    <3>1. CASE Dispatching /\ worker'.todo = worker.todo \ {First(worker.todo)}
      BY <3>1 DEF OfferedInv
    <3>2. CASE worker.cmd.kind = "event" /\ worker'.todo = Held
      <4>1. TakenUp(worker.cmd.item) /\ worker.cmd.item \in Events
        BY <1>1, <3>2, WorkerFields DEF TakenUp, PushTyped
      <4>2. QED
        BY <3>2, <4>1 DEF OfferedInv
    <3>3. QED
      BY <2>2, <3>1, <3>2 DEF Follows, Dispatching
  <2>3. QED
    BY <2>1, <2>2, RequestsNext
<1>5. ASSUME NEW e \in Events PROVE tried'[e] \subseteq offered'[e]
  <2> SUFFICES ASSUME NEW t \in tried'[e] PROVE t \in offered[e]
    BY <1>1
  <2>1. t \in tried[e] \/ Pushed(e, t)
    BY DEF Requests, Tries
  <2>2. CASE Pushed(e, t)
    <3>1. t \in worker.todo
      BY <2>2, FirstIsIn DEF Pushed, ReadyInv, Dispatching
    <3>2. QED
      BY <2>2, <3>1 DEF Pushed, OfferedInv
  <2>3. QED
    BY <2>1, <2>2 DEF OfferedInv
<1>6. QED
  BY <1>1, <1>2, <1>3, <1>4, <1>5 DEF OfferedInv

LEMMA RequestsKeepSince ==
  ASSUME PushTyped, ReadyInv, SinceInv, Requests
  PROVE  SinceInv'
<1>1. worker # Idle /\ since' = since /\ Held' = Held
  BY RequestsKeepWaiting DEF Requests
<1>2. ASSUME Dispatching'
      PROVE  /\ since[worker.cmd.item] \subseteq tried'[worker.cmd.item] \cup worker'.todo
             /\ worker'.elapsed > 0 => First(worker'.todo) \in tried'[worker.cmd.item]
  <2>1. worker.cmd.kind = "event" /\ worker.cmd.item \in Events
    BY <1>1, <1>2, RequestsNext, WorkerFields DEF Dispatching, PushTyped
  <2>2. tried[worker.cmd.item] \subseteq tried'[worker.cmd.item]
    BY <2>1 DEF Requests, Tries
  <2>3. Dispatching => First(worker.todo) \in tried'[worker.cmd.item]
    BY DEF Requests, Tries
  <2>4. CASE Retries
    <3>1. Dispatching /\ worker'.todo = worker.todo
      BY <1>1, <1>2, <2>4 DEF Retries, Dispatching
    <3>2. since[worker.cmd.item] \subseteq tried[worker.cmd.item] \cup worker.todo
      BY <3>1 DEF SinceInv
    <3>3. QED
      BY <2>2, <2>3, <3>1, <3>2
  <2>5. CASE Follows(TRUE)
    <3>1. ~(worker'.elapsed > 0)
      BY <1>2, <2>5 DEF Follows, Dispatching
    <3>2. CASE Dispatching /\ worker'.todo = worker.todo \ {First(worker.todo)}
      BY <2>2, <2>3, <3>1, <3>2 DEF SinceInv
    <3>3. CASE worker'.todo = Held
      BY <2>1, <3>1, <3>3 DEF SinceInv
    <3>4. QED
      BY <1>2, <2>1, <2>5, <3>2, <3>3 DEF Follows, Dispatching
  <2>6. QED
    BY <2>4, <2>5, RequestsNext
<1>3. Dispatching' => worker'.cmd = worker.cmd
  BY RequestsNext DEF Dispatching
<1>4. QED
  BY <1>1, <1>2, <1>3 DEF SinceInv

LEMMA RequestsKeepGot ==
  ASSUME PushTyped, ReadyInv, GotInv, Requests
  PROVE  GotInv'
<1>1. worker # Idle /\ UNCHANGED <<sent, queue>> /\ sent \in Nat
  BY DEF Requests, PushTyped
<1>2. \A e : Waits(e)' <=> Waits(e)
  BY RequestsKeepWaiting
<1>3. \A e : TakenUp(e)' => TakenUp(e)
  BY <1>1, RequestsNext DEF TakenUp
<1>4. ASSUME NEW e \in Events, NEW t \in Tokens
      PROVE  /\ ~Pushed(e, t) => got'[e][t] = got[e][t]
             /\ got'[e][t] = got[e][t] \/ got'[e][t] = got[e][t] + 1
  BY DEF Requests, Carries, GotMoves
<1>5. \A e \in Events, t \in Tokens : Pushed(e, t) => TakenUp(e) /\ worker.pc = "request"
  BY DEF Pushed, TakenUp, Dispatching
<1>6. unanswered \subseteq unanswered'
  BY DEF Requests, Unheard
<1>7. ASSUME NEW e \in Events, sent < e \/ Waits(e), NEW t \in Tokens PROVE got'[e][t] = 0
  <2>1. ~TakenUp(e)
    <3>1. e \in Nat
      BY PushAssumption DEF Events
    <3>2. TakenUp(e) => e <= sent /\ ~Waits(e)
      BY DEF GotInv
    <3>3. QED
      BY <1>1, <1>7, <3>1, <3>2
  <2>2. QED
    BY <1>4, <1>5, <1>7, <2>1 DEF GotInv
<1>8. ASSUME NEW e \in Events, TakenUp(e)'
      PROVE  /\ e <= sent
             /\ worker'.pc = "pair" => \A t \in Tokens : got'[e][t] = 0
             /\ worker'.pc = "request" /\ e \notin unanswered' =>
                  \A t \in worker'.todo : got'[e][t] = 0
  <2>1. TakenUp(e) /\ worker'.cmd = worker.cmd /\ worker.cmd.item = e
        /\ worker.cmd.kind = "event" /\ worker' # Idle
    BY <1>3, <1>8, RequestsNext DEF TakenUp
  <2>2. e <= sent
    BY <2>1 DEF GotInv
  <2>3. worker.todo \subseteq Tokens /\ worker.pc \in {"pair", "request"}
    BY <1>1, WorkerFields DEF PushTyped
  <2>4. WorkerTyped'
    BY RequestsNext
  <2>5. worker'.todo \subseteq Tokens
    BY <2>1, <2>4 DEF WorkerTyped
  <2>6. CASE worker.pc = "pair"
    <3>1. \A t \in Tokens : got'[e][t] = got[e][t]
      BY <1>4, <1>5, <2>6
    <3>2. \A t \in Tokens : got'[e][t] = 0
      BY <2>1, <2>6, <3>1 DEF GotInv
    <3>3. QED
      BY <2>2, <2>5, <3>2
  <2>7. CASE worker.pc = "request"
    <3>1. worker'.pc = "request" /\ Dispatching
      BY <1>1, <2>1, <2>7, RequestsNext DEF Retries, Follows, Dispatching
    <3>2. ASSUME e \notin unanswered', NEW t \in worker'.todo PROVE got'[e][t] = 0
      <4>1. t \in Tokens /\ e \notin unanswered
        BY <1>6, <2>5, <3>2
      <4>2. CASE got' = got
        <5>1. t \in worker.todo
          BY <2>1, <2>7, RequestsNext DEF Retries, Follows
        <5>2. QED
          BY <2>1, <2>7, <4>1, <4>2, <5>1 DEF GotInv
      <4>3. CASE Ends(TRUE) \/ Ends(FALSE)
        <5>1. Follows(TRUE) \/ Follows(FALSE)
          BY <1>1, <4>3, EndsFollows
        <5>2. worker'.todo = worker.todo \ {First(worker.todo)}
          BY <2>1, <2>7, <5>1 DEF Follows
        <5>3. t \in worker.todo /\ ~Pushed(e, t)
          BY <3>2, <5>2 DEF Pushed
        <5>4. QED
          BY <1>4, <2>1, <2>7, <4>1, <5>3 DEF GotInv
      <4>4. CASE Unheard
        BY <2>1, <3>2, <4>4 DEF Unheard
      <4>5. QED
        BY <4>2, <4>3, <4>4 DEF Requests
    <3>3. QED
      BY <2>2, <3>1, <3>2
  <2>8. QED
    BY <2>3, <2>6, <2>7
<1>9. ASSUME NEW e \in Events \ unanswered', NEW t \in Tokens PROVE got'[e][t] <= 1
  <2>1. e \notin unanswered /\ got[e][t] \in Nat
    BY <1>6 DEF PushTyped
  <2>2. CASE Pushed(e, t)
    <3>1. TakenUp(e) /\ worker.pc = "request" /\ t \in worker.todo
      BY <2>2, FirstIsIn DEF Pushed, ReadyInv, Dispatching, TakenUp
    <3>2. got[e][t] = 0
      BY <2>1, <3>1 DEF GotInv
    <3>3. QED
      BY <1>4, <3>2
  <2>3. CASE ~Pushed(e, t)
    BY <1>4, <2>1, <2>3 DEF GotInv
  <2>4. QED
    BY <2>2, <2>3
<1>10. \A e \in Events : Waits(e)' => ~TakenUp(e)' /\ e <= sent'
  BY <1>1, <1>2, <1>3 DEF GotInv
<1>11. \A i, j \in 1 .. Len(queue') :
         queue'[i].kind = "event" /\ queue'[j].kind = "event" /\ queue'[i].item = queue'[j].item =>
           i = j
  BY <1>1 DEF GotInv
<1>12. QED
  BY <1>1, <1>2, <1>7, <1>8, <1>9, <1>10, <1>11 DEF GotInv

LEMMA RequestsKeepLast ==
  ASSUME PushTyped, ReadyInv, LastInv, HeldInv, Requests
  PROVE  LastInv'
<1>1. worker # Idle /\ Held' = Held /\ \A t : QueuedChange(t)' <=> QueuedChange(t)
  BY RequestsKeepWaiting DEF Requests
<1>2. \A t : WorkedChange(t)' => WorkedChange(t)
  BY <1>1, RequestsNext DEF WorkedChange
<1>3. ASSUME NEW t \in Tokens PROVE ~WorkedChange(t) => (t \in bound' <=> t \in bound)
  BY DEF Requests, Carries, BoundMoves
<1> SUFFICES ASSUME NEW t \in Tokens, last'[t] # None
             PROVE  /\ ~QueuedChange(t)' /\ ~WorkedChange(t)'
                    /\ t \in bound' <=> last'[t] = TRUE
                    /\ t \in Held' => last'[t] = TRUE
  BY DEF LastInv
<1>4. CASE last'[t] = last[t]
  BY <1>1, <1>2, <1>3, <1>4 DEF LastInv
<1>5. CASE last'[t] # last[t]
  <2>1. ~Retries /\ last' # last
    BY <1>5 DEF Retries
  <2>2. Carries /\ Ends(TRUE) /\ Counts
    BY <2>1 DEF Requests, Ends
  <2>3. /\ worker.pc = "request" /\ worker.cmd.kind \in Changes
        /\ worker.cmd.item = t /\ ~QueuedChange(t)
        /\ last'[t] = (worker.cmd.kind = "register")
    BY <1>5, <2>2 DEF Counts, PushTyped
  <2>4. t \in bound' <=> worker.cmd.kind = "register"
    BY <2>2, <2>3 DEF Carries
  <2>5. ~WorkedChange(t)'
    <3>1. Follows(TRUE)
      BY <1>1, <2>2, EndsFollows
    <3>2. worker' = Idle
      BY <2>3, <3>1 DEF Follows, Dispatching, Changes
    <3>3. QED
      BY <3>2 DEF WorkedChange
  <2>6. t \in Held => worker.cmd.kind = "register"
    <3> SUFFICES ASSUME t \in Held, worker.cmd.kind = "unregister" PROVE FALSE
      BY <2>3 DEF Changes
    <3>1. PICK j \in 1 .. Len(queue) : queue[j].kind = "register" /\ queue[j].item = t
      BY <1>1, <2>3 DEF HeldInv
    <3>2. QED
      BY <2>3, <3>1 DEF QueuedChange, Changes
  <2>7. QED
    BY <1>1, <2>3, <2>4, <2>5, <2>6
<1>6. QED
  BY <1>4, <1>5

LEMMA RequestsKeepHeld == ASSUME PushTyped, ReadyInv, HeldInv, Requests PROVE HeldInv'
<1>1. worker # Idle /\ Held' = Held /\ UNCHANGED <<devices, queue>>
  BY RequestsKeepWaiting DEF Requests
<1>2. worker' # Idle => worker'.cmd = worker.cmd
  BY RequestsNext
<1>3. QED
  BY <1>1, <1>2 DEF HeldInv

LEMMA RequestsStep == ASSUME PushIInv, Requests PROVE PushIInv'
<1> USE DEF PushIInv
<1>1. PushTyped' /\ ReadyInv'
  BY RequestsKeepTypes, RequestsKeepReady
<1>2. OfferedInv' /\ SinceInv'
  BY RequestsKeepOffered, RequestsKeepSince
<1>3. GotInv' /\ LastInv' /\ HeldInv'
  BY RequestsKeepGot, RequestsKeepLast, RequestsKeepHeld
<1>4. QED
  BY <1>1, <1>2, <1>3

-----------------------------------------------------------------------------
(* The worker takes up a command.                                          *)

LEMMA TakesUpWaits ==
  ASSUME PushTyped, TakesUp
  PROVE  /\ Held' = Held
         /\ \A e : Waits(e)' => Waits(e)
         /\ \A t : QueuedChange(t)' => QueuedChange(t)
         /\ \A e : TakenUp(e)' => queue[1].kind = "event" /\ queue[1].item = e
         /\ \A t : WorkedChange(t)' => QueuedChange(t)
<1>1. Takes /\ devices' = devices /\ (worker' # Idle => worker'.cmd = queue[1])
  BY DEF TakesUp
<1>2. 1 \in 1 .. Len(queue)
  BY <1>1 DEF Takes
<1>3. ASSUME NEW e, Waits(e)' PROVE Waits(e)
  <2>1. PICK i \in 2 .. Len(queue) : queue[i].kind = "event" /\ queue[i].item = e
    BY <1>1, <1>3, TakenWaits
  <2>2. i \in 1 .. Len(queue)
    BY <1>2
  <2>3. QED
    BY <2>1, <2>2 DEF Waits
<1>4. \A t : QueuedChange(t)' => QueuedChange(t)
  BY <1>1, TakenChanges
<1>5. QED
  BY <1>1, <1>2, <1>3, <1>4 DEF Held, TakenUp, WorkedChange, QueuedChange

LEMMA TakesUpKeepsOffered ==
  ASSUME PushTyped, OfferedInv, TakesUp
  PROVE  OfferedInv'
<1>1. UNCHANGED <<sent, offered, tried>> /\ Held' = Held
  BY TakesUpWaits DEF TakesUp
<1>2. ASSUME NEW e \in Events, Waits(e)' \/ TakenUp(e)' PROVE Waits(e)
  <2>1. 1 \in 1 .. Len(queue)
    BY DEF TakesUp, Takes
  <2>2. QED
    BY <1>2, <2>1, TakesUpWaits DEF Waits
<1>3. Dispatching' => worker'.todo \subseteq offered'[worker'.cmd.item]
  <2> SUFFICES ASSUME Dispatching' PROVE worker'.todo \subseteq offered[worker'.cmd.item]
    BY <1>1
  <2>1. worker'.todo = Held /\ worker'.cmd = queue[1]
    BY DEF TakesUp, Dispatching
  <2>2. queue[1] \in Cmd
    BY DEF TakesUp, Takes
  <2>3. PICK e \in Events : e = worker'.cmd.item
    BY <2>1, <2>2, CommandFields DEF Dispatching
  <2>4. TakenUp(e)'
    BY <2>3 DEF Dispatching, TakenUp
  <2>5. QED
    BY <1>2, <2>1, <2>3, <2>4 DEF OfferedInv
<1>4. QED
  BY <1>1, <1>2, <1>3 DEF OfferedInv

LEMMA TakesUpKeepsSince == ASSUME PushTyped, SinceInv, TakesUp PROVE SinceInv'
<1>1. UNCHANGED <<since, tried>> /\ Held' = Held
  BY TakesUpWaits DEF TakesUp
<1>2. ASSUME Dispatching'
      PROVE  /\ worker'.todo = Held /\ ~(worker'.elapsed > 0) /\ worker'.cmd.item \in Events
  <2>1. worker'.todo = Held /\ worker'.cmd = queue[1] /\ worker'.elapsed = 0 /\ queue[1] \in Cmd
    BY <1>2 DEF TakesUp, Takes, Dispatching
  <2>2. QED
    BY <1>2, <2>1, CommandFields DEF Dispatching
<1>3. QED
  BY <1>1, <1>2 DEF SinceInv

LEMMA TakesUpKeepsGot == ASSUME PushTyped, GotInv, TakesUp PROVE GotInv'
<1>1. UNCHANGED <<sent, got, unanswered>> /\ Takes /\ worker = Idle
  BY DEF TakesUp
<1>2. /\ \A e : Waits(e)' => Waits(e)
      /\ \A e : TakenUp(e)' => queue[1].kind = "event" /\ queue[1].item = e
  BY TakesUpWaits
<1>3. 1 \in 1 .. Len(queue) /\ Len(queue) \in Nat
  BY <1>1 DEF Takes
<1>4. ASSUME NEW e, TakenUp(e)' PROVE Waits(e)
  BY <1>2, <1>3, <1>4 DEF Waits
<1>5. ASSUME NEW e, TakenUp(e)', Waits(e)' PROVE FALSE
  <2>1. PICK i \in 2 .. Len(queue) : queue[i].kind = "event" /\ queue[i].item = e
    BY <1>1, <1>5, TakenWaits
  <2>2. i \in 1 .. Len(queue) /\ i # 1
    BY <1>3
  <2>3. queue[1].kind = "event" /\ queue[1].item = e
    BY <1>2, <1>5
  <2>4. QED
    BY <1>3, <2>1, <2>2, <2>3 DEF GotInv
<1>6. ASSUME NEW i \in 1 .. Len(queue'), NEW j \in 1 .. Len(queue'),
             queue'[i].kind = "event", queue'[j].kind = "event", queue'[i].item = queue'[j].item
      PROVE  i = j
  <2>1. /\ i + 1 \in 1 .. Len(queue) /\ j + 1 \in 1 .. Len(queue)
        /\ queue'[i] = queue[i + 1] /\ queue'[j] = queue[j + 1]
    BY <1>1 DEF Takes
  <2>2. i + 1 = j + 1
    BY <1>6, <2>1 DEF GotInv
  <2>3. QED
    BY <2>2
<1>7. ASSUME NEW e \in Events, TakenUp(e)'
      PROVE  /\ e <= sent
             /\ \A t \in Tokens : got[e][t] = 0
             /\ worker'.todo \subseteq Tokens
  <2>1. Waits(e)
    BY <1>4, <1>7
  <2>2. WorkerTyped' /\ worker' # Idle
    BY <1>7 DEF TakesUp, TakenUp
  <2>3. QED
    BY <2>1, <2>2 DEF GotInv, WorkerTyped
<1>8. \A e \in Events : Waits(e)' => ~TakenUp(e)' /\ e <= sent
  BY <1>2, <1>5 DEF GotInv
<1>9. \A e \in Events : sent < e \/ Waits(e)' => \A t \in Tokens : got[e][t] = 0
  BY <1>2 DEF GotInv
<1>10. \A e \in Events \ unanswered : \A t \in Tokens : got[e][t] <= 1
  BY DEF GotInv
<1>11. \A e \in Events : TakenUp(e)' =>
         /\ e <= sent
         /\ worker'.pc = "pair" => \A t \in Tokens : got[e][t] = 0
         /\ worker'.pc = "request" /\ e \notin unanswered =>
              \A t \in worker'.todo : got[e][t] = 0
  BY <1>7
<1>12. QED
  BY <1>1, <1>6, <1>8, <1>9, <1>10, <1>11 DEF GotInv

LEMMA TakesUpKeepsLast == ASSUME PushTyped, LastInv, TakesUp PROVE LastInv'
<1>1. UNCHANGED <<last, bound>>
  BY DEF TakesUp
<1>2. QED
  BY <1>1, TakesUpWaits DEF LastInv

LEMMA TakesUpKeepsHeld == ASSUME PushTyped, HeldInv, TakesUp PROVE HeldInv'
<1>1. devices' = devices /\ Held' = Held /\ Takes
  BY TakesUpWaits DEF TakesUp
<1>2. ASSUME NEW i \in 1 .. Len(queue'), queue'[i].kind = "unregister", queue'[i].item \in Held
      PROVE  \E j \in i .. Len(queue') :
               queue'[j].kind = "register" /\ queue'[j].item = queue'[i].item
  <2>1. i + 1 \in 1 .. Len(queue) /\ queue'[i] = queue[i + 1]
    BY <1>1 DEF Takes
  <2>2. PICK j \in i + 1 .. Len(queue) :
          queue[j].kind = "register" /\ queue[j].item = queue[i + 1].item
    BY <1>2, <2>1 DEF HeldInv
  <2>3. j - 1 \in i .. Len(queue') /\ queue'[j - 1] = queue[j]
    BY <1>1 DEF Takes
  <2>4. QED
    BY <2>1, <2>2, <2>3
<1>3. ASSUME worker' # Idle, worker'.cmd.kind = "unregister", worker'.cmd.item \in Held
      PROVE  \E j \in 1 .. Len(queue') :
               queue'[j].kind = "register" /\ queue'[j].item = worker'.cmd.item
  <2>1. worker'.cmd = queue[1] /\ 1 \in 1 .. Len(queue)
    BY <1>1, <1>3 DEF TakesUp, Takes
  <2>2. PICK j \in 1 .. Len(queue) : queue[j].kind = "register" /\ queue[j].item = queue[1].item
    BY <1>3, <2>1 DEF HeldInv
  <2>3. j # 1
    BY <1>3, <2>1, <2>2
  <2>4. j - 1 \in 1 .. Len(queue') /\ queue'[j - 1] = queue[j]
    BY <1>1, <2>3 DEF Takes
  <2>5. QED
    BY <2>1, <2>2, <2>4
<1>4. QED
  BY <1>1, <1>2, <1>3 DEF HeldInv

LEMMA TakesUpStep == ASSUME PushIInv, TakesUp PROVE PushIInv'
<1> USE DEF PushIInv
<1>1. PushTyped'
  BY DEF TakesUp, Takes, PushTyped, WorkerTyped
<1>2. ReadyInv'
  BY DEF TakesUp, ReadyInv, Dispatching
<1>3. OfferedInv' /\ SinceInv' /\ GotInv'
  BY TakesUpKeepsOffered, TakesUpKeepsSince, TakesUpKeepsGot
<1>4. LastInv' /\ HeldInv'
  BY TakesUpKeepsLast, TakesUpKeepsHeld
<1>5. QED
  BY <1>1, <1>2, <1>3, <1>4

-----------------------------------------------------------------------------
(* The senders.                                                            *)

\* A command that is sent: the worker and the relay are not concerned.
Enqueues(c) ==
  /\ Queues(c) /\ sent < MaxCommands /\ sent' = sent + 1
  /\ UNCHANGED <<worker, node, registered, known, bound, tried, got, unanswered, done>>

LEMMA SendingEnqueues ==
  ASSUME PushTyped, NEW c \in Cmd, Sending(c),
         UNCHANGED <<worker, node, registered, known, bound, tried, got, unanswered, done>>
  PROVE  Enqueues(c)
<1>1. Queues(c)
  BY AppendQueues DEF PushTyped, Sending, Send
<1>2. QED
  BY <1>1 DEF Enqueues, Sending

\* Nothing is pushed by the senders.
LEMMA EnqueueKeepsGot ==
  ASSUME PushTyped, GotInv, NEW c, Enqueues(c), c.kind = "event" => c.item = sent + 1
  PROVE  GotInv'
<1>1. UNCHANGED <<worker, got, unanswered>> /\ sent' = sent + 1 /\ Queues(c) /\ sent \in Nat
  BY DEF Enqueues, PushTyped
<1>2. \A e : Waits(e)' <=> Waits(e) \/ (c.kind = "event" /\ e = sent + 1)
  BY <1>1, QueuedWaits
<1>3. \A e : TakenUp(e)' <=> TakenUp(e)
  BY <1>1 DEF TakenUp
<1>4. \A e \in Events : e \in Nat
  BY PushAssumption DEF Events
<1>5. ASSUME NEW e \in Events, sent + 1 < e \/ Waits(e)' PROVE \A t \in Tokens : got[e][t] = 0
  BY <1>1, <1>2, <1>4, <1>5 DEF GotInv
<1>6. ASSUME NEW e \in Events, Waits(e)' PROVE ~TakenUp(e) /\ e <= sent + 1
  BY <1>1, <1>2, <1>4, <1>6 DEF GotInv
<1>7. ASSUME NEW i \in 1 .. Len(queue'), NEW j \in 1 .. Len(queue'),
             queue'[i].kind = "event", queue'[j].kind = "event", queue'[i].item = queue'[j].item
      PROVE  i = j
  <2>1. /\ i \in 1 .. Len(queue) \/ (i = Len(queue) + 1 /\ queue'[i] = c)
        /\ j \in 1 .. Len(queue) \/ (j = Len(queue) + 1 /\ queue'[j] = c)
    BY <1>1 DEF Queues
  <2>2. ASSUME NEW k \in 1 .. Len(queue), queue'[k].kind = "event" PROVE queue'[k].item # sent + 1
    <3>1. queue'[k] = queue[k] /\ queue[k] \in Cmd
      BY <1>1 DEF Queues, PushTyped
    <3>2. queue[k].item \in Events /\ Waits(queue[k].item)
      BY <2>2, <3>1, CommandFields DEF Waits
    <3>3. queue[k].item <= sent /\ queue[k].item \in Nat
      BY <1>4, <3>2 DEF GotInv
    <3>4. QED
      BY <1>1, <3>1, <3>3
  <2>3. CASE i \in 1 .. Len(queue) /\ j \in 1 .. Len(queue)
    <3>1. queue'[i] = queue[i] /\ queue'[j] = queue[j]
      BY <1>1, <2>3 DEF Queues
    <3>2. QED
      BY <1>7, <2>3, <3>1 DEF GotInv
  <2>4. QED
    BY <1>7, <2>1, <2>2, <2>3
<1>8. ASSUME NEW e \in Events, TakenUp(e) PROVE e <= sent + 1
  <2>1. e <= sent
    BY <1>8 DEF GotInv
  <2>2. QED
    BY <1>1, <1>4, <2>1
<1>9. \A e \in Events : TakenUp(e) =>
         /\ e <= sent + 1
         /\ worker.pc = "pair" => \A t \in Tokens : got[e][t] = 0
         /\ worker.pc = "request" /\ e \notin unanswered =>
              \A t \in worker.todo : got[e][t] = 0
  BY <1>8 DEF GotInv
<1>10. \A e \in Events \ unanswered : \A t \in Tokens : got[e][t] <= 1
  BY DEF GotInv
<1>11. QED
  BY <1>1, <1>3, <1>5, <1>6, <1>7, <1>9, <1>10 DEF GotInv

LEMMA EnqueueKeepsReady == ASSUME ReadyInv, NEW c, Enqueues(c) PROVE ReadyInv'
BY DEF Enqueues, ReadyInv, Dispatching

\* Those who were there all along are the ones that hold a token still.
LEMMA EnqueueKeepsSince ==
  ASSUME PushTyped, SinceInv, NEW c, Enqueues(c),
         \A e \in Events : since'[e] \subseteq Held',
         Dispatching => since'[worker.cmd.item] \subseteq since[worker.cmd.item]
  PROVE  SinceInv'
BY DEF Enqueues, SinceInv, Dispatching

\* Offers are added to the events that were sent.
LEMMA EnqueueKeepsOffered ==
  ASSUME PushTyped, OfferedInv, NEW c, Enqueues(c), c.kind = "event" => c.item = sent + 1,
         \A e \in Events : e <= sent => offered[e] \subseteq offered'[e],
         \A e \in Events : sent + 1 < e => offered'[e] = {},
         \A e \in Events : e <= sent /\ Held \subseteq offered[e] => Held' \subseteq offered'[e],
         c.kind = "event" => Held' \subseteq offered'[sent + 1]
  PROVE  OfferedInv'
<1>1. UNCHANGED <<worker, tried>> /\ sent' = sent + 1 /\ Queues(c) /\ sent \in Nat
  BY DEF Enqueues, PushTyped
<1>2. \A e : Waits(e)' <=> Waits(e) \/ (c.kind = "event" /\ e = sent + 1)
  BY <1>1, QueuedWaits
<1>3. \A e : TakenUp(e)' <=> TakenUp(e)
  BY <1>1 DEF TakenUp
<1>4. \A e \in Events : e \in Nat
  BY PushAssumption DEF Events
<1>5. ASSUME NEW e \in Events, Waits(e)' \/ TakenUp(e)'
      PROVE  e <= sent + 1 /\ Held' \subseteq offered'[e]
  <2>1. CASE c.kind = "event" /\ e = sent + 1
    BY <1>1, <2>1
  <2>2. CASE Waits(e) \/ TakenUp(e)
    <3>1. e <= sent /\ Held \subseteq offered[e]
      BY <2>2 DEF OfferedInv
    <3>2. QED
      BY <1>1, <1>4, <3>1
  <2>3. QED
    BY <1>2, <1>3, <1>5, <2>1, <2>2
<1>6. ASSUME Dispatching' PROVE worker.todo \subseteq offered'[worker.cmd.item]
  <2>1. Dispatching /\ TakenUp(worker.cmd.item)
    BY <1>1, <1>6 DEF Dispatching, TakenUp
  <2>2. worker.cmd.item \in Events
    BY <2>1, WorkerFields DEF Dispatching, PushTyped
  <2>3. worker.todo \subseteq offered[worker.cmd.item] /\ worker.cmd.item <= sent
    BY <2>1, <2>2 DEF OfferedInv
  <2>4. QED
    BY <2>2, <2>3
<1>7. ASSUME NEW e \in Events PROVE tried[e] \subseteq offered'[e]
  <2>1. CASE e <= sent
    BY <2>1 DEF OfferedInv
  <2>2. CASE ~(e <= sent)
    <3>1. offered[e] = {}
      BY <1>1, <1>4, <2>2 DEF OfferedInv
    <3>2. tried[e] \subseteq {}
      BY <3>1 DEF OfferedInv
    <3>3. QED
      BY <3>2
  <2>3. QED
    BY <2>1, <2>2
<1>8. QED
  BY <1>1, <1>5, <1>6, <1>7 DEF OfferedInv

\* A change in the queue has its token among the last changes no more.
LEMMA EnqueueKeepsLast ==
  ASSUME PushTyped, LastInv, NEW c, Enqueues(c),
         \A t \in Tokens : last'[t] # None => /\ last'[t] = last[t]
                                              /\ ~(c.kind \in Changes /\ c.item = t)
                                              /\ t \in Held' => t \in Held
  PROVE  LastInv'
<1>1. UNCHANGED <<worker, bound>> /\ Queues(c)
  BY DEF Enqueues
<1>2. \A t : QueuedChange(t)' => QueuedChange(t) \/ (c.kind \in Changes /\ c.item = t)
  BY <1>1, QueuedChanges
<1>3. \A t : WorkedChange(t)' <=> WorkedChange(t)
  BY <1>1 DEF WorkedChange
<1>4. QED
  BY <1>1, <1>2, <1>3 DEF LastInv

\* What is removed and held still is registered behind.
LEMMA EnqueueKeepsHeld ==
  ASSUME PushTyped, HeldInv, NEW c, Enqueues(c),
         \A d \in Devices : devices'[d] # None => devices'[d] \in TokensOf[d],
         \A t \in Held' : t \in Held \/ (c.kind = "register" /\ c.item = t),
         c.kind = "unregister" => c.item \notin Held'
  PROVE  HeldInv'
<1>1. worker' = worker /\ Queues(c)
  BY DEF Enqueues
<1>2. /\ Len(queue) \in Nat /\ Len(queue') = Len(queue) + 1
      /\ \A i \in 1 .. Len(queue) : queue'[i] = queue[i]
      /\ queue'[Len(queue) + 1] = c
  BY <1>1 DEF Queues
<1>3. ASSUME NEW i \in 1 .. Len(queue'), queue'[i].kind = "unregister", queue'[i].item \in Held'
      PROVE  \E j \in i .. Len(queue') :
               queue'[j].kind = "register" /\ queue'[j].item = queue'[i].item
  <2>1. i \in 1 .. Len(queue) /\ queue'[i] = queue[i]
    BY <1>2, <1>3
  <2>2. CASE queue[i].item \in Held
    <3>1. PICK j \in i .. Len(queue) : queue[j].kind = "register" /\ queue[j].item = queue[i].item
      BY <1>3, <2>1, <2>2 DEF HeldInv
    <3>2. j \in i .. Len(queue') /\ queue'[j] = queue[j]
      BY <1>2, <2>1
    <3>3. QED
      BY <2>1, <3>1, <3>2
  <2>3. CASE c.kind = "register" /\ c.item = queue[i].item
    <3>1. Len(queue) + 1 \in i .. Len(queue')
      BY <1>2, <2>1
    <3>2. QED
      BY <1>2, <2>1, <2>3, <3>1
  <2>4. QED
    BY <1>3, <2>1, <2>2, <2>3
<1>4. ASSUME worker # Idle, worker.cmd.kind = "unregister", worker.cmd.item \in Held'
      PROVE  \E j \in 1 .. Len(queue') :
               queue'[j].kind = "register" /\ queue'[j].item = worker.cmd.item
  <2>1. CASE worker.cmd.item \in Held
    <3>1. PICK j \in 1 .. Len(queue) :
            queue[j].kind = "register" /\ queue[j].item = worker.cmd.item
      BY <1>4, <2>1 DEF HeldInv
    <3>2. j \in 1 .. Len(queue') /\ queue'[j] = queue[j]
      BY <1>2
    <3>3. QED
      BY <3>1, <3>2
  <2>2. CASE c.kind = "register" /\ c.item = worker.cmd.item
    <3>1. Len(queue) + 1 \in 1 .. Len(queue')
      BY <1>2
    <3>2. QED
      BY <1>2, <2>2, <3>1
  <2>3. QED
    BY <1>4, <2>1, <2>2
<1>5. QED
  BY <1>1, <1>3, <1>4 DEF HeldInv

\* A token that appears is the one registered, and no other goes than the
\* one the device held.
LEMMA HeldAfter ==
  ASSUME PushTyped, NEW d \in Devices, NEW x \in Tokens \cup {None},
         devices' = [devices EXCEPT ![d] = x]
  PROVE  /\ \A t \in Held' : t \in Held \/ t = x
         /\ \A t \in Held : t = devices[d] \/ t \in Held'
         /\ x # None => x \in Held'
<1>1. devices \in [Devices -> Tokens \cup {None}]
  BY DEF PushTyped
<1>2. \A e \in Devices : devices'[e] = IF e = d THEN x ELSE devices[e]
  BY <1>1
<1>3. Held' = {devices'[e] : e \in Devices} \ {None}
  BY DEF Held
<1>4. QED
  BY <1>2, <1>3 DEF Held

LEMMA SinceAfter ==
  ASSUME PushTyped, SinceInv, NEW d \in Devices,
         \A t \in Held : t = devices[d] \/ t \in Held',
         since' = [e \in Events |-> since[e] \ {devices[d]}]
  PROVE  /\ \A e \in Events : since'[e] \subseteq Held'
         /\ \A e \in Events : since'[e] \subseteq since[e]
         /\ since' \in [Events -> SUBSET Tokens]
<1>1. \A e \in Events : since'[e] = since[e] \ {devices[d]} /\ since[e] \subseteq Held
  BY DEF SinceInv
<1>2. since \in [Events -> SUBSET Tokens]
  BY DEF PushTyped
<1>3. QED
  BY <1>1, <1>2

LEMMA RegisterTokenStep ==
  ASSUME PushIInv, NEW d \in Devices, NEW t \in TokensOf[d], RegisterToken(d, t)
  PROVE  PushIInv'
<1> USE DEF PushIInv
<1> DEFINE c == Command("register", t)
<1>1. t \in Tokens /\ t # None
  BY PushAssumption DEF Tokens
<1>2. c \in Cmd /\ c.kind = "register" /\ c.item = t
  BY <1>1 DEF Command, Cmd, Item, Changes
<1>3. /\ devices' = [devices EXCEPT ![d] = t] /\ last' = [last EXCEPT ![t] = None]
      /\ since' = [e \in Events |-> since[e] \ {devices[d]}]
      /\ offered' = [e \in Events |-> IF e <= sent THEN offered[e] \cup {t} ELSE {}]
  BY DEF RegisterToken
<1>4. Enqueues(c)
  BY <1>2, SendingEnqueues DEF RegisterToken
<1> HIDE DEF c
<1>5. /\ \A u \in Held' : u \in Held \/ u = t
      /\ \A u \in Held : u = devices[d] \/ u \in Held'
  BY <1>1, <1>3, HeldAfter
<1>6. /\ \A e \in Events : since'[e] \subseteq Held'
      /\ \A e \in Events : since'[e] \subseteq since[e]
      /\ since' \in [Events -> SUBSET Tokens]
  BY <1>3, <1>5, SinceAfter
<1>7. PushTyped'
  <2>1. devices' \in [Devices -> Tokens \cup {None}] /\ last' \in [Tokens -> BOOLEAN \cup {None}]
    BY <1>1, <1>3 DEF PushTyped
  <2>2. offered' \in [Events -> SUBSET Tokens]
    BY <1>1, <1>3 DEF PushTyped
  <2>3. sent' \in 0 .. MaxCommands /\ queue' \in Seq(Cmd)
    BY <1>4, PushAssumption DEF PushTyped, Enqueues, Queues
  <2>4. QED
    BY <1>4, <1>6, <2>1, <2>2, <2>3 DEF PushTyped, Enqueues, WorkerTyped
<1>8. ReadyInv' /\ GotInv'
  BY <1>2, <1>4, EnqueueKeepsReady, EnqueueKeepsGot
<1>9. SinceInv'
  <2>1. Dispatching => since'[worker.cmd.item] \subseteq since[worker.cmd.item]
    BY <1>6, WorkerFields DEF Dispatching, PushTyped
  <2>2. QED
    BY <1>4, <1>6, <2>1, EnqueueKeepsSince
<1>10. OfferedInv'
  <2>1. sent \in Nat /\ \A e \in Events : e \in Nat
    BY PushAssumption DEF PushTyped, Events
  <2>2. \A e \in Events : offered'[e] = IF e <= sent THEN offered[e] \cup {t} ELSE {}
    BY <1>3
  <2>3. \A e \in Events : e <= sent => offered[e] \subseteq offered'[e]
    BY <2>2
  <2>4. ASSUME NEW e \in Events, sent + 1 < e PROVE offered'[e] = {}
    <3>1. ~(e <= sent)
      BY <2>1, <2>4
    <3>2. QED
      BY <2>2, <3>1
  <2>5. \A e \in Events : e <= sent /\ Held \subseteq offered[e] => Held' \subseteq offered'[e]
    BY <1>5, <2>2
  <2>6. QED
    BY <1>2, <1>4, <2>3, <2>4, <2>5, EnqueueKeepsOffered
<1>11. LastInv'
  <2>1. \A u \in Tokens : last'[u] # None => last'[u] = last[u] /\ u # t
    BY <1>1, <1>3 DEF PushTyped
  <2>2. QED
    BY <1>2, <1>4, <1>5, <2>1, EnqueueKeepsLast
<1>12. HeldInv'
  <2>1. \A e \in Devices : devices'[e] # None => devices'[e] \in TokensOf[e]
    BY <1>3 DEF HeldInv, PushTyped
  <2>2. QED
    BY <1>2, <1>4, <1>5, <2>1, EnqueueKeepsHeld
<1>13. QED
  BY <1>7, <1>8, <1>9, <1>10, <1>11, <1>12

LEMMA UnregisterTokenStep ==
  ASSUME PushIInv, NEW d \in Devices, UnregisterToken(d)
  PROVE  PushIInv'
<1> USE DEF PushIInv
<1> DEFINE t == devices[d]
<1> DEFINE c == Command("unregister", t)
<1>1. t \in Tokens /\ t # None
  BY DEF UnregisterToken, PushTyped
<1>2. c \in Cmd /\ c.kind = "unregister" /\ c.item = t
  BY <1>1 DEF Command, Cmd, Item, Changes
<1>3. /\ devices' = [devices EXCEPT ![d] = None] /\ last' = [last EXCEPT ![t] = None]
      /\ since' = [e \in Events |-> since[e] \ {t}] /\ offered' = offered
  BY DEF UnregisterToken
<1>4. Enqueues(c)
  BY <1>2, SendingEnqueues DEF UnregisterToken
<1> HIDE DEF c
<1>5. /\ \A u \in Held' : u \in Held
      /\ \A u \in Held : u = t \/ u \in Held'
  <2>1. /\ \A u \in Held' : u \in Held \/ u = None
        /\ \A u \in Held : u = t \/ u \in Held'
    BY <1>3, HeldAfter
  <2>2. None \notin Held'
    BY DEF Held
  <2>3. QED
    BY <2>1, <2>2
<1>6. /\ \A e \in Events : since'[e] \subseteq Held'
      /\ \A e \in Events : since'[e] \subseteq since[e]
      /\ since' \in [Events -> SUBSET Tokens]
  BY <1>3, <1>5, SinceAfter
<1>7. t \notin Held'
  <2> SUFFICES ASSUME NEW e \in Devices, devices'[e] = t PROVE FALSE
    BY DEF Held
  <2>1. e # d /\ devices[e] = t
    BY <1>1, <1>3 DEF PushTyped
  <2>2. t \in TokensOf[e] /\ t \in TokensOf[d]
    BY <1>1, <2>1 DEF HeldInv
  <2>3. QED
    BY <2>1, <2>2, PushAssumption
<1>8. PushTyped'
  <2>1. devices' \in [Devices -> Tokens \cup {None}] /\ last' \in [Tokens -> BOOLEAN \cup {None}]
    BY <1>1, <1>3 DEF PushTyped
  <2>2. sent' \in 0 .. MaxCommands /\ queue' \in Seq(Cmd)
    BY <1>4, PushAssumption DEF PushTyped, Enqueues, Queues
  <2>3. QED
    BY <1>3, <1>4, <1>6, <2>1, <2>2 DEF PushTyped, Enqueues, WorkerTyped
<1>9. ReadyInv' /\ GotInv'
  BY <1>2, <1>4, EnqueueKeepsReady, EnqueueKeepsGot
<1>10. SinceInv'
  <2>1. Dispatching => since'[worker.cmd.item] \subseteq since[worker.cmd.item]
    BY <1>6, WorkerFields DEF Dispatching, PushTyped
  <2>2. QED
    BY <1>4, <1>6, <2>1, EnqueueKeepsSince
<1>11. OfferedInv'
  <2>1. sent \in Nat /\ \A e \in Events : e \in Nat
    BY PushAssumption DEF PushTyped, Events
  <2>2. \A e \in Events : sent + 1 < e => offered'[e] = {}
    BY <1>3, <2>1 DEF OfferedInv
  <2>3. \A e \in Events : Held \subseteq offered[e] => Held' \subseteq offered'[e]
    BY <1>3, <1>5
  <2>4. QED
    BY <1>2, <1>3, <1>4, <2>2, <2>3, EnqueueKeepsOffered
<1>12. LastInv'
  <2>1. \A u \in Tokens : last'[u] # None => last'[u] = last[u] /\ u # t
    BY <1>1, <1>3 DEF PushTyped
  <2>2. QED
    BY <1>2, <1>4, <1>5, <2>1, EnqueueKeepsLast
<1>13. HeldInv'
  <2>1. \A e \in Devices : devices'[e] # None => devices'[e] \in TokensOf[e]
    BY <1>3 DEF HeldInv, PushTyped
  <2>2. QED
    BY <1>2, <1>4, <1>5, <1>7, <2>1, EnqueueKeepsHeld
<1>14. QED
  BY <1>8, <1>9, <1>10, <1>11, <1>12, <1>13

LEMMA SessionEventStep == ASSUME PushIInv, SessionEvent PROVE PushIInv'
<1> USE DEF PushIInv
<1> DEFINE e == sent + 1
<1> DEFINE c == Command("event", e)
<1>1. e \in Events /\ sent \in Nat /\ sent < MaxCommands
  BY PushAssumption DEF SessionEvent, Sending, Events, PushTyped
<1>2. c \in Cmd /\ c.kind = "event" /\ c.item = sent + 1
  BY <1>1 DEF Command, Cmd, Item, Changes
<1>3. /\ devices' = devices /\ last' = last /\ Held' = Held
      /\ since' = [since EXCEPT ![e] = Held] /\ offered' = [offered EXCEPT ![e] = Held]
  BY DEF SessionEvent, Held
<1>4. Enqueues(c)
  BY <1>2, SendingEnqueues DEF SessionEvent
<1> HIDE DEF c
<1>5. Held \subseteq Tokens
  BY HeldAreTokens
<1>6. /\ \A f \in Events : since'[f] = IF f = e THEN Held ELSE since[f]
      /\ \A f \in Events : offered'[f] = IF f = e THEN Held ELSE offered[f]
  BY <1>3 DEF PushTyped
<1>7. PushTyped'
  <2>1. since' \in [Events -> SUBSET Tokens] /\ offered' \in [Events -> SUBSET Tokens]
    BY <1>3, <1>5 DEF PushTyped
  <2>2. sent' \in 0 .. MaxCommands /\ queue' \in Seq(Cmd)
    BY <1>1, <1>4, PushAssumption DEF PushTyped, Enqueues, Queues
  <2>3. QED
    BY <1>3, <1>4, <2>1, <2>2 DEF PushTyped, Enqueues, WorkerTyped
<1>8. ReadyInv' /\ GotInv'
  BY <1>2, <1>4, EnqueueKeepsReady, EnqueueKeepsGot
<1>9. SinceInv'
  <2>1. \A f \in Events : since'[f] \subseteq Held'
    BY <1>3, <1>6 DEF SinceInv
  <2>2. Dispatching => since'[worker.cmd.item] \subseteq since[worker.cmd.item]
    <3> SUFFICES ASSUME Dispatching PROVE since'[worker.cmd.item] = since[worker.cmd.item]
      OBVIOUS
    <3>1. worker.cmd.item \in Events /\ TakenUp(worker.cmd.item)
      BY WorkerFields DEF Dispatching, PushTyped, TakenUp
    <3>2. worker.cmd.item <= sent /\ worker.cmd.item \in Nat
      BY <3>1, PushAssumption DEF GotInv, Events
    <3>3. worker.cmd.item # e
      BY <1>1, <3>2
    <3>4. QED
      BY <1>6, <3>1, <3>3
  <2>3. QED
    BY <1>4, <2>1, <2>2, EnqueueKeepsSince
<1>10. OfferedInv'
  <2>1. \A f \in Events : f \in Nat
    BY PushAssumption DEF Events
  <2>2. \A f \in Events : f <= sent => offered'[f] = offered[f]
    BY <1>1, <1>6, <2>1
  <2>3. \A f \in Events : sent + 1 < f => offered'[f] = {}
    BY <1>1, <1>6, <2>1 DEF OfferedInv
  <2>4. Held' \subseteq offered'[sent + 1]
    BY <1>1, <1>3, <1>6
  <2>5. QED
    BY <1>2, <1>3, <1>4, <2>2, <2>3, <2>4, EnqueueKeepsOffered
<1>11. LastInv'
  <2>1. ~(c.kind \in Changes)
    BY <1>2 DEF Changes
  <2>2. QED
    BY <1>3, <1>4, <2>1, EnqueueKeepsLast
<1>12. HeldInv'
  <2>1. \A d \in Devices : devices'[d] # None => devices'[d] \in TokensOf[d]
    BY <1>3 DEF HeldInv
  <2>2. QED
    BY <1>2, <1>3, <1>4, <2>1, EnqueueKeepsHeld
<1>13. QED
  BY <1>7, <1>8, <1>9, <1>10, <1>11, <1>12

LEMMA PublishRendezvousStep == ASSUME PushIInv, PublishRendezvous PROVE PushIInv'
<1> USE DEF PushIInv
<1> DEFINE c == Command("publish", None)
<1>1. c \in Cmd /\ c.kind = "publish"
  BY DEF Command, Cmd, Item, Changes
<1>2. UNCHANGED <<devices, last, since, offered>> /\ Held' = Held
  BY DEF PublishRendezvous, Held, history
<1>3. Enqueues(c)
  BY <1>1, SendingEnqueues DEF PublishRendezvous, history
<1> HIDE DEF c
<1>4. PushTyped'
  <2>1. sent' \in 0 .. MaxCommands /\ queue' \in Seq(Cmd)
    BY <1>3, PushAssumption DEF PushTyped, Enqueues, Queues
  <2>2. QED
    BY <1>2, <1>3, <2>1 DEF PushTyped, Enqueues, WorkerTyped
<1>5. ReadyInv' /\ GotInv'
  BY <1>1, <1>3, EnqueueKeepsReady, EnqueueKeepsGot
<1>6. SinceInv'
  <2>1. \A e \in Events : since'[e] \subseteq Held'
    BY <1>2 DEF SinceInv
  <2>2. QED
    BY <1>2, <1>3, <2>1, EnqueueKeepsSince
<1>7. OfferedInv'
  <2>1. (\A e \in Events : e \in Int) /\ sent \in Int /\ offered' = offered
    BY <1>2, PushAssumption DEF PushTyped, Events
  <2>2. \A e \in Events : sent + 1 < e => offered'[e] = {}
    BY <2>1 DEF OfferedInv
  <2>3. QED
    BY <1>1, <1>2, <1>3, <2>2, EnqueueKeepsOffered
<1>8. LastInv'
  <2>1. ~(c.kind \in Changes)
    BY <1>1 DEF Changes
  <2>2. QED
    BY <1>2, <1>3, <2>1, EnqueueKeepsLast
<1>9. HeldInv'
  <2>1. \A d \in Devices : devices'[d] # None => devices'[d] \in TokensOf[d]
    BY <1>2 DEF HeldInv
  <2>2. QED
    BY <1>1, <1>2, <1>3, <2>1, EnqueueKeepsHeld
<1>10. QED
  BY <1>4, <1>5, <1>6, <1>7, <1>8, <1>9

\* The node id goes through the queue too, but is no event and no change of a token.
LEMMA SetNodeIdStep == ASSUME PushIInv, SetNodeId PROVE PushIInv'
<1> USE DEF PushIInv
<1> DEFINE c == Command("node", None)
<1>1. c \in Cmd /\ c.kind = "node"
  BY DEF Command, Cmd, Item, Changes
<1>2. UNCHANGED <<devices, worker, node, registered, sent, known, bound, history>> /\ Send(c)
  BY DEF SetNodeId
<1>3. Queues(c)
  BY <1>1, <1>2, AppendQueues DEF PushTyped, Send
<1> HIDE DEF c
<1>4. /\ Held' = Held /\ (Dispatching' <=> Dispatching)
      /\ \A e : TakenUp(e)' <=> TakenUp(e)
      /\ \A t : WorkedChange(t)' <=> WorkedChange(t)
  BY <1>2 DEF Held, Dispatching, TakenUp, WorkedChange
<1>5. \A e : Waits(e)' <=> Waits(e)
  BY <1>1, <1>3, QueuedWaits
<1>6. \A t : QueuedChange(t)' => QueuedChange(t)
  BY <1>1, <1>3, QueuedChanges DEF Changes
<1>7. /\ Len(queue') = Len(queue) + 1 /\ Len(queue) \in Nat
      /\ \A i \in 1 .. Len(queue') : queue'[i].kind # "node" =>
           i \in 1 .. Len(queue) /\ queue'[i] = queue[i]
      /\ \A i \in 1 .. Len(queue) : i \in 1 .. Len(queue') /\ queue'[i] = queue[i]
  BY <1>1, <1>3 DEF Queues
<1>8. PushTyped' /\ ReadyInv'
  BY <1>2, <1>3, <1>4 DEF PushTyped, WorkerTyped, ReadyInv, Queues, history
<1>9. OfferedInv' /\ SinceInv'
  BY <1>2, <1>4, <1>5 DEF OfferedInv, SinceInv, history
<1>10. GotInv'
  <2>1. ASSUME NEW i \in 1 .. Len(queue'), NEW j \in 1 .. Len(queue'),
               queue'[i].kind = "event", queue'[j].kind = "event", queue'[i].item = queue'[j].item
        PROVE  i = j
    <3>1. /\ i \in 1 .. Len(queue) /\ queue'[i] = queue[i]
          /\ j \in 1 .. Len(queue) /\ queue'[j] = queue[j]
      BY <1>7, <2>1
    <3>2. QED
      BY <2>1, <3>1 DEF GotInv
  <2>2. QED
    BY <1>2, <1>4, <1>5, <2>1 DEF GotInv, history
<1>11. LastInv'
  BY <1>2, <1>4, <1>6 DEF LastInv, history
<1>12. HeldInv'
  <2>1. ASSUME NEW i \in 1 .. Len(queue'), queue'[i].kind = "unregister", queue'[i].item \in Held
        PROVE  \E j \in i .. Len(queue') :
                 queue'[j].kind = "register" /\ queue'[j].item = queue'[i].item
    <3>1. i \in 1 .. Len(queue) /\ queue'[i] = queue[i]
      BY <1>7, <2>1
    <3>2. PICK j \in i .. Len(queue) : queue[j].kind = "register" /\ queue[j].item = queue[i].item
      BY <2>1, <3>1 DEF HeldInv
    <3>3. j \in 1 .. Len(queue) /\ j \in i .. Len(queue')
      BY <1>7, <3>1
    <3>4. QED
      BY <1>7, <3>1, <3>2, <3>3
  <2>2. ASSUME worker # Idle, worker.cmd.kind = "unregister", worker.cmd.item \in Held
        PROVE  \E j \in 1 .. Len(queue') :
                 queue'[j].kind = "register" /\ queue'[j].item = worker.cmd.item
    BY <1>7, <2>2 DEF HeldInv
  <2>3. QED
    BY <1>2, <1>4, <2>1, <2>2 DEF HeldInv
<1>13. QED
  BY <1>8, <1>9, <1>10, <1>11, <1>12

-----------------------------------------------------------------------------
(* The relay forgets, the daemon stops.                                    *)

\* A binding that lapses takes what counts as the last change with it.
LEMMA LapseStep ==
  ASSUME PushIInv, bound' \subseteq bound, known' \in BOOLEAN,
         last' \in [Tokens -> BOOLEAN \cup {None}],
         \A t \in Tokens : last'[t] # None =>
           last'[t] = last[t] /\ (t \in bound' <=> t \in bound),
         UNCHANGED <<devices, queue, worker, node, registered, sent, since, offered,
                     tried, got, unanswered, done>>
  PROVE  PushIInv'
<1> USE DEF PushIInv
<1>1. /\ Held' = Held /\ \A e : Waits(e)' <=> Waits(e)
      /\ \A e : TakenUp(e)' <=> TakenUp(e)
      /\ \A t : QueuedChange(t)' <=> QueuedChange(t)
      /\ \A t : WorkedChange(t)' <=> WorkedChange(t)
      /\ Dispatching' <=> Dispatching
  BY DEF Held, Waits, TakenUp, QueuedChange, WorkedChange, Dispatching
<1>2. PushTyped' /\ ReadyInv'
  BY <1>1 DEF PushTyped, WorkerTyped, ReadyInv
<1>3. OfferedInv' /\ SinceInv'
  BY <1>1 DEF OfferedInv, SinceInv
<1>4. GotInv'
  BY <1>1 DEF GotInv
<1>5. LastInv'
  BY <1>1 DEF LastInv
<1>6. HeldInv'
  BY <1>1 DEF HeldInv
<1>7. QED
  BY <1>2, <1>3, <1>4, <1>5, <1>6

LEMMA RelayForgetsStep == ASSUME PushIInv, RelayForgets PROVE PushIInv'
<1>1. /\ bound' = {} /\ known' = FALSE /\ last' = [t \in Tokens |-> None]
      /\ UNCHANGED <<devices, queue, worker, node, registered, sent, since, offered,
                     tried, got, unanswered, done>>
  BY DEF RelayForgets, rest
<1>2. QED
  BY <1>1, LapseStep

LEMMA RelayDropsTokenStep ==
  ASSUME PushIInv, NEW t \in Tokens, RelayDropsToken(t)
  PROVE  PushIInv'
<1>1. /\ bound' = bound \ {t} /\ known' = known /\ last' = [last EXCEPT ![t] = None]
      /\ UNCHANGED <<devices, queue, worker, node, registered, sent, since, offered,
                     tried, got, unanswered, done>>
  BY DEF RelayDropsToken, rest
<1>2. known' \in BOOLEAN /\ last' \in [Tokens -> BOOLEAN \cup {None}] /\ bound' \subseteq bound
  BY <1>1 DEF PushIInv, PushTyped
<1>3. \A u \in Tokens : last'[u] # None =>
        last'[u] = last[u] /\ (u \in bound' <=> u \in bound)
  BY <1>1 DEF PushIInv, PushTyped
<1>4. QED
  BY <1>1, <1>2, <1>3, LapseStep

\* The commands are lost, and with them the changes they had.
LEMMA RestartStep == ASSUME PushIInv, Restart PROVE PushIInv'
<1> USE DEF PushIInv
<1>1. /\ queue' = <<>> /\ worker' = Idle
      /\ node' = FALSE /\ registered' = FALSE
      /\ last' = [t \in Tokens |-> IF worker # Idle /\ worker.cmd.item = t
                                   THEN None ELSE last[t]]
      /\ UNCHANGED <<devices, sent, known, bound, since, offered, tried, got, unanswered, done>>
  BY DEF Restart
<1>2. queue' \in Seq(Cmd) /\ 1 .. Len(queue') = {}
  BY <1>1
<1>3. /\ Held' = Held /\ \A e : ~Waits(e)' /\ ~TakenUp(e)'
      /\ \A t : ~QueuedChange(t)' /\ ~WorkedChange(t)'
      /\ ~Dispatching'
  BY <1>1, <1>2 DEF Held, Waits, TakenUp, QueuedChange, WorkedChange, Dispatching, Changes
<1>4. PushTyped' /\ ReadyInv'
  BY <1>1, <1>2 DEF PushTyped, WorkerTyped, ReadyInv
<1>5. OfferedInv' /\ SinceInv'
  BY <1>1, <1>3 DEF OfferedInv, SinceInv
<1>6. GotInv'
  BY <1>1, <1>2, <1>3 DEF GotInv
<1>7. LastInv'
  BY <1>1, <1>3 DEF LastInv
<1>8. HeldInv'
  BY <1>1, <1>2, <1>3 DEF HeldInv
<1>9. QED
  BY <1>4, <1>5, <1>6, <1>7, <1>8

-----------------------------------------------------------------------------
(* The dispatcher.                                                         *)

LEMMA PushInitIInv == PushInit => PushIInv
<1> SUFFICES ASSUME PushInit PROVE PushIInv
  OBVIOUS
<1>1. /\ devices = [d \in Devices |-> None] /\ queue = <<>>
      /\ worker = Idle /\ node = FALSE /\ registered = FALSE /\ sent = 0
      /\ known = FALSE /\ bound = {} /\ since = [e \in Events |-> {}] /\ offered = since
      /\ tried = [e \in Events |-> {}] /\ got = [e \in Events |-> [t \in Tokens |-> 0]]
      /\ unanswered = {} /\ last = [t \in Tokens |-> None] /\ done = {}
  BY DEF PushInit
<1>2. queue \in Seq(Cmd) /\ 1 .. Len(queue) = {}
  BY <1>1
<1>3. /\ Held = {} /\ \A e : ~Waits(e) /\ ~TakenUp(e)
      /\ \A t : ~QueuedChange(t) /\ ~WorkedChange(t)
      /\ ~Dispatching
  BY <1>1, <1>2 DEF Held, Waits, TakenUp, QueuedChange, WorkedChange, Dispatching, Changes
<1>4. PushTyped /\ ReadyInv
  <2>1. /\ devices \in [Devices -> Tokens \cup {None}] /\ WorkerTyped
        /\ node \in BOOLEAN /\ registered \in BOOLEAN
    BY <1>1 DEF WorkerTyped
  <2>2. sent \in 0 .. MaxCommands
    BY <1>1, PushAssumption
  <2>3. /\ since \in [Events -> SUBSET Tokens] /\ offered \in [Events -> SUBSET Tokens]
        /\ tried \in [Events -> SUBSET Tokens]
    BY <1>1
  <2>4. got \in [Events -> [Tokens -> Nat]]
    BY <1>1
  <2>5. last \in [Tokens -> BOOLEAN \cup {None}]
    BY <1>1
  <2>6. QED
    BY <1>1, <1>2, <2>1, <2>2, <2>3, <2>4, <2>5 DEF PushTyped, ReadyInv
<1>5. OfferedInv /\ SinceInv
  BY <1>1, <1>3 DEF OfferedInv, SinceInv
<1>6. GotInv
  BY <1>1, <1>2, <1>3 DEF GotInv
<1>7. LastInv
  BY <1>1, <1>3 DEF LastInv
<1>8. HeldInv
  BY <1>1, <1>2 DEF HeldInv
<1>9. QED
  BY <1>4, <1>5, <1>6, <1>7, <1>8 DEF PushIInv

LEMMA PushStep == PushIInv /\ [PushNext]_pushVars => PushIInv'
<1> SUFFICES ASSUME PushIInv, [PushNext]_pushVars PROVE PushIInv'
  OBVIOUS
<1>1. CASE UNCHANGED pushVars
  <2>1. /\ UNCHANGED <<devices, queue, worker, node, registered, sent, since, offered,
                       tried, got, unanswered, done>>
        /\ UNCHANGED <<known, bound, last>>
    BY <1>1 DEF pushVars, history
  <2>2. bound' \subseteq bound /\ known' \in BOOLEAN /\ last' \in [Tokens -> BOOLEAN \cup {None}]
    BY <2>1 DEF PushIInv, PushTyped
  <2>3. QED
    BY <2>1, <2>2, LapseStep
<1>2. ASSUME NEW d \in Devices, NEW t \in TokensOf[d], RegisterToken(d, t) PROVE PushIInv'
  BY <1>2, RegisterTokenStep
<1>3. ASSUME NEW d \in Devices, UnregisterToken(d) PROVE PushIInv'
  BY <1>3, UnregisterTokenStep
<1>4. CASE SessionEvent
  BY <1>4, SessionEventStep
<1>5. CASE PublishRendezvous
  BY <1>5, PublishRendezvousStep
<1>6. CASE Receive
  BY <1>6, ReceiveTakesUp, TakesUpStep DEF PushIInv
<1>7. CASE Answered
  BY <1>7, AnsweredRequests, RequestsStep DEF PushIInv
<1>8. CASE NoAnswer
  BY <1>8, NoAnswerRequests, RequestsStep DEF PushIInv
<1>9. CASE Expire
  BY <1>9, ExpireRequests, RequestsStep DEF PushIInv
<1>10. CASE RelayForgets
  BY <1>10, RelayForgetsStep
<1>11. CASE Restart
  BY <1>11, RestartStep
<1>12. ASSUME NEW t \in Tokens, RelayDropsToken(t) PROVE PushIInv'
  BY <1>12, RelayDropsTokenStep
<1>13. CASE SetNodeId
  BY <1>13, SetNodeIdStep
<1>14. QED
  BY <1>1, <1>2, <1>3, <1>4, <1>5, <1>6, <1>7, <1>8, <1>9, <1>10, <1>11, <1>12, <1>13
     DEF PushNext, Work

LEMMA SequencesOfMore ==
  ASSUME NEW S, NEW T, S \subseteq T, NEW s \in Seq(S)
  PROVE  s \in Seq(T)
OBVIOUS

LEMMA PushIInvImplies == PushIInv => PushInv
<1> SUFFICES ASSUME PushIInv PROVE PushInv
  OBVIOUS
<1> USE DEF PushIInv
<1>1. TypeOK
  <2>1. Cmd \subseteq [kind : {"node", "register", "unregister", "event", "publish"},
                       item : Tokens \cup Events \cup {None}]
    BY DEF Cmd, Item
  <2>2. queue \in Seq([kind : {"node", "register", "unregister", "event", "publish"},
                       item : Tokens \cup Events \cup {None}])
    BY <2>1, SequencesOfMore DEF PushTyped
  <2>3. Busy => /\ node /\ worker.elapsed \in 0 .. Budget + MaxDelay + MinDelay
                /\ (worker.pc = "request" => registered)
                /\ (worker.cmd.kind = "event" /\ worker.pc = "request" => worker.todo # {})
    BY BusyIsNotIdle, WorkerFields DEF PushTyped, ReadyInv, Dispatching
  <2>4. QED
    BY <2>2, <2>3 DEF TypeOK, PushTyped
<1>2. LastChangeWins
  <2> SUFFICES ASSUME NEW t \in Tokens, last[t] # None
               PROVE  (t \in bound <=> last[t]) /\ (t \in Held => last[t])
    BY DEF LastChangeWins
  <2>1. (t \in bound <=> last[t] = TRUE) /\ (t \in Held => last[t] = TRUE)
    BY DEF LastInv
  <2>2. last[t] \in BOOLEAN
    BY DEF PushTyped
  <2>3. QED
    BY <2>1, <2>2
<1>3. OnlyOffered
  BY DEF OfferedInv, OnlyOffered
<1>4. NotifiedOnce
  BY DEF GotInv, NotifiedOnce
<1>5. QED
  BY <1>1, <1>2, <1>3, <1>4 DEF PushInv

\* push.rs: the relay is left with the last change of each token, though
\* requests are retried, lost or carried out unseen; an event is pushed only to
\* tokens that were there for it, and to each once unless an answer was lost.
THEOREM LastChangeCounts == PushSpec => []PushInv
<1>1. PushInit => PushIInv
  BY PushInitIInv
<1>2. PushIInv /\ [PushNext]_pushVars => PushIInv'
  BY PushStep
<1>3. PushIInv => PushInv
  BY PushIInvImplies
<1>4. QED
  BY <1>1, <1>2, <1>3, PTL DEF PushSpec

\* A dispatch that ends has tried the tokens there all along.
LEMMA DispatchEnds ==
  ASSUME PushIInv, Requests, NEW e \in done' \ done, worker.pc = "request"
  PROVE  since[e] \subseteq tried'[e]
<1> USE DEF PushIInv
<1>1. /\ Rests /\ done' = Done(worker.cmd)
      /\ Dispatching => worker.todo \subseteq {First(worker.todo)}
  BY DEF Requests, Ends, Retries
<1>2. worker.cmd.kind = "event" /\ e = worker.cmd.item /\ Dispatching
  BY <1>1 DEF Done, Dispatching, Requests
<1>3. e \in Events
  BY <1>2, WorkerFields DEF PushTyped, Requests
<1>4. /\ since[e] \subseteq tried[e] \cup worker.todo
      /\ tried[e] \subseteq tried'[e] /\ First(worker.todo) \in tried'[e]
  BY <1>2, <1>3 DEF SinceInv, Requests, Tries
<1>5. QED
  BY <1>1, <1>2, <1>4

LEMMA StepTriesEveryToken ==
  ASSUME PushIInv, [PushNext]_pushVars,
         NEW e \in done' \ done, worker # Idle, worker.pc = "request"
  PROVE  since[e] \subseteq tried'[e]
<1> USE DEF PushIInv
<1>1. CASE done' = done
  BY <1>1
<1>2. CASE Receive
  BY <1>2 DEF Receive
<1>3. CASE Answered
  BY <1>3, AnsweredRequests, DispatchEnds
<1>4. CASE NoAnswer
  BY <1>4, NoAnswerRequests, DispatchEnds
<1>5. CASE Expire
  BY <1>5, ExpireRequests, DispatchEnds
<1>6. done' = done \/ Receive \/ Answered \/ NoAnswer \/ Expire
  BY DEF PushNext, Work, SetNodeId, RegisterToken, UnregisterToken, SessionEvent, PublishRendezvous,
         RelayForgets, RelayDropsToken, Restart, pushVars, history
<1>7. QED
  BY <1>1, <1>2, <1>3, <1>4, <1>5, <1>6

\* dispatch_session_event: a push that fails does not keep the other phones
\* from theirs.
THEOREM EveryPhoneIsTried == PushSpec => EveryTokenIsTried
<1>1. PushInit => PushIInv
  BY PushInitIInv
<1>2. PushIInv /\ [PushNext]_pushVars => PushIInv'
  BY PushStep
<1>3. PushIInv /\ [PushNext]_pushVars =>
        [\A e \in done' \ done : worker # Idle /\ worker.pc = "request" =>
           since[e] \subseteq tried'[e]]_pushVars
  BY StepTriesEveryToken
<1>4. QED
  BY <1>1, <1>2, <1>3, PTL DEF PushSpec, EveryTokenIsTried

-----------------------------------------------------------------------------
(***************************************************************************)
(* PushProviders: the shared credential.                                   *)
(***************************************************************************)

Credential == [issued : Int, expires : Int, stamp : Int, life : Int]

AnyAnswer == {"none", "timeout", "ok", "ExpiredProviderToken", "BadDeviceToken",
              "DeviceTokenNotForTopic", "Gone", "UNREGISTERED", "INVALID_ARGUMENT",
              "Unregistered", "InternalServerError", "BadRequest", "UNAVAILABLE"}

Handler == [pc : {"idle", "asked", "exchanging", "posting", "done"}, at : Int, since : Int,
            credential : Credential, answer : AnyAnswer,
            outcome : {"none", "ok", "invalid", "other"}, life : Int]

ProvidersTyped ==
  /\ platform \in Configured /\ clock \in 0 .. MaxTime /\ cached \in Credential
  /\ waiting \in Seq(Sends) /\ generated \subseteq Int /\ send \in [Sends -> Handler]
  /\ \A s \in Sends :
       /\ send[s].at \in 0 .. clock /\ send[s].since \in 0 .. clock
       /\ send[s].outcome = "invalid" => send[s].answer \in DeadToken

\* Who waits for the lock is in its queue, once, in the order of the clock, and
\* the holder alone exchanges: it saw that the cached token is old.
QueueInv ==
  /\ \A k, l \in 1 .. Len(waiting) : waiting[k] = waiting[l] => k = l
  /\ \A k, l \in 1 .. Len(waiting) : k <= l => send[waiting[k]].at <= send[waiting[l]].at
  /\ \A k \in 1 .. Len(waiting) :
       /\ send[waiting[k]].pc = "asked" \/ (k = 1 /\ send[waiting[k]].pc = "exchanging")
       /\ platform = "fcm"
  /\ \A s \in Sends :
       /\ send[s].pc = "exchanging" =>
            /\ waiting # <<>> /\ s = waiting[1]
            /\ cached.stamp <= send[s].at /\ send[s].at <= send[s].since
            /\ clock <= send[s].since + 1
       /\ send[s].pc = "asked" /\ platform = "fcm" =>
            \E k \in 1 .. Len(waiting) : waiting[k] = s
       /\ send[s].pc \notin {"idle", "done"} => platform # "none"

\* A credential that will not expire in a handler's hands.
Lasts(credential, now) ==
  credential.life >= RefreshSkew + MinUsable => now + 1 < credential.expires

\* What is cached, of either service.
CachedInv ==
  cached = NoCredential \/
    /\ cached.issued \in 0 .. clock /\ cached.life \in Nat
    /\ cached.expires = cached.issued + cached.life
    /\ platform = "fcm" =>
         /\ cached.stamp >= 0
         /\ cached.life >= RefreshSkew + MinUsable =>
              cached.stamp <= cached.issued + (cached.life - RefreshSkew)
    /\ platform = "apns" => cached.stamp = cached.issued /\ cached.life = JwtLimit

\* A handler that finds the cached token good has read the clock just now, or
\* the token has just been bought.
HandlerFresh(s) ==
  /\ send[s].pc = "asked" /\ platform = "apns" => clock <= send[s].at + 1
  /\ send[s].pc = "asked" /\ platform = "fcm" /\ send[s].at < cached.stamp =>
       clock = send[s].at \/ clock <= cached.issued + 1
  /\ send[s].pc = "posting" =>
       /\ send[s].credential.issued \in 0 .. clock /\ clock <= send[s].since + 1
       /\ Lasts(send[s].credential, send[s].since)
  /\ send[s].answer = "ExpiredProviderToken" => send[s].life < RefreshSkew + MinUsable

FreshInv == CachedInv /\ \A s \in Sends : HandlerFresh(s)

\* The cached JWT is the last one generated.
RenewedInv ==
  /\ generated # {} => platform = "apns" /\ cached # NoCredential
  /\ platform = "apns" => \A g \in generated : g <= cached.stamp
  /\ JwtRenewedSeldom

ProvidersIInv ==
  /\ ProvidersTyped
  /\ QueueInv
  /\ FreshInv
  /\ RenewedInv

-----------------------------------------------------------------------------
(* Handlers and credentials.                                               *)

LEMMA CredentialFields ==
  ASSUME NEW c \in Credential
  PROVE  c.issued \in Int /\ c.expires \in Int /\ c.stamp \in Int /\ c.life \in Int
BY DEF Credential

LEMMA HandlerFields ==
  ASSUME ProvidersTyped, NEW s \in Sends
  PROVE  /\ send[s] \in Handler
         /\ send[s].pc \in {"idle", "asked", "exchanging", "posting", "done"}
         /\ send[s].at \in Nat /\ send[s].since \in Nat
         /\ send[s].at <= clock /\ send[s].since <= clock /\ clock \in Nat
         /\ send[s].credential \in Credential
<1>1. send[s] \in Handler /\ clock \in Nat
  BY ProvidersAssumption DEF ProvidersTyped
<1>2. send[s].at \in 0 .. clock /\ send[s].since \in 0 .. clock
  BY DEF ProvidersTyped
<1>3. QED
  BY <1>1, <1>2 DEF Handler

LEMMA NewSendIsHandler ==
  /\ NoCredential \in Credential /\ NewSend \in Handler
  /\ NoCredential.stamp = -1 /\ NoCredential.issued = -1
  /\ NewSend.pc = "idle" /\ NewSend.at = 0 /\ NewSend.since = 0
  /\ NewSend.answer = "none" /\ NewSend.outcome = "none" /\ NewSend.life = -1
<1>1. NoCredential \in Credential /\ NoCredential.stamp = -1 /\ NoCredential.issued = -1
  BY DEF NoCredential, Credential
<1>2. QED
  BY <1>1 DEF NewSend, Handler, AnyAnswer

\* One handler moves.
Becomes(s, h) ==
  /\ h \in Handler /\ send' \in [Sends -> Handler] /\ send'[s] = h
  /\ \A t \in Sends \ {s} : send'[t] = send[t]

LEMMA ExceptBecomes ==
  ASSUME ProvidersTyped, NEW s \in Sends, NEW h \in Handler, send' = [send EXCEPT ![s] = h]
  PROVE  Becomes(s, h)
BY DEF Becomes, ProvidersTyped

\* The lock has a holder just if its queue has a head.
LEMMA HeadOfWaiting ==
  ASSUME ProvidersTyped, waiting # <<>>
  PROVE  /\ Head(waiting) = waiting[1] /\ 1 \in 1 .. Len(waiting) /\ waiting[1] \in Sends
         /\ Tail(waiting) \in Seq(Sends) /\ Len(Tail(waiting)) = Len(waiting) - 1
         /\ \A k \in 1 .. Len(Tail(waiting)) : Tail(waiting)[k] = waiting[k + 1]
         /\ Len(waiting) \in Nat
BY DEF ProvidersTyped

\* The holder of the lock leaves the queue.
Leaves(s) ==
  /\ waiting # <<>> /\ waiting[1] = s /\ s \in Sends /\ waiting' \in Seq(Sends)
  /\ Len(waiting') = Len(waiting) - 1 /\ Len(waiting) \in Nat
  /\ \A k \in 1 .. Len(waiting') : waiting'[k] = waiting[k + 1]

LEMMA TailLeaves ==
  ASSUME ProvidersTyped, waiting # <<>>, NEW s, s = waiting[1], waiting' = Tail(waiting)
  PROVE  Leaves(s)
BY HeadOfWaiting DEF Leaves

LEMMA GivenBackLeaves ==
  ASSUME ProvidersTyped, waiting # <<>>, NEW s, s = waiting[1], waiting' = GivenBack(s)
  PROVE  Leaves(s)
BY HeadOfWaiting, TailLeaves DEF GivenBack

\* The queue without its head, which is on its way with what it needs.
LEMMA LeavesKeepsQueue ==
  ASSUME ProvidersTyped, QueueInv, NEW s, Leaves(s), platform' = platform,
         send'[s].pc \in {"posting", "done"}, \A t \in Sends \ {s} : send'[t] = send[t]
  PROVE  QueueInv'
<1>1. \A k \in 1 .. Len(waiting') : k + 1 \in 1 .. Len(waiting) /\ waiting'[k] = waiting[k + 1]
  BY DEF Leaves
<1>2. 1 \in 1 .. Len(waiting) /\ waiting[1] = s /\ s \in Sends /\ platform = "fcm"
  BY HeadOfWaiting DEF Leaves, QueueInv
<1>3. \A k \in 1 .. Len(waiting') : /\ waiting'[k] \in Sends \ {s}
                                    /\ send'[waiting'[k]] = send[waiting[k + 1]]
                                    /\ send[waiting[k + 1]].pc = "asked"
  <2> SUFFICES ASSUME NEW k \in 1 .. Len(waiting')
               PROVE  waiting[k + 1] \in Sends \ {s} /\ send[waiting[k + 1]].pc = "asked"
    BY <1>1
  <2>1. k + 1 \in 1 .. Len(waiting) /\ k + 1 # 1
    BY <1>1
  <2>2. waiting[k + 1] # s
    BY <1>2, <2>1 DEF QueueInv
  <2>3. waiting[k + 1] \in Sends
    BY <2>1 DEF ProvidersTyped
  <2>4. send[waiting[k + 1]].pc = "asked"
    BY <2>1 DEF QueueInv
  <2>5. QED
    BY <2>2, <2>3, <2>4
<1>4. ASSUME NEW k \in 1 .. Len(waiting'), NEW l \in 1 .. Len(waiting')
      PROVE  /\ waiting'[k] = waiting'[l] => k = l
             /\ k <= l => send'[waiting'[k]].at <= send'[waiting'[l]].at
  <2>1. /\ k + 1 \in 1 .. Len(waiting) /\ l + 1 \in 1 .. Len(waiting)
        /\ waiting'[k] = waiting[k + 1] /\ waiting'[l] = waiting[l + 1]
    BY <1>1
  <2>2. waiting[k + 1] = waiting[l + 1] => k + 1 = l + 1
    BY <2>1 DEF QueueInv
  <2>3. k + 1 <= l + 1 => send[waiting[k + 1]].at <= send[waiting[l + 1]].at
    BY <2>1 DEF QueueInv
  <2>4. QED
    BY <1>3, <2>1, <2>2, <2>3
<1>5. \A t \in Sends : send[t].pc = "exchanging" => t = s
  BY <1>2 DEF QueueInv
<1>6. ASSUME NEW t \in Sends \ {s}, send[t].pc = "asked"
      PROVE  \E k \in 1 .. Len(waiting') : waiting'[k] = t
  <2>1. PICK k \in 1 .. Len(waiting) : waiting[k] = t
    BY <1>2, <1>6 DEF QueueInv
  <2>2. k # 1
    BY <1>2, <2>1
  <2>3. k - 1 \in 1 .. Len(waiting') /\ waiting'[k - 1] = waiting[k]
    BY <1>1, <2>2 DEF Leaves
  <2>4. QED
    BY <2>1, <2>3
<1>7. \A t \in Sends : send'[t].pc # "exchanging"
  BY <1>5
<1>8. \A t \in Sends : send'[t].pc = "asked" => \E k \in 1 .. Len(waiting') : waiting'[k] = t
  BY <1>6
<1>9. \A k \in 1 .. Len(waiting') : send'[waiting'[k]].pc = "asked"
  BY <1>3
<1>10. QED
  BY <1>2, <1>4, <1>7, <1>8, <1>9 DEF QueueInv

-----------------------------------------------------------------------------
(* The steps.                                                              *)

LEMMA TickStep == ASSUME ProvidersIInv, Tick PROVE ProvidersIInv'
<1> USE DEF ProvidersIInv
<1>1. /\ clock < MaxTime /\ clock' = clock + 1 /\ clock \in Nat
      /\ UNCHANGED <<platform, cached, waiting, send, generated>>
      /\ \A s \in Sends :
           /\ send[s].pc = "asked" => IF platform = "fcm" THEN s # Head(waiting)
                                      ELSE clock = send[s].at
           /\ send[s].pc \in {"exchanging", "posting"} => clock = send[s].since
  BY ProvidersAssumption DEF Tick, ProvidersTyped
<1>2. ProvidersTyped'
  <2>1. clock' \in 0 .. MaxTime
    BY <1>1, ProvidersAssumption
  <2>2. \A s \in Sends : send[s].at \in 0 .. clock' /\ send[s].since \in 0 .. clock'
    BY <1>1, HandlerFields
  <2>3. DeadToken' = DeadToken
    BY <1>1 DEF DeadToken
  <2>4. QED
    BY <1>1, <2>1, <2>2, <2>3 DEF ProvidersTyped
<1>3. \A s \in Sends : send[s].pc = "exchanging" => clock' <= send[s].since + 1
  BY <1>1, HandlerFields
<1>4. QueueInv'
  BY <1>1, <1>3 DEF QueueInv
<1>5. CachedInv'
  <2>1. CASE cached = NoCredential
    BY <1>1, <2>1 DEF CachedInv
  <2>2. CASE cached # NoCredential
    <3>1. cached.issued \in 0 .. clock
      BY <2>2 DEF FreshInv, CachedInv
    <3>2. cached.issued \in 0 .. clock'
      BY <1>1, <3>1
    <3>3. QED
      BY <1>1, <2>2, <3>2 DEF FreshInv, CachedInv
  <2>3. QED
    BY <2>1, <2>2
<1>6. ASSUME NEW s \in Sends PROVE HandlerFresh(s)'
  <2>1. send[s].at \in Nat /\ send[s].since \in Nat
    BY HandlerFields
  <2>2. send[s].pc = "asked" /\ platform = "apns" => clock' <= send[s].at + 1
    BY <1>1, <2>1
  <2>3. ASSUME send[s].pc = "asked", platform = "fcm", send[s].at < cached.stamp PROVE FALSE
    <3>1. PICK k \in 1 .. Len(waiting) : waiting[k] = s
      BY <2>3 DEF QueueInv
    <3>2. waiting # <<>> /\ Len(waiting) \in Nat
      BY <3>1 DEF ProvidersTyped
    <3>3. /\ Head(waiting) = waiting[1] /\ 1 \in 1 .. Len(waiting) /\ waiting[1] \in Sends
      BY <3>2, HeadOfWaiting
    <3>4. s # waiting[1] /\ k # 1
      BY <1>1, <2>3, <3>1, <3>3
    <3>5. send[waiting[1]].pc = "asked" \/ send[waiting[1]].pc = "exchanging"
      BY <3>3 DEF QueueInv
    <3>6. send[waiting[1]].pc = "exchanging"
      BY <1>1, <2>3, <3>3, <3>5
    <3>7. cached.stamp <= send[waiting[1]].at
      BY <3>3, <3>6 DEF QueueInv
    <3>8. send[waiting[1]].at <= send[s].at
      <4>1. 1 <= k
        BY <3>1
      <4>2. QED
        BY <3>1, <3>3, <4>1 DEF QueueInv
    <3>9. cached.stamp \in Int /\ send[waiting[1]].at \in Nat
      BY <3>3, HandlerFields, CredentialFields DEF ProvidersTyped
    <3>10. QED
      BY <2>1, <2>3, <3>7, <3>8, <3>9
  <2>4. send[s].pc = "posting" =>
          /\ send[s].credential.issued \in 0 .. clock' /\ clock' <= send[s].since + 1
          /\ Lasts(send[s].credential, send[s].since)
    BY <1>1, <2>1 DEF FreshInv, HandlerFresh
  <2>5. send[s].answer = "ExpiredProviderToken" => send[s].life < RefreshSkew + MinUsable
    BY DEF FreshInv, HandlerFresh
  <2>6. QED
    BY <1>1, <2>2, <2>3, <2>4, <2>5 DEF HandlerFresh, Lasts
<1>7. FreshInv'
  BY <1>5, <1>6 DEF FreshInv
<1>8. RenewedInv'
  BY <1>1 DEF RenewedInv, JwtRenewedSeldom
<1>9. QED
  BY <1>2, <1>4, <1>7, <1>8

\* What one handler does leaves the types of the others, and their freshness
\* while the cached credential stays.
LEMMA OneIsTyped ==
  ASSUME ProvidersTyped, NEW s \in Sends, NEW h, Becomes(s, h),
         h.at \in 0 .. clock, h.since \in 0 .. clock,
         h.outcome = "invalid" => h.answer \in DeadToken,
         UNCHANGED <<platform, clock>>, cached' \in Credential,
         waiting' \in Seq(Sends), generated' \subseteq Int
  PROVE  ProvidersTyped'
<1>1. send' \in [Sends -> Handler] /\ DeadToken' = DeadToken
  BY DEF Becomes, DeadToken
<1>2. \A t \in Sends : /\ send'[t].at \in 0 .. clock /\ send'[t].since \in 0 .. clock
                       /\ send'[t].outcome = "invalid" => send'[t].answer \in DeadToken
  BY DEF Becomes, ProvidersTyped
<1>3. QED
  BY <1>1, <1>2 DEF ProvidersTyped

LEMMA OneIsFresh ==
  ASSUME FreshInv, NEW s \in Sends, NEW h, Becomes(s, h),
         UNCHANGED <<platform, clock, cached>>, HandlerFresh(s)'
  PROVE  FreshInv'
<1>1. CachedInv'
  BY DEF FreshInv, CachedInv
<1>2. \A t \in Sends \ {s} : HandlerFresh(t)'
  BY DEF FreshInv, HandlerFresh, Becomes, Lasts
<1>3. QED
  BY <1>1, <1>2 DEF FreshInv

LEMMA DeliverStep == ASSUME ProvidersIInv, NEW s \in Sends, Deliver(s) PROVE ProvidersIInv'
<1> USE DEF ProvidersIInv
<1> DEFINE h == IF platform = "none" THEN [NewSend EXCEPT !.pc = "done", !.outcome = "ok"]
                ELSE [NewSend EXCEPT !.pc = "asked", !.at = clock]
<1>1. /\ send[s].pc \in {"idle", "done"} /\ send' = [send EXCEPT ![s] = h]
      /\ waiting' = (IF platform = "fcm" THEN Append(waiting, s) ELSE waiting)
      /\ UNCHANGED <<platform, clock, cached, generated>> /\ clock \in Nat
  BY ProvidersAssumption DEF Deliver, ProvidersTyped
<1>2. /\ h \in Handler /\ h.since = 0 /\ h.answer = "none" /\ h.outcome # "invalid"
      /\ \/ platform = "none" /\ h.pc = "done" /\ h.at = 0
         \/ platform # "none" /\ h.pc = "asked" /\ h.at = clock
  <2>1. /\ NewSend.since = 0 /\ NewSend.answer = "none" /\ NewSend.outcome = "none"
        /\ NewSend.at = 0 /\ NewSend \in Handler
    BY NewSendIsHandler
  <2>2. CASE platform = "none"
    <3>1. h = [NewSend EXCEPT !.pc = "done", !.outcome = "ok"]
      BY <2>2
    <3>2. QED
      BY <2>1, <2>2, <3>1 DEF Handler
  <2>3. CASE platform # "none"
    <3>1. h = [NewSend EXCEPT !.pc = "asked", !.at = clock] /\ clock \in Int
      BY <1>1, <2>3
    <3>2. QED
      BY <2>1, <2>3, <3>1 DEF Handler
  <2>4. QED
    BY <2>2, <2>3
<1> HIDE DEF h
<1>3. Becomes(s, h)
  BY <1>1, <1>2, ExceptBecomes
<1>4. waiting \in Seq(Sends) /\ waiting' \in Seq(Sends)
  BY <1>1 DEF ProvidersTyped
<1>5. ProvidersTyped'
  <2>1. h.at \in 0 .. clock /\ h.since \in 0 .. clock
    BY <1>1, <1>2
  <2>2. QED
    BY <1>1, <1>2, <1>3, <1>4, <2>1, OneIsTyped DEF ProvidersTyped
<1>6. \A k \in 1 .. Len(waiting) : waiting[k] \in Sends \ {s}
  <2>1. \A k \in 1 .. Len(waiting) : waiting[k] \in Sends /\ waiting[k] # s
    BY <1>1, <1>4 DEF QueueInv
  <2>2. QED
    BY <2>1
<1>7. QueueInv'
  <2>1. \A t \in Sends \ {s} : send'[t] = send[t]
    BY <1>3 DEF Becomes
  <2>2. send'[s] = h
    BY <1>3 DEF Becomes
  <2>3. CASE platform = "fcm"
    <3>1. /\ Len(waiting') = Len(waiting) + 1 /\ Len(waiting) \in Nat
          /\ waiting'[Len(waiting) + 1] = s
          /\ \A k \in 1 .. Len(waiting) : waiting'[k] = waiting[k]
      BY <1>1, <1>4, <2>3
    <3>2. h.pc = "asked" /\ h.at = clock
      BY <1>2, <2>3
    <3>3. \A k \in 1 .. Len(waiting') :
            \/ /\ k \in 1 .. Len(waiting) /\ waiting'[k] = waiting[k]
               /\ send'[waiting'[k]] = send[waiting[k]]
            \/ k = Len(waiting) + 1 /\ waiting'[k] = s /\ send'[waiting'[k]] = h
      BY <1>6, <2>1, <2>2, <3>1
    <3>4. ASSUME NEW k \in 1 .. Len(waiting'), NEW l \in 1 .. Len(waiting')
          PROVE  /\ waiting'[k] = waiting'[l] => k = l
                 /\ k <= l => send'[waiting'[k]].at <= send'[waiting'[l]].at
      <4>1. CASE k \in 1 .. Len(waiting) /\ l \in 1 .. Len(waiting)
        BY <3>1, <3>3, <4>1 DEF QueueInv
      <4>2. CASE k \in 1 .. Len(waiting) /\ l = Len(waiting) + 1
        <5>1. waiting'[k] = waiting[k] /\ waiting[k] \in Sends \ {s} /\ waiting'[l] = s
          BY <1>6, <3>1, <4>2
        <5>2. send'[waiting'[k]].at <= clock
          BY <2>1, <5>1, HandlerFields
        <5>3. QED
          BY <2>2, <3>2, <5>1, <5>2
      <4>3. CASE k = Len(waiting) + 1 /\ l \in 1 .. Len(waiting)
        <5>1. ~(k <= l) /\ waiting'[l] # s /\ waiting'[k] = s
          BY <1>6, <3>1, <4>3
        <5>2. QED
          BY <5>1
      <4>4. CASE k = Len(waiting) + 1 /\ l = Len(waiting) + 1
        BY <1>1, <2>2, <3>1, <3>2, <4>4
      <4>5. QED
        BY <3>1, <4>1, <4>2, <4>3, <4>4
    <3>5. \A k \in 1 .. Len(waiting') :
            send'[waiting'[k]].pc = "asked" \/ (k = 1 /\ send'[waiting'[k]].pc = "exchanging")
      BY <3>2, <3>3 DEF QueueInv
    <3>6. ASSUME NEW t \in Sends, send'[t].pc = "exchanging"
          PROVE  /\ waiting' # <<>> /\ t = waiting'[1]
                 /\ cached.stamp <= send'[t].at /\ send'[t].at <= send'[t].since
                 /\ clock <= send'[t].since + 1
      <4>1. t # s /\ send'[t] = send[t]
        BY <2>1, <2>2, <3>2, <3>6
      <4>2. waiting # <<>> /\ t = waiting[1]
        BY <3>6, <4>1 DEF QueueInv
      <4>3. 1 \in 1 .. Len(waiting)
        BY <4>2, HeadOfWaiting
      <4>4. waiting' # <<>> /\ t = waiting'[1]
        BY <3>1, <4>2, <4>3
      <4>5. QED
        BY <3>6, <4>1, <4>4 DEF QueueInv
    <3>7. ASSUME NEW t \in Sends, send'[t].pc = "asked"
          PROVE  \E k \in 1 .. Len(waiting') : waiting'[k] = t
      <4>1. CASE t = s
        <5>1. Len(waiting) + 1 \in 1 .. Len(waiting')
          BY <3>1
        <5>2. QED
          BY <3>1, <4>1, <5>1
      <4>2. CASE t # s
        <5>1. PICK k \in 1 .. Len(waiting) : waiting[k] = t
          BY <2>1, <2>3, <3>7, <4>2 DEF QueueInv
        <5>2. k \in 1 .. Len(waiting') /\ waiting'[k] = t
          BY <3>1, <5>1
        <5>3. QED
          BY <5>2
      <4>3. QED
        BY <4>1, <4>2
    <3>8. QED
      BY <1>1, <2>3, <3>4, <3>5, <3>6, <3>7 DEF QueueInv
  <2>4. CASE platform # "fcm"
    <3>1. \A k \in 1 .. Len(waiting) : FALSE
      BY <2>4 DEF QueueInv
    <3>2. waiting = <<>>
      BY <1>4, <3>1
    <3>3. \A t \in Sends : send'[t].pc # "exchanging"
      BY <1>2, <2>1, <2>2, <3>2 DEF QueueInv
    <3>4. \A t \in Sends : send'[t].pc \notin {"idle", "done"} => platform # "none"
      BY <1>2, <2>1, <2>2 DEF QueueInv
    <3>5. QED
      BY <1>1, <2>4, <3>1, <3>3, <3>4 DEF QueueInv
  <2>5. QED
    BY <2>3, <2>4
<1>8. FreshInv'
  <2>1. HandlerFresh(s)'
    BY <1>1, <1>2, <1>3 DEF HandlerFresh, Becomes
  <2>2. QED
    BY <1>1, <1>3, <2>1, OneIsFresh
<1>9. RenewedInv'
  BY <1>1 DEF RenewedInv, JwtRenewedSeldom
<1>10. QED
  BY <1>5, <1>7, <1>8, <1>9

\* A handler with its credential.
LEMMA PostingFields ==
  ASSUME ProvidersTyped, NEW s \in Sends, NEW c \in Credential
  PROVE  /\ Posting(s, c) \in Handler /\ Posting(s, c).pc = "posting"
         /\ Posting(s, c).at = send[s].at /\ Posting(s, c).since = clock
         /\ Posting(s, c).credential = c /\ Posting(s, c).answer = send[s].answer
         /\ Posting(s, c).outcome = send[s].outcome /\ Posting(s, c).life = send[s].life
<1>1. send[s] \in Handler /\ clock \in Int
  BY HandlerFields
<1>2. QED
  BY <1>1 DEF Posting, Handler

\* The step to the notification, with a credential that lasts.
LEMMA PostingIsFresh ==
  ASSUME ProvidersTyped, FreshInv, NEW s \in Sends, NEW c \in Credential, Becomes(s, Posting(s, c)),
         c.issued \in 0 .. clock, Lasts(c, clock), UNCHANGED <<platform, clock>>
  PROVE  HandlerFresh(s)'
<1>1. /\ send'[s].pc = "posting" /\ send'[s].since = clock /\ send'[s].credential = c
      /\ send'[s].answer = send[s].answer /\ send'[s].life = send[s].life
  BY PostingFields DEF Becomes
<1>2. clock \in Nat
  BY HandlerFields
<1>3. QED
  BY <1>1, <1>2 DEF HandlerFresh, FreshInv, Lasts

LEMMA PostingIsTyped ==
  ASSUME ProvidersTyped, NEW s \in Sends, NEW c \in Credential, Becomes(s, Posting(s, c)),
         UNCHANGED <<platform, clock>>, cached' \in Credential,
         waiting' \in Seq(Sends), generated' \subseteq Int
  PROVE  ProvidersTyped'
<1> DEFINE h == Posting(s, c)
<1>1. /\ h.at = send[s].at /\ h.since = clock /\ h.outcome = send[s].outcome
      /\ h.answer = send[s].answer
  BY PostingFields
<1>2. Becomes(s, h)
  OBVIOUS
<1> HIDE DEF h
<1>3. h.at \in 0 .. clock /\ h.since \in 0 .. clock
  BY <1>1, HandlerFields
<1>4. h.outcome = "invalid" => h.answer \in DeadToken
  BY <1>1 DEF ProvidersTyped
<1>5. QED
  BY <1>2, <1>3, <1>4, OneIsTyped

LEMMA AccessTokenStep ==
  ASSUME ProvidersIInv, NEW s \in Sends, AccessToken(s)
  PROVE  ProvidersIInv'
<1> USE DEF ProvidersIInv
<1>1. /\ platform = "fcm" /\ send[s].pc = "asked" /\ s = Head(waiting)
      /\ UNCHANGED <<platform, clock, cached, generated>>
  BY DEF AccessToken
<1>2. PICK k \in 1 .. Len(waiting) : waiting[k] = s
  BY <1>1 DEF QueueInv
<1>3. waiting # <<>> /\ waiting \in Seq(Sends)
  BY <1>2 DEF ProvidersTyped
<1>4. s = waiting[1] /\ 1 \in 1 .. Len(waiting)
  BY <1>1, <1>3, HeadOfWaiting
<1>5. /\ clock \in Nat /\ send[s].at \in Nat /\ send[s].at <= clock /\ cached \in Credential
      /\ send[s] \in Handler
  BY HandlerFields DEF ProvidersTyped
<1>6. CASE /\ cached # NoCredential /\ send[s].at < cached.stamp
           /\ send' = [send EXCEPT ![s] = Posting(s, cached)] /\ waiting' = Tail(waiting)
  <2>1. Becomes(s, Posting(s, cached))
    BY <1>5, <1>6, PostingFields, ExceptBecomes
  <2>2. Leaves(s)
    BY <1>3, <1>4, <1>6, TailLeaves
  <2>3. ProvidersTyped'
    BY <1>1, <1>5, <2>1, <2>2, PostingIsTyped DEF Leaves, ProvidersTyped
  <2>4. QueueInv'
    <3>1. send'[s].pc = "posting" /\ \A t \in Sends \ {s} : send'[t] = send[t]
      BY <1>5, <2>1, PostingFields DEF Becomes
    <3>2. QED
      BY <1>1, <2>2, <3>1, LeavesKeepsQueue
  <2>5. Lasts(cached, clock)
    <3> SUFFICES ASSUME cached.life >= RefreshSkew + MinUsable PROVE clock + 1 < cached.expires
      BY DEF Lasts
    <3>1. /\ cached.issued \in 0 .. clock /\ cached.life \in Nat
          /\ cached.expires = cached.issued + cached.life
          /\ cached.stamp <= cached.issued + (cached.life - RefreshSkew) /\ cached.stamp \in Int
      BY <1>1, <1>5, <1>6, CredentialFields DEF FreshInv, CachedInv
    <3>2. clock = send[s].at \/ clock <= cached.issued + 1
      BY <1>1, <1>6 DEF FreshInv, HandlerFresh
    <3>3. RefreshSkew \in Nat /\ MinUsable \in Nat /\ RefreshSkew > 0 /\ RefreshSkew + MinUsable > 2
      BY ProvidersAssumption
    <3>4. CASE clock = send[s].at
      <4>1. clock < cached.stamp /\ clock \in Nat
        BY <1>5, <1>6, <3>4
      <4>2. QED
        BY <3>1, <3>3, <4>1
    <3>5. CASE clock <= cached.issued + 1
      BY <1>5, <3>1, <3>3, <3>5
    <3>6. QED
      BY <3>2, <3>4, <3>5
  <2>6. cached.issued \in 0 .. clock
    BY <1>6 DEF FreshInv, CachedInv
  <2>7. FreshInv'
    <3>1. HandlerFresh(s)'
      BY <1>1, <1>5, <2>1, <2>5, <2>6, PostingIsFresh
    <3>2. QED
      BY <1>1, <2>1, <3>1, OneIsFresh
  <2>8. RenewedInv'
    BY <1>1 DEF RenewedInv, JwtRenewedSeldom
  <2>9. QED
    BY <2>3, <2>4, <2>7, <2>8
<1>7. CASE /\ ~(cached # NoCredential /\ send[s].at < cached.stamp)
           /\ send' = [send EXCEPT ![s].pc = "exchanging", ![s].since = clock]
           /\ waiting' = waiting
  <2> DEFINE h == [send[s] EXCEPT !.pc = "exchanging", !.since = clock]
  <2>1. /\ h \in Handler /\ h.pc = "exchanging" /\ h.since = clock /\ h.at = send[s].at
        /\ h.answer = send[s].answer /\ h.outcome = send[s].outcome /\ h.life = send[s].life
    <3>1. h \in Handler
      <4>1. send[s] \in Handler /\ clock \in Int
        BY <1>5
      <4>2. QED
        BY <4>1 DEF Handler
    <3>2. h.pc = "exchanging" /\ h.since = clock
      BY <1>5 DEF Handler
    <3>3. h.at = send[s].at /\ h.answer = send[s].answer
      BY <1>5 DEF Handler
    <3>4. h.outcome = send[s].outcome /\ h.life = send[s].life
      BY <1>5 DEF Handler
    <3>5. QED
      BY <3>1, <3>2, <3>3, <3>4
  <2>2. send' = [send EXCEPT ![s] = h]
    BY <1>7 DEF ProvidersTyped
  <2> HIDE DEF h
  <2>3. Becomes(s, h)
    BY <2>1, <2>2, ExceptBecomes
  <2>4. ProvidersTyped'
    <3>1. /\ h.at \in 0 .. clock /\ h.since \in 0 .. clock
          /\ h.outcome = "invalid" => h.answer \in DeadToken
      BY <1>5, <2>1 DEF ProvidersTyped
    <3>2. QED
      BY <1>1, <1>3, <1>5, <1>7, <2>3, <3>1, OneIsTyped DEF ProvidersTyped
  <2>5. cached.stamp <= send[s].at
    BY <1>5, <1>7, CredentialFields, NewSendIsHandler
  <2>6. \A t \in Sends \ {s} : send'[t] = send[t] /\ send[t].pc # "exchanging"
    BY <1>1, <1>4, <2>3 DEF Becomes, QueueInv
  <2>7. send'[s] = h
    BY <2>3 DEF Becomes
  <2>8. QueueInv'
    <3>1. \A l \in 1 .. Len(waiting) :
            waiting[l] \in Sends /\ send'[waiting[l]].at = send[waiting[l]].at
      BY <1>3, <2>1, <2>6, <2>7
    <3>2. \A l \in 1 .. Len(waiting) :
            send'[waiting[l]].pc = "asked" \/ (l = 1 /\ send'[waiting[l]].pc = "exchanging")
      <4> SUFFICES ASSUME NEW l \in 1 .. Len(waiting)
                   PROVE  \/ send'[waiting[l]].pc = "asked"
                          \/ l = 1 /\ send'[waiting[l]].pc = "exchanging"
        OBVIOUS
      <4>1. CASE waiting[l] = s
        <5>1. l = 1
          BY <1>4, <4>1 DEF QueueInv
        <5>2. QED
          BY <2>1, <2>7, <4>1, <5>1
      <4>2. CASE waiting[l] # s
        BY <2>6, <3>1, <4>2 DEF QueueInv
      <4>3. QED
        BY <4>1, <4>2
    <3>3. \A l, m \in 1 .. Len(waiting) :
            l <= m => send'[waiting[l]].at <= send'[waiting[m]].at
      BY <3>1 DEF QueueInv
    <3>4. \A t \in Sends : send'[t].pc = "exchanging" =>
            /\ waiting # <<>> /\ t = waiting[1]
            /\ cached.stamp <= send'[t].at /\ send'[t].at <= send'[t].since
            /\ clock <= send'[t].since + 1
      BY <1>3, <1>4, <1>5, <2>1, <2>5, <2>6, <2>7
    <3>5. \A t \in Sends : send'[t].pc = "asked" => \E l \in 1 .. Len(waiting) : waiting[l] = t
      BY <1>1, <2>1, <2>6, <2>7 DEF QueueInv
    <3>6. \A l, m \in 1 .. Len(waiting) : waiting[l] = waiting[m] => l = m
      BY DEF QueueInv
    <3>7. \A l \in 1 .. Len(waiting) : platform = "fcm"
      BY DEF QueueInv
    <3>8. \A t \in Sends : send'[t].pc \notin {"idle", "done"} => platform # "none"
      BY <1>1
    <3>9. platform' = platform /\ clock' = clock /\ cached' = cached /\ waiting' = waiting
      BY <1>1, <1>7
    <3>10. QED
      BY <3>2, <3>3, <3>4, <3>5, <3>6, <3>7, <3>8, <3>9 DEF QueueInv
  <2>9. FreshInv'
    <3>1. HandlerFresh(s)'
      BY <1>1, <2>1, <2>7 DEF FreshInv, HandlerFresh
    <3>2. QED
      BY <1>1, <2>3, <3>1, OneIsFresh
  <2>10. RenewedInv'
    BY <1>1 DEF RenewedInv, JwtRenewedSeldom
  <2>11. QED
    BY <2>4, <2>8, <2>9, <2>10
<1>8. QED
  BY <1>6, <1>7 DEF AccessToken, QueueAfterHit, QueueInExchange

\* The refresh moment of a token that outlasts the margins leaves the margin.
LEMMA RefreshAt ==
  ASSUME NEW now \in Nat, NEW life \in Nat
  PROVE  /\ access_token_refresh_at(now, life) \in Nat
         /\ life >= RefreshSkew + MinUsable =>
              access_token_refresh_at(now, life) = now + (life - RefreshSkew)
BY ProvidersAssumption DEF access_token_refresh_at, Max2, Min2

LEMMA ExchangedStep ==
  ASSUME ProvidersIInv, NEW s \in Sends, Exchanged(s)
  PROVE  ProvidersIInv'
<1> USE DEF ProvidersIInv
<1>1. /\ send[s].pc = "exchanging" /\ waiting' = GivenBack(s)
      /\ UNCHANGED <<platform, clock, generated>>
  BY DEF Exchanged
<1>2. PICK life \in Lifetimes, issued \in send[s].since .. clock :
        LET token == [issued |-> issued, expires |-> issued + life, life |-> life,
                      stamp |-> access_token_refresh_at(send[s].at, life)]
        IN  cached' = token /\ send' = [send EXCEPT ![s] = Posting(s, token)]
  BY DEF Exchanged
<1> DEFINE c == [issued |-> issued, expires |-> issued + life, life |-> life,
                 stamp |-> access_token_refresh_at(send[s].at, life)]
<1>3. cached' = c /\ send' = [send EXCEPT ![s] = Posting(s, c)]
  BY <1>2
<1>4. /\ clock \in Nat /\ send[s].at \in Nat /\ send[s].since \in Nat /\ send[s].since <= clock
  BY HandlerFields
<1>5. /\ life \in Nat /\ issued \in Nat /\ send[s].since <= issued /\ issued <= clock
  BY <1>2, <1>4, ProvidersAssumption
<1>6. /\ waiting # <<>> /\ s = waiting[1] /\ send[s].at <= send[s].since
      /\ clock <= send[s].since + 1
  BY <1>1 DEF QueueInv
<1>7. platform = "fcm"
  BY <1>6, HeadOfWaiting DEF QueueInv
<1>8. /\ access_token_refresh_at(send[s].at, life) \in Nat
      /\ life >= RefreshSkew + MinUsable =>
           access_token_refresh_at(send[s].at, life) = send[s].at + (life - RefreshSkew)
  BY <1>4, <1>5, RefreshAt
<1>9. c \in Credential
  BY <1>5, <1>8 DEF Credential
<1>10. /\ c.issued = issued /\ c.expires = issued + life /\ c.life = life
       /\ c.stamp = access_token_refresh_at(send[s].at, life)
  OBVIOUS
<1> HIDE DEF c
<1>11. Becomes(s, Posting(s, c))
  BY <1>3, <1>9, PostingFields, ExceptBecomes
<1>12. Leaves(s)
  BY <1>1, <1>6, GivenBackLeaves
<1>13. ProvidersTyped'
  <2>1. waiting' \in Seq(Sends) /\ generated' \subseteq Int /\ cached' \in Credential
    BY <1>1, <1>3, <1>9, <1>12 DEF Leaves, ProvidersTyped
  <2>2. QED
    BY <1>1, <1>9, <1>11, <2>1, PostingIsTyped
<1>14. QueueInv'
  <2>1. send'[s].pc = "posting" /\ \A t \in Sends \ {s} : send'[t] = send[t]
    BY <1>9, <1>11, PostingFields DEF Becomes
  <2>2. QED
    BY <1>1, <1>12, <2>1, LeavesKeepsQueue
<1>15. RefreshSkew \in Nat /\ MinUsable \in Nat /\ RefreshSkew + MinUsable > 2
  BY ProvidersAssumption
<1>16. Lasts(c, clock)
  BY <1>4, <1>5, <1>6, <1>10, <1>15 DEF Lasts
<1>17. c.issued \in 0 .. clock
  BY <1>4, <1>5, <1>10
<1>18. CachedInv'
  <2>1. c.stamp >= 0
    BY <1>8, <1>10
  <2>2. c.life >= RefreshSkew + MinUsable => c.stamp <= c.issued + (c.life - RefreshSkew)
    BY <1>4, <1>5, <1>6, <1>8, <1>10, <1>15
  <2>3. c.life \in Nat /\ c.expires = c.issued + c.life
    BY <1>5, <1>10
  <2>4. platform' # "apns" /\ clock' = clock
    BY <1>1, <1>7
  <2>5. QED
    BY <1>3, <1>17, <2>1, <2>2, <2>3, <2>4 DEF CachedInv
<1>19. HandlerFresh(s)'
  BY <1>1, <1>9, <1>11, <1>16, <1>17, PostingIsFresh
<1>20. ASSUME NEW t \in Sends \ {s} PROVE HandlerFresh(t)'
  <2>1. send'[t] = send[t]
    BY <1>11 DEF Becomes
  <2>2. platform' # "apns" /\ clock' = clock
    BY <1>1, <1>7
  <2>3. clock <= cached'.issued + 1
    BY <1>3, <1>4, <1>5, <1>6, <1>10
  <2>4. QED
    BY <2>1, <2>2, <2>3 DEF FreshInv, HandlerFresh, Lasts
<1>21. FreshInv'
  BY <1>18, <1>19, <1>20 DEF FreshInv
<1>22. RenewedInv'
  <2>1. generated' = {} /\ platform' # "apns"
    BY <1>1, <1>7 DEF RenewedInv
  <2>2. QED
    BY <2>1 DEF RenewedInv, JwtRenewedSeldom
<1>23. QED
  BY <1>13, <1>14, <1>21, <1>22

LEMMA ExchangeFailsStep ==
  ASSUME ProvidersIInv, NEW s \in Sends, ExchangeFails(s)
  PROVE  ProvidersIInv'
<1> USE DEF ProvidersIInv
<1> DEFINE h == [NewSend EXCEPT !.pc = "done", !.outcome = "other"]
<1>1. /\ send[s].pc = "exchanging" /\ waiting' = GivenBack(s) /\ send' = [send EXCEPT ![s] = h]
      /\ UNCHANGED <<platform, clock, cached, generated>>
  BY DEF ExchangeFails, AfterFailedExchange
<1>2. /\ h \in Handler /\ h.pc = "done" /\ h.at = 0 /\ h.since = 0 /\ h.answer = "none"
      /\ h.outcome = "other"
  BY NewSendIsHandler DEF Handler
<1> HIDE DEF h
<1>3. Becomes(s, h)
  BY <1>1, <1>2, ExceptBecomes
<1>4. Leaves(s)
  BY <1>1, GivenBackLeaves DEF QueueInv
<1>5. clock \in Nat
  BY HandlerFields
<1>6. ProvidersTyped'
  <2>1. waiting' \in Seq(Sends) /\ generated' \subseteq Int /\ cached' \in Credential
    BY <1>1, <1>4 DEF Leaves, ProvidersTyped
  <2>2. h.at \in 0 .. clock /\ h.since \in 0 .. clock
    BY <1>2, <1>5
  <2>3. QED
    BY <1>1, <1>2, <1>3, <2>1, <2>2, OneIsTyped
<1>7. QueueInv'
  BY <1>1, <1>2, <1>3, <1>4, LeavesKeepsQueue DEF Becomes
<1>8. FreshInv'
  <2>1. HandlerFresh(s)'
    BY <1>2, <1>3 DEF HandlerFresh, Becomes
  <2>2. QED
    BY <1>1, <1>3, <2>1, OneIsFresh
<1>9. RenewedInv'
  BY <1>1 DEF RenewedInv, JwtRenewedSeldom
<1>10. QED
  BY <1>6, <1>7, <1>8, <1>9

\* A handler outside the queue moves.
LEMMA AsideKeepsQueue ==
  ASSUME ProvidersTyped, QueueInv, NEW s \in Sends, \A k \in 1 .. Len(waiting) : waiting[k] # s,
         UNCHANGED <<platform, clock, waiting>>, platform = "fcm" => cached' = cached,
         platform # "none", send'[s].pc \in {"posting", "done"},
         \A t \in Sends \ {s} : send'[t] = send[t]
  PROVE  QueueInv'
<1>1. \A k \in 1 .. Len(waiting) : waiting[k] \in Sends /\ send'[waiting[k]] = send[waiting[k]]
  BY DEF ProvidersTyped
<1>2. \A k, l \in 1 .. Len(waiting) : waiting[k] = waiting[l] => k = l
  BY DEF QueueInv
<1>3. \A k, l \in 1 .. Len(waiting) : k <= l => send'[waiting[k]].at <= send'[waiting[l]].at
  BY <1>1 DEF QueueInv
<1>4. \A k \in 1 .. Len(waiting) :
        /\ send'[waiting[k]].pc = "asked" \/ (k = 1 /\ send'[waiting[k]].pc = "exchanging")
        /\ platform = "fcm"
  BY <1>1 DEF QueueInv
<1>5. ASSUME NEW t \in Sends, send'[t].pc = "exchanging"
      PROVE  /\ waiting # <<>> /\ t = waiting[1]
             /\ cached'.stamp <= send'[t].at /\ send'[t].at <= send'[t].since
             /\ clock <= send'[t].since + 1
  <2>1. send'[t] = send[t]
    BY <1>5
  <2>2. waiting # <<>> /\ t = waiting[1]
    BY <1>5, <2>1 DEF QueueInv
  <2>3. platform = "fcm"
    BY <2>2, HeadOfWaiting DEF QueueInv
  <2>4. QED
    BY <1>5, <2>1, <2>2, <2>3 DEF QueueInv
<1>6. ASSUME NEW t \in Sends, send'[t].pc = "asked", platform = "fcm"
      PROVE  \E k \in 1 .. Len(waiting) : waiting[k] = t
  <2>1. send'[t] = send[t]
    BY <1>6
  <2>2. QED
    BY <1>6, <2>1 DEF QueueInv
<1>7. platform' = platform /\ clock' = clock /\ waiting' = waiting
  OBVIOUS
<1>8. QED
  BY <1>2, <1>3, <1>4, <1>5, <1>6, <1>7 DEF QueueInv

\* The age of a JWT, for a clock that may have been read before it was signed.
LEMMA AgeIs ==
  ASSUME NEW now \in Int, NEW then \in Int
  PROVE  Age(now, then) < JwtTtl <=> now - then < JwtTtl
BY ProvidersAssumption DEF Age, Max2

LEMMA JwtStep ==
  ASSUME ProvidersIInv, NEW s \in Sends, Jwt(s)
  PROVE  ProvidersIInv'
<1> USE DEF ProvidersIInv
<1>1. /\ platform = "apns" /\ send[s].pc = "asked" /\ UNCHANGED <<platform, clock, waiting>>
  BY DEF Jwt
<1>2. \A k \in 1 .. Len(waiting) : waiting[k] # s
  BY <1>1 DEF QueueInv
<1>3. /\ clock \in Nat /\ send[s].at \in Nat /\ send[s].at <= clock /\ clock <= send[s].at + 1
      /\ cached \in Credential /\ cached.stamp \in Int
  BY <1>1, HandlerFields, CredentialFields DEF ProvidersTyped, FreshInv, HandlerFresh
<1>4. JwtTtl \in Nat /\ JwtLimit \in Nat /\ JwtTtl > 0 /\ JwtTtl + 2 <= JwtLimit
  BY ProvidersAssumption
<1>5. waiting' \in Seq(Sends) /\ generated \subseteq Int
  BY <1>1 DEF ProvidersTyped
<1>6. Age(send[s].at, cached.stamp) < JwtTtl <=> send[s].at - cached.stamp < JwtTtl
  <2>1. send[s].at \in Int /\ cached.stamp \in Int
    BY <1>3
  <2>2. QED
    BY <2>1, AgeIs
<1>7. ASSUME NEW c \in Credential, Becomes(s, Posting(s, c)) PROVE QueueInv'
  <2>1. send'[s].pc = "posting" /\ \A t \in Sends \ {s} : send'[t] = send[t]
    BY <1>7, PostingFields DEF Becomes
  <2>2. QED
    BY <1>1, <1>2, <2>1, AsideKeepsQueue
<1>8. CASE /\ cached # NoCredential /\ Age(send[s].at, cached.stamp) < JwtTtl
           /\ send' = [send EXCEPT ![s] = Posting(s, cached)]
           /\ cached' = cached /\ generated' = generated
  <2>1. Becomes(s, Posting(s, cached))
    BY <1>3, <1>8, PostingFields, ExceptBecomes
  <2>2. ProvidersTyped'
    <3>1. cached' \in Credential /\ generated' \subseteq Int
      BY <1>3, <1>8 DEF ProvidersTyped
    <3>2. QED
      BY <1>1, <1>3, <1>5, <2>1, <3>1, PostingIsTyped
  <2>3. QueueInv'
    BY <1>3, <1>7, <2>1
  <2>4. send[s].at - cached.stamp < JwtTtl
    BY <1>8, <1>6
  <2>5. /\ cached.issued \in 0 .. clock /\ cached.expires = cached.issued + cached.life
        /\ cached.stamp = cached.issued /\ cached.life = JwtLimit
    BY <1>1, <1>8 DEF FreshInv, CachedInv
  <2>6. Lasts(cached, clock)
    <3>1. clock + 1 < cached.expires
      BY <1>3, <1>4, <2>4, <2>5
    <3>2. QED
      BY <3>1 DEF Lasts
  <2>7. HandlerFresh(s)'
    BY <1>1, <1>3, <2>1, <2>5, <2>6, PostingIsFresh
  <2>8. FreshInv'
    BY <1>1, <1>8, <2>1, <2>7, OneIsFresh
  <2>9. RenewedInv'
    BY <1>1, <1>8 DEF RenewedInv, JwtRenewedSeldom
  <2>10. QED
    BY <2>2, <2>3, <2>8, <2>9
<1>9. CASE ~(cached # NoCredential /\ Age(send[s].at, cached.stamp) < JwtTtl)
  <2> DEFINE c == [issued |-> send[s].at, expires |-> send[s].at + JwtLimit,
                   life |-> JwtLimit, stamp |-> send[s].at]
  <2>1. /\ cached' = c /\ generated' = generated \cup {send[s].at}
        /\ send' = [send EXCEPT ![s] = Posting(s, c)]
    BY <1>9 DEF Jwt
  <2>2. c \in Credential
    BY <1>3, <1>4 DEF Credential
  <2>3. /\ c.issued = send[s].at /\ c.expires = send[s].at + JwtLimit
        /\ c.life = JwtLimit /\ c.stamp = send[s].at
    OBVIOUS
  <2> HIDE DEF c
  <2>4. Becomes(s, Posting(s, c))
    BY <2>1, <2>2, PostingFields, ExceptBecomes
  <2>5. ProvidersTyped'
    <3>1. cached' \in Credential /\ generated' \subseteq Int
      <4>1. generated' = generated \cup {send[s].at} /\ send[s].at \in Int
        BY <1>3, <2>1
      <4>2. generated' \subseteq Int
        BY <1>5, <4>1
      <4>3. QED
        BY <2>1, <2>2, <4>2
    <3>2. QED
      BY <1>1, <1>5, <2>2, <2>4, <3>1, PostingIsTyped
  <2>6. QueueInv'
    BY <1>7, <2>2, <2>4
  <2>7. Lasts(c, clock)
    <3>1. clock + 1 < c.expires
      BY <1>3, <1>4, <2>3
    <3>2. QED
      BY <3>1 DEF Lasts
  <2>8. c.issued \in 0 .. clock
    BY <1>3, <2>3
  <2>9. CachedInv'
    <3>1. c.life \in Nat /\ c.expires = c.issued + c.life /\ c.stamp = c.issued
      BY <1>4, <2>3
    <3>2. platform' # "fcm" /\ clock' = clock
      BY <1>1
    <3>3. QED
      BY <2>1, <2>3, <2>8, <3>1, <3>2 DEF CachedInv
  <2>10. HandlerFresh(s)'
    BY <1>1, <2>2, <2>4, <2>7, <2>8, PostingIsFresh
  <2>11. ASSUME NEW t \in Sends \ {s} PROVE HandlerFresh(t)'
    <3>1. send'[t] = send[t] /\ platform' = platform /\ clock' = clock /\ platform # "fcm"
      BY <1>1, <2>4 DEF Becomes
    <3>2. QED
      BY <3>1 DEF FreshInv, HandlerFresh, Lasts
  <2>12. FreshInv'
    BY <2>9, <2>10, <2>11 DEF FreshInv
  <2>13. cached # NoCredential => send[s].at - cached.stamp >= JwtTtl
    BY <1>3, <1>4, <1>9, <1>6
  <2>14. \A g \in generated : g \in Int /\ send[s].at - g >= JwtTtl
    <3> SUFFICES ASSUME NEW g \in generated PROVE g \in Int /\ send[s].at - g >= JwtTtl
      OBVIOUS
    <3>1. g \in Int
      BY DEF ProvidersTyped
    <3>2. cached # NoCredential /\ g <= cached.stamp
      BY <1>1 DEF RenewedInv
    <3>3. QED
      BY <1>3, <1>4, <2>13, <3>1, <3>2
  <2>15. RenewedInv'
    <3>1. cached' # NoCredential
      BY <1>3, <2>1, <2>3, NewSendIsHandler
    <3>2. \A g \in generated' : g <= cached'.stamp
      BY <1>3, <1>4, <2>1, <2>3, <2>14
    <3>3. \A a, b \in generated' : a < b => b - a >= JwtTtl
      <4> SUFFICES ASSUME NEW a \in generated', NEW b \in generated', a < b
                   PROVE  b - a >= JwtTtl
        OBVIOUS
      <4>1. CASE a \in generated /\ b \in generated
        BY <4>1 DEF RenewedInv, JwtRenewedSeldom
      <4>2. CASE a \in generated /\ b = send[s].at
        BY <2>14, <4>2
      <4>3. CASE a = send[s].at
        BY <1>3, <1>4, <2>1, <2>14, <4>3
      <4>4. QED
        BY <2>1, <4>1, <4>2, <4>3
    <3>4. QED
      BY <1>1, <3>1, <3>2, <3>3 DEF RenewedInv, JwtRenewedSeldom
  <2>16. QED
    BY <2>5, <2>6, <2>12, <2>15
<1>10. QED
  BY <1>8, <1>9 DEF Jwt

LEMMA PostStep ==
  ASSUME ProvidersIInv, NEW s \in Sends, Post(s)
  PROVE  ProvidersIInv'
<1> USE DEF ProvidersIInv
<1>1. PICK answer \in Answers(s) \cup {"timeout"} :
        send' = [send EXCEPT ![s] =
                   [NewSend EXCEPT !.pc = "done", !.answer = answer,
                                !.outcome = Outcome(answer),
                                !.life = IF answer = "ExpiredProviderToken"
                                         THEN send[s].credential.life ELSE -1]]
  BY DEF Post
<1> DEFINE life == IF answer = "ExpiredProviderToken" THEN send[s].credential.life ELSE -1
           h == [NewSend EXCEPT !.pc = "done", !.answer = answer,
                                !.outcome = Outcome(answer), !.life = life]
<1>2. send[s].pc = "posting" /\ UNCHANGED <<platform, clock, cached, waiting, generated>>
  BY DEF Post
<1>3. answer \in AnyAnswer
  BY DEF Answers, AnyAnswer, DeadToken, OtherError
<1>4. /\ Outcome(answer) \in {"none", "ok", "invalid", "other"}
      /\ Outcome(answer) = "invalid" => answer \in DeadToken
  BY DEF Outcome, InvalidToken
<1>5. life \in Int
  BY HandlerFields, CredentialFields
<1>6. answer = "ExpiredProviderToken" => life < RefreshSkew + MinUsable
  <2> SUFFICES ASSUME answer = "ExpiredProviderToken",
                      ~(send[s].credential.life < RefreshSkew + MinUsable)
               PROVE  FALSE
    OBVIOUS
  <2>1. clock >= send[s].credential.expires
    BY DEF Answers, DeadToken, OtherError
  <2>2. /\ clock <= send[s].since + 1 /\ Lasts(send[s].credential, send[s].since)
    BY <1>2 DEF FreshInv, HandlerFresh
  <2>3. /\ send[s].credential.life \in Int /\ send[s].credential.expires \in Int
        /\ clock \in Nat /\ send[s].since \in Nat
    BY HandlerFields, CredentialFields
  <2>4. send[s].credential.life >= RefreshSkew + MinUsable
    BY <2>3, ProvidersAssumption
  <2>5. send[s].since + 1 < send[s].credential.expires
    BY <2>2, <2>4 DEF Lasts
  <2>6. QED
    BY <2>1, <2>2, <2>3, <2>5
<1> HIDE DEF life
<1>7. /\ h \in Handler /\ h.pc = "done" /\ h.at = 0 /\ h.since = 0
      /\ h.answer = answer /\ h.outcome = Outcome(answer) /\ h.life = life
  <2>1. h \in Handler
    BY <1>3, <1>4, <1>5, NewSendIsHandler DEF Handler
  <2>2. h.pc = "done" /\ h.at = 0 /\ h.since = 0
    BY NewSendIsHandler DEF Handler
  <2>3. h.answer = answer /\ h.outcome = Outcome(answer)
    BY NewSendIsHandler DEF Handler
  <2>4. h.life = life
    BY NewSendIsHandler DEF Handler
  <2>5. QED
    BY <2>1, <2>2, <2>3, <2>4
<1>8. send' = [send EXCEPT ![s] = h]
  BY <1>1 DEF life
<1> HIDE DEF h
<1>9. Becomes(s, h)
  BY <1>7, <1>8, ExceptBecomes
<1>10. clock \in Nat
  BY HandlerFields
<1>11. ProvidersTyped'
  <2>1. h.at \in 0 .. clock /\ h.since \in 0 .. clock
    BY <1>7, <1>10
  <2>2. waiting' \in Seq(Sends) /\ generated' \subseteq Int /\ cached' \in Credential
    BY <1>2 DEF ProvidersTyped
  <2>3. h.outcome = "invalid" => h.answer \in DeadToken
    BY <1>4, <1>7
  <2>4. QED
    BY <1>2, <1>9, <2>1, <2>2, <2>3, OneIsTyped
<1>12. QueueInv'
  <2>1. \A k \in 1 .. Len(waiting) : waiting[k] # s
    BY <1>2 DEF QueueInv
  <2>2. send'[s].pc = "done" /\ \A t \in Sends \ {s} : send'[t] = send[t]
    BY <1>7, <1>9 DEF Becomes
  <2>3. platform # "none"
    BY <1>2 DEF QueueInv
  <2>4. QED
    BY <1>2, <2>1, <2>2, <2>3, AsideKeepsQueue
<1>13. FreshInv'
  <2>1. send'[s].pc = "done" /\ send'[s].answer = answer /\ send'[s].life = life
    BY <1>7, <1>9 DEF Becomes
  <2>2. HandlerFresh(s)'
    BY <1>6, <2>1 DEF HandlerFresh
  <2>3. QED
    BY <1>2, <1>9, <2>2, OneIsFresh
<1>14. RenewedInv'
  BY <1>2 DEF RenewedInv, JwtRenewedSeldom
<1>15. QED
  BY <1>11, <1>12, <1>13, <1>14

-----------------------------------------------------------------------------
(* The theorem.                                                            *)

LEMMA ProvidersInitIInv == ASSUME ProvidersInit PROVE ProvidersIInv
<1>1. /\ platform \in Configured /\ clock = 0 /\ cached = NoCredential /\ waiting = <<>>
      /\ generated = {} /\ send = [s \in Sends |-> NewSend]
  BY DEF ProvidersInit
<1>2. /\ NewSend \in Handler /\ NoCredential \in Credential /\ NewSend.pc = "idle"
      /\ NewSend.at = 0 /\ NewSend.since = 0 /\ NewSend.answer = "none"
      /\ NewSend.outcome = "none"
  BY NewSendIsHandler
<1>3. \A s \in Sends : send[s] = NewSend
  BY <1>1
<1>4. send \in [Sends -> Handler] /\ MaxTime \in Nat
  BY <1>1, <1>2, ProvidersAssumption
<1>5. ProvidersTyped
  <2>1. \A s \in Sends : /\ send[s].at \in 0 .. clock /\ send[s].since \in 0 .. clock
                         /\ send[s].outcome # "invalid"
    <3>1. 0 \in 0 .. 0 /\ "none" # "invalid"
      OBVIOUS
    <3>2. QED
      BY <1>1, <1>2, <1>3, <3>1
  <2>2. waiting \in Seq(Sends) /\ clock \in 0 .. MaxTime
    BY <1>1, <1>4
  <2>3. QED
    BY <1>1, <1>2, <1>4, <2>1, <2>2 DEF ProvidersTyped
<1>6. QueueInv
  BY <1>1, <1>2, <1>3 DEF QueueInv
<1>7. FreshInv
  BY <1>1, <1>2, <1>3 DEF FreshInv, CachedInv, HandlerFresh
<1>8. RenewedInv
  BY <1>1 DEF RenewedInv, JwtRenewedSeldom
<1>9. QED
  BY <1>5, <1>6, <1>7, <1>8 DEF ProvidersIInv

LEMMA ProvidersStep ==
  ASSUME ProvidersIInv, [ProvidersNext]_providersVars
  PROVE  ProvidersIInv'
<1>1. CASE Tick
  BY <1>1, TickStep
<1>2. ASSUME NEW s \in Sends, Deliver(s) PROVE ProvidersIInv'
  BY <1>2, DeliverStep
<1>3. ASSUME NEW s \in Sends, SendStep(s) PROVE ProvidersIInv'
  BY <1>3, AccessTokenStep, ExchangedStep, ExchangeFailsStep, JwtStep, PostStep DEF SendStep
<1>4. CASE UNCHANGED providersVars
  <2> USE <1>4 DEF providersVars, ProvidersIInv
  <2>1. ProvidersTyped'
    BY DEF ProvidersTyped, DeadToken
  <2>2. QueueInv'
    BY DEF QueueInv
  <2>3. FreshInv'
    BY DEF FreshInv, CachedInv, HandlerFresh, Lasts
  <2>4. RenewedInv'
    BY DEF RenewedInv, JwtRenewedSeldom
  <2>5. QED
    BY <2>1, <2>2, <2>3, <2>4
<1>5. QED
  BY <1>1, <1>2, <1>3, <1>4 DEF ProvidersNext

LEMMA ProvidersIInvImplies == ASSUME ProvidersIInv PROVE ProvidersInv
<1> USE DEF ProvidersIInv
<1>1. ProvidersTypeOK
  <2>1. \A k \in DOMAIN waiting : send[waiting[k]].pc # "posting"
    BY DEF ProvidersTyped, QueueInv
  <2>2. \A s \in Sends : /\ send[s].pc \in {"idle", "asked", "exchanging", "posting", "done"}
                         /\ send[s].at <= clock
    BY HandlerFields
  <2>3. \A s \in Sends : send[s].outcome \in {"none", "ok", "invalid", "other"}
    BY HandlerFields DEF Handler
  <2>4. \A s \in Sends : send[s].pc = "posting" => send[s].credential.issued \in 0 .. clock
    BY DEF FreshInv, HandlerFresh
  <2>5. QED
    BY <2>1, <2>2, <2>3, <2>4 DEF ProvidersTypeOK, ProvidersTyped
<1>2. SingleFlight
  <2> SUFFICES ASSUME NEW s \in Sends, send[s].pc = "exchanging"
               PROVE  /\ \A t \in Sends : send[t].pc = "exchanging" => t = s
                      /\ cached.stamp <= send[s].since
    BY DEF SingleFlight
  <2>1. \A t \in Sends : send[t].pc = "exchanging" => t = s
    BY DEF QueueInv
  <2>2. cached.stamp <= send[s].at /\ send[s].at <= send[s].since
    BY DEF QueueInv
  <2>3. cached.stamp \in Int /\ send[s].at \in Nat /\ send[s].since \in Nat
    BY HandlerFields, CredentialFields DEF ProvidersTyped
  <2>4. QED
    BY <2>1, <2>2, <2>3
<1>3. CredentialIsLive
  BY DEF FreshInv, HandlerFresh, CredentialIsLive
<1>4. JwtRenewedSeldom
  BY DEF RenewedInv
<1>5. DeviceTokenIsSpared
  BY DEF ProvidersTyped, DeviceTokenIsSpared
<1>6. QED
  BY <1>1, <1>2, <1>3, <1>4, <1>5 DEF ProvidersInv

\* The push services' credentials: bought once however many handlers miss the
\* cache together, live when the service reads the request although the clock
\* was read before the lock, renewed seldom; and a phone's token is given up
\* only on the service's word.
THEOREM CredentialsLast == ProvidersSpec => []ProvidersInv
<1>1. ProvidersInit => ProvidersIInv
  BY ProvidersInitIInv
<1>2. ProvidersIInv /\ [ProvidersNext]_providersVars => ProvidersIInv'
  BY ProvidersStep
<1>3. ProvidersIInv => ProvidersInv
  BY ProvidersIInvImplies
<1>4. QED
  BY <1>1, <1>2, <1>3, PTL DEF ProvidersSpec

-----------------------------------------------------------------------------
(***************************************************************************)
(* DaemonStartup: who serves, with which key, over which rows.             *)
(***************************************************************************)

\* The steps of a daemon that has loaded its settings, that has looked for its
\* key, and that has both databases.
Working == {"key", "setkey", "db1", "db2", "prune", "unlink", "bind", "serving"}
Keyed == {"db1", "db2", "prune", "unlink", "bind", "serving"}
Holding == {"prune", "unlink", "bind", "serving"}

SomeProc == Procs \cup {Nobody}

StartupTyped ==
  /\ encrypt \in BOOLEAN /\ keychain \in SomeProc /\ socket \in SomeProc
  /\ rows \in [session : SomeProc \cup {"plain"}, device : SomeProc \cup {"plain"}]
  /\ proc \in [Procs -> [pc : {"off", "config", "exited"} \cup Working,
                         mode : {Nobody, "encrypted", "plaintext"}, key : SomeProc]]
  /\ dblock \in [sessions : SomeProc, devices : SomeProc]
  /\ saved \in BOOLEAN /\ keyTrouble \in BOOLEAN /\ optedOut \in BOOLEAN

\* The locks are taken in order, and kept; the socket goes with both.
LockInv ==
  \A p \in Procs :
    /\ proc[p].pc = "db2" => dblock.sessions = p
    /\ proc[p].pc \in Holding => dblock.sessions = p /\ dblock.devices = p
    /\ proc[p].pc = "serving" => socket = p

\* Who does not encrypt was told so; who does has a key.
ModeInv ==
  /\ ~encrypt => optedOut
  /\ \A p \in Procs : proc[p].pc \in Working /\ proc[p].mode # "encrypted" => optedOut
  /\ \A p \in Procs : proc[p].pc \in Keyed /\ proc[p].mode = "encrypted" => proc[p].key # Nobody
  /\ \A p \in Procs : proc[p].pc \in {"off", "config", "key", "setkey"} => proc[p].key = Nobody
  /\ rows.session = "plain" \/ rows.device = "plain" => optedOut

\* While no daemon raced for a key there is at most one: the keychain's.  Every
\* daemon that has looked has it, and the sessions are written with it.
KeyInv ==
  ~keyTrouble =>
    /\ \A p \in Procs : proc[p].pc \in Keyed => proc[p].key = keychain
    /\ \A p \in Procs : proc[p].pc = "setkey" => keychain = Nobody
    /\ rows.session \in {Nobody, "plain", keychain}
    /\ saved => rows.session # Nobody

\* Whoever waits for a daemon of its own installs nothing.
InstallInv ==
  /\ caller \in [Callers -> [pc : {"start", "wait", "ok", "failed", "health", "restarted",
                                   "unhealthy"}, child : SomeProc]]
  /\ service \in [installed : BOOLEAN, runs : SomeProc]
  /\ \A c \in Installers : caller[c].pc # "wait"
  /\ FailedInstallLeavesNothing

StartupIInv ==
  /\ StartupTyped
  /\ LockInv
  /\ ModeInv
  /\ KeyInv
  /\ InstallInv

-----------------------------------------------------------------------------
(* Processes come and go.                                                  *)

ProcFields ==
  \A p \in Procs : /\ proc[p].pc \in {"off", "config", "exited"} \cup Working
                   /\ proc[p].mode \in {Nobody, "encrypted", "plaintext"}
                   /\ proc[p].key \in SomeProc

LEMMA TypedFields ==
  ASSUME StartupTyped
  PROVE  /\ ProcFields /\ DOMAIN proc = Procs
         /\ DOMAIN dblock = {"sessions", "devices"} /\ DOMAIN rows = {"session", "device"}
         /\ dblock.sessions \in SomeProc /\ dblock.devices \in SomeProc
         /\ rows.session \in SomeProc \cup {"plain"} /\ rows.device \in SomeProc \cup {"plain"}
<1>1. proc \in [Procs -> [pc : {"off", "config", "exited"} \cup Working,
                          mode : {Nobody, "encrypted", "plaintext"}, key : SomeProc]]
  BY DEF StartupTyped
<1>2. ProcFields /\ DOMAIN proc = Procs
  BY <1>1 DEF ProcFields
<1>3. QED
  BY <1>2 DEF StartupTyped

\* One process moves on, with its settings and its key.
Moves(p, pc) ==
  /\ proc'[p].pc = pc /\ proc'[p].mode = proc[p].mode /\ proc'[p].key = proc[p].key
  /\ \A q \in Procs \ {p} : proc'[q] = proc[q]

LEMMA GoesMoves ==
  ASSUME StartupTyped, NEW p \in Procs, NEW pc \in {"config", "exited"} \cup Working, Goes(p, pc)
  PROVE  /\ Moves(p, pc)
         /\ proc' \in [Procs -> [pc : {"off", "config", "exited"} \cup Working,
                                 mode : {Nobody, "encrypted", "plaintext"}, key : SomeProc]]
<1>1. proc \in [Procs -> [pc : {"off", "config", "exited"} \cup Working,
                          mode : {Nobody, "encrypted", "plaintext"}, key : SomeProc]]
  BY DEF StartupTyped
<1>2. proc' = [proc EXCEPT ![p].pc = pc]
  BY DEF Goes
<1>3. QED
  BY <1>1, <1>2 DEF Moves

\* The locks that p does not hold stay; so do its own unless it ends.
LEMMA ReleasedKeeps ==
  ASSUME StartupTyped, NEW x, dblock' = Released(x)
  PROVE  /\ dblock' \in [sessions : SomeProc, devices : SomeProc]
         /\ \A q \in Procs : q # x /\ dblock.sessions = q => dblock'.sessions = q
         /\ \A q \in Procs : q # x /\ dblock.devices = q => dblock'.devices = q
<1>1. dblock \in [sessions : SomeProc, devices : SomeProc]
  BY DEF StartupTyped
<1>2. dblock' = [d \in {"sessions", "devices"} |-> IF dblock[d] = x THEN Nobody ELSE dblock[d]]
  BY <1>1 DEF Released
<1>3. /\ dblock'.sessions = (IF dblock.sessions = x THEN Nobody ELSE dblock.sessions)
      /\ dblock'.devices = (IF dblock.devices = x THEN Nobody ELSE dblock.devices)
      /\ dblock' = [sessions |-> dblock'.sessions, devices |-> dblock'.devices]
  BY <1>2
<1>4. dblock.sessions \in SomeProc /\ dblock.devices \in SomeProc /\ Nobody \in SomeProc
  BY <1>1 DEF SomeProc
<1>5. dblock'.sessions \in SomeProc /\ dblock'.devices \in SomeProc
  BY <1>3, <1>4
<1>6. dblock' \in [sessions : SomeProc, devices : SomeProc]
  BY <1>3, <1>5
<1>7. QED
  BY <1>3, <1>6

\* Processes start, end or go on; the settings change; the rest stays.
ComesAndGoes ==
  /\ proc' \in [Procs -> [pc : {"off", "config", "exited"} \cup Working,
                          mode : {Nobody, "encrypted", "plaintext"}, key : SomeProc]]
  /\ \A q \in Procs : \/ proc'[q] = proc[q]
                      \/ proc'[q].pc = "exited"
                      \/ proc'[q].pc = "config" /\ proc[q].pc = "off" /\ proc'[q].key = proc[q].key
  /\ dblock' \in [sessions : SomeProc, devices : SomeProc]
  /\ \A q \in Procs : proc'[q].pc # "exited" =>
       /\ dblock.sessions = q => dblock'.sessions = q
       /\ dblock.devices = q => dblock'.devices = q
  /\ encrypt' \in BOOLEAN /\ optedOut' \in BOOLEAN /\ keyTrouble' \in BOOLEAN
  /\ ~encrypt' => ~encrypt \/ optedOut'
  /\ optedOut => optedOut'
  /\ keyTrouble => keyTrouble'
  /\ UNCHANGED <<keychain, rows, socket, saved>>

\* The invariants about the daemons.
DaemonInv == StartupTyped /\ LockInv /\ ModeInv /\ KeyInv

LEMMA ComesAndGoesStep == ASSUME DaemonInv, ComesAndGoes PROVE DaemonInv'
<1> USE DEF DaemonInv
<1>1. StartupTyped'
  BY DEF StartupTyped, ComesAndGoes
<1>2. \A q \in Procs : proc'[q].pc \in Working => proc'[q] = proc[q] /\ proc'[q].pc # "exited"
  BY DEF ComesAndGoes, Working
<1>3. Keyed \subseteq Working /\ Holding \subseteq Working
      /\ {"setkey", "db2", "serving"} \subseteq Working
  BY DEF Keyed, Holding, Working
<1>4. LockInv'
  <2> SUFFICES ASSUME NEW p \in Procs
               PROVE  /\ proc'[p].pc = "db2" => dblock'.sessions = p
                      /\ proc'[p].pc \in Holding => dblock'.sessions = p /\ dblock'.devices = p
                      /\ proc'[p].pc = "serving" => socket' = p
    BY DEF LockInv
  <2>1. CASE proc'[p].pc \in Working
    BY <1>2, <2>1 DEF LockInv, ComesAndGoes
  <2>2. CASE proc'[p].pc \notin Working
    BY <1>3, <2>2
  <2>3. QED
    BY <2>1, <2>2
<1>5. ModeInv'
  <2>1. ~encrypt' => optedOut'
    BY DEF ComesAndGoes, ModeInv
  <2>2. ASSUME NEW p \in Procs
        PROVE  /\ proc'[p].pc \in Working /\ proc'[p].mode # "encrypted" => optedOut'
               /\ proc'[p].pc \in Keyed /\ proc'[p].mode = "encrypted" => proc'[p].key # Nobody
    BY <1>2, <1>3 DEF ModeInv, ComesAndGoes
  <2>3. ASSUME NEW p \in Procs, proc'[p].pc \in {"off", "config", "key", "setkey"}
        PROVE  proc'[p].key = Nobody
    BY <2>3 DEF ModeInv, ComesAndGoes
  <2>4. rows'.session = "plain" \/ rows'.device = "plain" => optedOut'
    BY DEF ModeInv, ComesAndGoes
  <2>5. QED
    BY <2>1, <2>2, <2>3, <2>4 DEF ModeInv
<1>6. KeyInv'
  <2> SUFFICES ASSUME ~keyTrouble'
               PROVE  /\ \A p \in Procs : proc'[p].pc \in Keyed => proc'[p].key = keychain
                      /\ \A p \in Procs : proc'[p].pc = "setkey" => keychain = Nobody
                      /\ rows.session \in {Nobody, "plain", keychain}
                      /\ saved => rows.session # Nobody
    BY DEF KeyInv, ComesAndGoes
  <2>1. ~keyTrouble
    BY DEF ComesAndGoes
  <2>2. QED
    BY <1>2, <1>3, <2>1 DEF KeyInv
<1>7. QED
  BY <1>1, <1>4, <1>5, <1>6

LEMMA ExitComesAndGoes ==
  ASSUME StartupTyped, NEW p \in SomeProc, Exit(p),
         UNCHANGED <<encrypt, keychain, rows, socket, saved, optedOut>>,
         keyTrouble' \in BOOLEAN, keyTrouble => keyTrouble'
  PROVE  ComesAndGoes
<1>1. proc' = [proc EXCEPT ![p].pc = "exited"]
  BY DEF Exit
<1>2. proc \in [Procs -> [pc : {"off", "config", "exited"} \cup Working,
                          mode : {Nobody, "encrypted", "plaintext"}, key : SomeProc]]
  BY DEF StartupTyped
<1>3. proc' \in [Procs -> [pc : {"off", "config", "exited"} \cup Working,
                           mode : {Nobody, "encrypted", "plaintext"}, key : SomeProc]]
  BY <1>1, <1>2
<1>4. \A q \in Procs : IF q = p THEN proc'[q].pc = "exited" ELSE proc'[q] = proc[q]
  BY <1>1, <1>2
<1>5. dblock' = Released(p)
  BY DEF Exit
<1>6. /\ dblock' \in [sessions : SomeProc, devices : SomeProc]
      /\ \A q \in Procs : q # p /\ dblock.sessions = q => dblock'.sessions = q
      /\ \A q \in Procs : q # p /\ dblock.devices = q => dblock'.devices = q
  BY <1>5, ReleasedKeeps
<1>7. QED
  BY <1>3, <1>4, <1>6 DEF ComesAndGoes, StartupTyped

\* A process that starts.
LEMMA SpawnedComes ==
  ASSUME StartupTyped, NEW p \in Spare
  PROVE  /\ p \in Procs /\ proc[p].pc = "off"
         /\ Spawned(p) \in [Procs -> [pc : {"off", "config", "exited"} \cup Working,
                                      mode : {Nobody, "encrypted", "plaintext"}, key : SomeProc]]
         /\ \A q \in Procs : IF q = p THEN /\ Spawned(p)[q].pc = "config"
                                           /\ Spawned(p)[q].key = proc[q].key
                             ELSE Spawned(p)[q] = proc[q]
<1>1. p \in Procs /\ proc[p].pc = "off"
  <2> DEFINE unused == {q \in Procs : proc[q].pc = "off"}
  <2>1. unused # {} /\ p = CHOOSE q \in unused : TRUE
    BY DEF Spare
  <2>2. p \in unused
    BY <2>1
  <2>3. QED
    BY <2>2
<1>2. proc \in [Procs -> [pc : {"off", "config", "exited"} \cup Working,
                          mode : {Nobody, "encrypted", "plaintext"}, key : SomeProc]]
  BY DEF StartupTyped
<1>3. QED
  BY <1>1, <1>2 DEF Spawned

LEMMA SpawnComesAndGoes ==
  ASSUME StartupTyped, NEW p \in Spare, proc' = Spawned(p),
         UNCHANGED <<encrypt, keychain, rows, dblock, socket, saved, keyTrouble, optedOut>>
  PROVE  ComesAndGoes
<1>1. /\ p \in Procs /\ proc[p].pc = "off"
      /\ proc' \in [Procs -> [pc : {"off", "config", "exited"} \cup Working,
                              mode : {Nobody, "encrypted", "plaintext"}, key : SomeProc]]
      /\ \A q \in Procs : IF q = p THEN proc'[q].pc = "config" /\ proc'[q].key = proc[q].key
                          ELSE proc'[q] = proc[q]
  BY SpawnedComes
<1>2. QED
  BY <1>1 DEF ComesAndGoes, StartupTyped

LEMMA QuietComesAndGoes ==
  ASSUME StartupTyped, UNCHANGED procVars
  PROVE  ComesAndGoes
BY DEF ComesAndGoes, StartupTyped, procVars

-----------------------------------------------------------------------------
(* The daemon.                                                             *)

\* A daemon that has looked for its key goes on.
LEMMA MovesOn ==
  ASSUME StartupTyped, ModeInv, KeyInv, NEW p \in Procs, NEW pc \in Keyed,
         proc[p].pc \in Keyed, Moves(p, pc),
         UNCHANGED <<encrypt, keychain, rows, saved, keyTrouble, optedOut>>
  PROVE  ModeInv' /\ KeyInv'
<1>1. \A q \in Procs : /\ proc'[q].mode = proc[q].mode /\ proc'[q].key = proc[q].key
                       /\ proc'[q].pc = proc[q].pc \/ (q = p /\ proc'[q].pc = pc)
  BY DEF Moves
<1>2. pc \in Working /\ pc \notin {"off", "config", "key", "setkey"} /\ proc[p].pc \in Working
  BY DEF Keyed, Working
<1>3. ModeInv'
  BY <1>1, <1>2 DEF ModeInv
<1>4. KeyInv'
  BY <1>1, <1>2 DEF KeyInv
<1>5. QED
  BY <1>3, <1>4

LEMMA LoadConfigStep == ASSUME DaemonInv, NEW p \in Procs, LoadConfig(p) PROVE DaemonInv'
<1> USE DEF DaemonInv
<1> DEFINE mode == IF encrypt THEN "encrypted" ELSE "plaintext"
<1>1. /\ proc[p].pc = "config" /\ proc' = [proc EXCEPT ![p].mode = mode, ![p].pc = "key"]
      /\ UNCHANGED <<encrypt, keychain, rows, dblock, socket, saved, keyTrouble, optedOut>>
  BY DEF LoadConfig
<1>2. proc \in [Procs -> [pc : {"off", "config", "exited"} \cup Working,
                          mode : {Nobody, "encrypted", "plaintext"}, key : SomeProc]]
  BY DEF StartupTyped
<1>3. mode \in {Nobody, "encrypted", "plaintext"} /\ (mode # "encrypted" => optedOut)
  BY DEF ModeInv
<1> HIDE DEF mode
<1>4. proc' \in [Procs -> [pc : {"off", "config", "exited"} \cup Working,
                           mode : {Nobody, "encrypted", "plaintext"}, key : SomeProc]]
  BY <1>1, <1>2, <1>3 DEF Working
<1>5. /\ proc'[p].pc = "key" /\ proc'[p].mode = mode /\ proc'[p].key = proc[p].key
      /\ \A q \in Procs \ {p} : proc'[q] = proc[q]
  BY <1>1, <1>2
<1>6. StartupTyped'
  BY <1>1, <1>4 DEF StartupTyped
<1>7. LockInv'
  BY <1>1, <1>5 DEF LockInv, Holding
<1>8. ModeInv'
  BY <1>1, <1>3, <1>5 DEF ModeInv, Keyed
<1>9. KeyInv'
  BY <1>1, <1>5 DEF KeyInv, Keyed
<1>10. QED
  BY <1>6, <1>7, <1>8, <1>9

\* A daemon that looks for its key finds the keychain's, or none there is.
LEMMA KeyFoundStep ==
  ASSUME DaemonInv, NEW p \in Procs, NEW key \in SomeProc, NEW pc \in {"db1", "setkey"},
         proc[p].pc \in {"key", "setkey"},
         proc' = [proc EXCEPT ![p].key = key, ![p].pc = pc],
         pc = "setkey" => keychain' = Nobody /\ key = Nobody,
         pc = "db1" => key = keychain' /\ (proc[p].mode = "encrypted" => key # Nobody),
         keychain' \in SomeProc, keyTrouble' \in BOOLEAN, keyTrouble => keyTrouble',
         \/ keychain' = keychain
         \/ keyTrouble' \/ (/\ keychain = Nobody
                            /\ \A q \in Procs \ {p} : proc[q].pc \notin Keyed \cup {"setkey"}),
         UNCHANGED <<encrypt, rows, dblock, socket, saved, optedOut>>
  PROVE  DaemonInv'
<1> USE DEF DaemonInv
<1>1. proc \in [Procs -> [pc : {"off", "config", "exited"} \cup Working,
                          mode : {Nobody, "encrypted", "plaintext"}, key : SomeProc]]
  BY DEF StartupTyped
<1>2. proc' \in [Procs -> [pc : {"off", "config", "exited"} \cup Working,
                           mode : {Nobody, "encrypted", "plaintext"}, key : SomeProc]]
  BY <1>1 DEF Working
<1>3. /\ proc'[p].pc = pc /\ proc'[p].mode = proc[p].mode /\ proc'[p].key = key
      /\ \A q \in Procs \ {p} : proc'[q] = proc[q]
  BY <1>1
<1>4. StartupTyped'
  BY <1>2 DEF StartupTyped
<1>5. LockInv'
  BY <1>3 DEF LockInv, Holding
<1>6. ModeInv'
  <2>1. proc[p].pc \in Working
    BY DEF Working
  <2>2. /\ proc'[p].pc \in Working /\ proc'[p].mode # "encrypted" => optedOut
        /\ proc'[p].pc \in Keyed /\ proc'[p].mode = "encrypted" => proc'[p].key # Nobody
        /\ proc'[p].pc \in {"off", "config", "key", "setkey"} => proc'[p].key = Nobody
    BY <1>3, <2>1 DEF ModeInv, Keyed
  <2>3. QED
    BY <1>3, <2>2 DEF ModeInv
<1>7. KeyInv'
  <2> SUFFICES ASSUME ~keyTrouble'
               PROVE  /\ \A q \in Procs : proc'[q].pc \in Keyed => proc'[q].key = keychain'
                      /\ \A q \in Procs : proc'[q].pc = "setkey" => keychain' = Nobody
                      /\ rows.session \in {Nobody, "plain", keychain'}
                      /\ saved => rows.session # Nobody
    BY DEF KeyInv
  <2>1. ~keyTrouble
    OBVIOUS
  <2>2. CASE keychain' = keychain
    BY <1>3, <2>1, <2>2 DEF KeyInv, Keyed
  <2>3. CASE keychain = Nobody /\ \A q \in Procs \ {p} : proc[q].pc \notin Keyed \cup {"setkey"}
    <3>1. /\ proc'[p].pc \in Keyed => proc'[p].key = keychain'
          /\ proc'[p].pc = "setkey" => keychain' = Nobody
      BY <1>3 DEF Keyed
    <3>2. \A q \in Procs \ {p} : proc'[q].pc \notin Keyed /\ proc'[q].pc # "setkey"
      BY <1>3, <2>3
    <3>3. rows.session \in {Nobody, "plain"} /\ (saved => rows.session # Nobody)
      BY <2>1, <2>3 DEF KeyInv
    <3>4. QED
      BY <3>1, <3>2, <3>3
  <2>4. QED
    BY <2>2, <2>3
<1>8. QED
  BY <1>4, <1>5, <1>6, <1>7

LEMMA GetKeyStep == ASSUME DaemonInv, NEW p \in Procs, GetKey(p) PROVE DaemonInv'
<1>1. proc[p].pc = "key" /\ UNCHANGED <<encrypt, keychain, rows, socket, saved, optedOut>>
  BY DEF GetKey
<1>2. proc \in [Procs -> [pc : {"off", "config", "exited"} \cup Working,
                          mode : {Nobody, "encrypted", "plaintext"}, key : SomeProc]]
      /\ StartupTyped /\ proc[p].key = Nobody /\ Nobody \in SomeProc /\ keyTrouble \in BOOLEAN
      /\ keychain \in SomeProc
  BY <1>1 DEF DaemonInv, ModeInv, StartupTyped, SomeProc
<1>3. ASSUME NEW pc, Goes(p, pc)
      PROVE  proc' = [proc EXCEPT ![p].key = Nobody, ![p].pc = pc]
  BY <1>2, <1>3 DEF Goes
<1>4. CASE /\ keychain # Nobody /\ proc' = [proc EXCEPT ![p].key = keychain, ![p].pc = "db1"]
           /\ UNCHANGED <<dblock, keyTrouble>>
  BY <1>1, <1>2, <1>4, KeyFoundStep
<1>5. CASE /\ keychain = Nobody
           /\ Goes(p, IF proc[p].mode = "encrypted" THEN "setkey" ELSE "db1")
           /\ UNCHANGED <<dblock, keyTrouble>>
  <2> DEFINE pc == IF proc[p].mode = "encrypted" THEN "setkey" ELSE "db1"
  <2>1. pc \in {"db1", "setkey"} /\ (pc = "db1" => proc[p].mode # "encrypted") /\ Goes(p, pc)
    BY <1>5
  <2> HIDE DEF pc
  <2>2. proc' = [proc EXCEPT ![p].key = Nobody, ![p].pc = pc]
    BY <1>3, <2>1
  <2>3. QED
    BY <1>1, <1>2, <1>5, <2>1, <2>2, KeyFoundStep
<1>6. CASE proc[p].mode = "encrypted" /\ Exit(p) /\ keyTrouble' = TRUE
  <2>1. ComesAndGoes
    BY <1>1, <1>2, <1>6, ExitComesAndGoes DEF SomeProc
  <2>2. QED
    BY <2>1, ComesAndGoesStep
<1>7. CASE /\ proc[p].mode = "plaintext" /\ Goes(p, "db1") /\ UNCHANGED dblock
           /\ keyTrouble' = TRUE
  <2> USE DEF DaemonInv
  <2>1. /\ Moves(p, "db1")
        /\ proc' \in [Procs -> [pc : {"off", "config", "exited"} \cup Working,
                                mode : {Nobody, "encrypted", "plaintext"}, key : SomeProc]]
    BY <1>2, <1>7, GoesMoves DEF Working
  <2>2. StartupTyped'
    BY <1>1, <1>7, <2>1 DEF StartupTyped
  <2>3. LockInv'
    BY <1>1, <1>7, <2>1 DEF LockInv, Moves, Holding
  <2>4. ModeInv'
    BY <1>1, <1>7, <2>1 DEF ModeInv, Moves, Keyed, Working
  <2>5. KeyInv'
    BY <1>7 DEF KeyInv
  <2>6. QED
    BY <2>2, <2>3, <2>4, <2>5
<1>8. QED
  BY <1>4, <1>5, <1>6, <1>7 DEF GetKey, WithoutKeychain

LEMMA SetKeyStep == ASSUME DaemonInv, NEW p \in Procs, SetKey(p) PROVE DaemonInv'
<1> DEFINE raced == \E o \in Procs \ {p} : Up(o) /\ proc[o].pc \notin {"config", "key"}
<1>1. /\ proc[p].pc = "setkey" /\ keychain' = p
      /\ proc' = [proc EXCEPT ![p].key = p, ![p].pc = "db1"]
      /\ keyTrouble' = (keyTrouble \/ raced)
      /\ UNCHANGED <<encrypt, rows, dblock, socket, saved, optedOut>>
  BY DEF SetKey
<1>2. p \in SomeProc /\ p # Nobody /\ keyTrouble' \in BOOLEAN
  BY <1>1, StartupAssumption DEF SomeProc, DaemonInv, StartupTyped
<1>3. ASSUME ~keyTrouble'
      PROVE  keychain = Nobody /\ \A q \in Procs \ {p} : proc[q].pc \notin Keyed \cup {"setkey"}
  <2>1. ~keyTrouble /\ ~raced
    BY <1>1, <1>3
  <2>2. keychain = Nobody
    BY <1>1, <2>1 DEF DaemonInv, KeyInv
  <2>3. QED
    BY <2>1, <2>2 DEF Up, Keyed
<1> HIDE DEF raced
<1>4. keyTrouble => keyTrouble'
  BY <1>1
<1>5. QED
  BY <1>1, <1>2, <1>3, <1>4, KeyFoundStep

\* open_database_with_lock_retry: a lock that is taken is held by nobody else.
LEMMA OpenDatabaseStep ==
  ASSUME DaemonInv, NEW p \in Procs, NEW d \in {"sessions", "devices"},
         NEW from, NEW to, OpenDatabase(p, d, from, to),
         (d = "sessions" /\ from = "db1" /\ to = "db2")
           \/ (d = "devices" /\ from = "db2" /\ to = "prune")
  PROVE  DaemonInv'
<1> USE DEF DaemonInv
<1>1. /\ proc[p].pc = from
      /\ UNCHANGED <<encrypt, keychain, rows, socket, saved, keyTrouble, optedOut>>
  BY DEF OpenDatabase
<1>2. CASE Exit(p)
  <2>1. ComesAndGoes
    BY <1>1, <1>2, ExitComesAndGoes DEF SomeProc, StartupTyped
  <2>2. QED
    BY <2>1, ComesAndGoesStep
<1>3. CASE MayOpen(d) /\ dblock' = [dblock EXCEPT ![d] = p] /\ Goes(p, to)
  <2>1. to \in Keyed /\ to \in Working /\ from \in Keyed
    BY DEF Keyed, Working
  <2>2. /\ Moves(p, to)
        /\ proc' \in [Procs -> [pc : {"off", "config", "exited"} \cup Working,
                                mode : {Nobody, "encrypted", "plaintext"}, key : SomeProc]]
    BY <1>3, <2>1, GoesMoves
  <2>3. ModeInv' /\ KeyInv'
    BY <1>1, <2>1, <2>2, MovesOn
  <2>4. dblock \in [sessions : SomeProc, devices : SomeProc] /\ p \in SomeProc
    BY DEF StartupTyped, SomeProc
  <2>5. /\ dblock' \in [sessions : SomeProc, devices : SomeProc]
        /\ d = "sessions" => dblock'.sessions = p /\ dblock'.devices = dblock.devices
        /\ d = "devices" => dblock'.devices = p /\ dblock'.sessions = dblock.sessions
    BY <1>3, <2>4
  <2>6. StartupTyped'
    BY <1>1, <2>2, <2>5 DEF StartupTyped
  <2>7. dblock[d] = Nobody
    BY <1>3 DEF MayOpen
  <2>8. \A q \in Procs \ {p} : proc'[q] = proc[q] /\ q # Nobody
    BY <2>2, StartupAssumption DEF Moves
  <2>9. proc'[p].pc = to
    BY <2>2 DEF Moves
  <2>10. CASE d = "sessions" /\ from = "db1" /\ to = "db2"
    <3>1. dblock.sessions = Nobody /\ dblock'.sessions = p /\ dblock'.devices = dblock.devices
      BY <2>5, <2>7, <2>10
    <3>2. \A q \in Procs : proc[q].pc # "db2" /\ proc[q].pc \notin Holding
      BY <3>1, StartupAssumption DEF LockInv
    <3>3. proc'[p].pc = "db2"
      BY <2>9, <2>10
    <3>4. \A q \in Procs \ {p} : proc'[q].pc # "db2" /\ proc'[q].pc \notin Holding
      BY <2>8, <3>2
    <3>5. LockInv'
      BY <3>1, <3>3, <3>4 DEF LockInv, Holding
    <3>6. QED
      BY <2>3, <2>6, <3>5
  <2>11. CASE d = "devices" /\ from = "db2" /\ to = "prune"
    <3>1. dblock.devices = Nobody /\ dblock'.devices = p /\ dblock'.sessions = dblock.sessions
      BY <2>5, <2>7, <2>11
    <3>2. \A q \in Procs : proc[q].pc \notin Holding
      BY <3>1, StartupAssumption DEF LockInv
    <3>3. dblock.sessions = p
      BY <1>1, <2>11 DEF LockInv
    <3>4. proc'[p].pc = "prune" /\ dblock'.sessions = p
      BY <2>9, <2>11, <3>1, <3>3
    <3>5. \A q \in Procs \ {p} : proc'[q].pc \notin Holding /\ proc'[q].pc # "db2"
      BY <2>8, <3>2, <3>3 DEF LockInv
    <3>6. LockInv'
      BY <3>1, <3>4, <3>5 DEF LockInv, Holding
    <3>7. QED
      BY <2>3, <2>6, <3>6
  <2>12. QED
    BY <2>10, <2>11
<1>4. QED
  BY <1>2, <1>3 DEF OpenDatabase

\* prune_sessions: the row is written with the key the daemon has, or plain.
LEMMA PruneAndLoadStep == ASSUME DaemonInv, NEW p \in Procs, PruneAndLoad(p) PROVE DaemonInv'
<1> USE DEF DaemonInv
<1> DEFINE row == IF rows.session # Nobody /\ ~Decodes(p, rows.session)
                  THEN Nobody ELSE rows.session
<1>1. /\ proc[p].pc = "prune" /\ Goes(p, "unlink") /\ rows' = [rows EXCEPT !.session = row]
      /\ UNCHANGED <<encrypt, keychain, dblock, socket, saved, keyTrouble, optedOut>>
  BY DEF PruneAndLoad
<1>2. rows \in [session : SomeProc \cup {"plain"}, device : SomeProc \cup {"plain"}]
  BY DEF StartupTyped
<1>3. row \in {Nobody, rows.session}
  OBVIOUS
<1>4. ASSUME ~keyTrouble PROVE row = rows.session
  <2>1. proc[p].key = keychain /\ rows.session \in {Nobody, "plain", keychain}
    BY <1>1, <1>4 DEF KeyInv, Keyed
  <2>2. QED
    BY <2>1 DEF Decodes
<1> HIDE DEF row
<1>5. /\ Moves(p, "unlink")
      /\ proc' \in [Procs -> [pc : {"off", "config", "exited"} \cup Working,
                              mode : {Nobody, "encrypted", "plaintext"}, key : SomeProc]]
  BY <1>1, GoesMoves DEF Working
<1>6. /\ rows' \in [session : SomeProc \cup {"plain"}, device : SomeProc \cup {"plain"}]
      /\ rows'.session = row /\ rows'.device = rows.device
  BY <1>1, <1>2, <1>3 DEF SomeProc
<1>7. StartupTyped'
  BY <1>1, <1>5, <1>6 DEF StartupTyped
<1>8. LockInv'
  BY <1>1, <1>5 DEF LockInv, Moves, Holding
<1>9. ModeInv'
  BY <1>1, <1>3, <1>5, <1>6, StartupAssumption DEF ModeInv, Moves, Keyed, Working
<1>10. KeyInv'
  BY <1>1, <1>4, <1>5, <1>6 DEF KeyInv, Moves, Keyed
<1>11. QED
  BY <1>7, <1>8, <1>9, <1>10

\* prepare_control_socket: nobody serves while another has the databases.
LEMMA UnlinkSocketStep == ASSUME DaemonInv, NEW p \in Procs, UnlinkSocket(p) PROVE DaemonInv'
<1> USE DEF DaemonInv
<1>1. /\ proc[p].pc = "unlink" /\ Goes(p, "bind") /\ socket' = Nobody
      /\ UNCHANGED <<encrypt, keychain, rows, dblock, saved, keyTrouble, optedOut>>
  BY DEF UnlinkSocket
<1>2. /\ Moves(p, "bind")
      /\ proc' \in [Procs -> [pc : {"off", "config", "exited"} \cup Working,
                              mode : {Nobody, "encrypted", "plaintext"}, key : SomeProc]]
  BY <1>1, GoesMoves DEF Working
<1>3. StartupTyped'
  BY <1>1, <1>2 DEF StartupTyped, SomeProc
<1>4. ModeInv' /\ KeyInv'
  BY <1>1, <1>2, MovesOn DEF Keyed
<1>5. LockInv'
  <2>1. \A q \in Procs \ {p} : proc'[q] = proc[q] /\ proc[q].pc # "serving"
    BY <1>1, <1>2 DEF LockInv, Holding, Moves
  <2>2. proc'[p].pc = "bind" /\ dblock.sessions = p /\ dblock.devices = p
    BY <1>1, <1>2 DEF LockInv, Holding, Moves
  <2>3. QED
    BY <1>1, <2>1, <2>2 DEF LockInv
<1>6. QED
  BY <1>3, <1>4, <1>5

LEMMA BindSocketStep == ASSUME DaemonInv, NEW p \in Procs, BindSocket(p) PROVE DaemonInv'
<1> USE DEF DaemonInv
<1>1. proc[p].pc = "bind" /\ UNCHANGED <<encrypt, keychain, rows, saved, keyTrouble, optedOut>>
  BY DEF BindSocket
<1>2. CASE Exit(p) /\ UNCHANGED socket
  <2>1. ComesAndGoes
    BY <1>1, <1>2, ExitComesAndGoes DEF SomeProc, StartupTyped
  <2>2. QED
    BY <2>1, ComesAndGoesStep
<1>3. CASE socket = Nobody /\ socket' = p /\ Goes(p, "serving") /\ UNCHANGED dblock
  <2>1. /\ Moves(p, "serving")
        /\ proc' \in [Procs -> [pc : {"off", "config", "exited"} \cup Working,
                                mode : {Nobody, "encrypted", "plaintext"}, key : SomeProc]]
    BY <1>3, GoesMoves DEF Working
  <2>2. StartupTyped'
    BY <1>1, <1>3, <2>1 DEF StartupTyped, SomeProc
  <2>3. ModeInv' /\ KeyInv'
    BY <1>1, <2>1, MovesOn DEF Keyed
  <2>4. LockInv'
    <3>1. \A q \in Procs \ {p} : proc'[q] = proc[q] /\ proc[q].pc # "serving"
      BY <1>3, <2>1, StartupAssumption DEF LockInv, Moves
    <3>2. proc'[p].pc = "serving" /\ dblock.sessions = p /\ dblock.devices = p
      BY <1>1, <2>1 DEF LockInv, Holding, Moves
    <3>3. QED
      BY <1>3, <3>1, <3>2 DEF LockInv
  <2>5. QED
    BY <2>2, <2>3, <2>4
<1>4. QED
  BY <1>2, <1>3 DEF BindSocket

\* encode_payload: plain only for who opted out, else with the key there is.
LEMMA EncodedIsReadable ==
  ASSUME DaemonInv, NEW p \in Procs, proc[p].pc = "serving"
  PROVE  /\ Encoded(p) \in SomeProc \cup {"plain"} /\ Encoded(p) # Nobody
         /\ Encoded(p) = "plain" => optedOut
         /\ ~keyTrouble => Encoded(p) \in {"plain", keychain}
<1>1. "serving" \in Keyed /\ "serving" \in Working
  BY DEF Keyed, Working
<1>2. proc[p].key \in SomeProc
  BY TypedFields DEF DaemonInv, ProcFields
<1>3. CASE proc[p].mode = "encrypted"
  BY <1>1, <1>2, <1>3, StartupAssumption DEF DaemonInv, ModeInv, KeyInv, Encoded, SomeProc
<1>4. CASE proc[p].mode # "encrypted"
  BY <1>1, <1>4, StartupAssumption DEF DaemonInv, ModeInv, Encoded
<1>5. QED
  BY <1>3, <1>4

LEMMA SaveSessionStep == ASSUME DaemonInv, NEW p \in Procs, SaveSession(p) PROVE DaemonInv'
<1> DEFINE row == Encoded(p)
<1>1. /\ rows' = [rows EXCEPT !.session = row] /\ saved' = TRUE
      /\ UNCHANGED <<encrypt, keychain, proc, dblock, socket, keyTrouble, optedOut>>
  BY DEF SaveSession
<1>2. /\ row \in SomeProc \cup {"plain"} /\ row # Nobody
      /\ row = "plain" => optedOut
      /\ ~keyTrouble => row \in {"plain", keychain}
  BY EncodedIsReadable DEF SaveSession
<1> HIDE DEF row
<1> USE DEF DaemonInv
<1>3. rows \in [session : SomeProc \cup {"plain"}, device : SomeProc \cup {"plain"}]
  BY DEF StartupTyped
<1>4. /\ rows' \in [session : SomeProc \cup {"plain"}, device : SomeProc \cup {"plain"}]
      /\ rows'.session = row /\ rows'.device = rows.device
  BY <1>1, <1>2, <1>3
<1>5. StartupTyped' /\ LockInv'
  BY <1>1, <1>4 DEF StartupTyped, LockInv
<1>6. ModeInv' /\ KeyInv'
  BY <1>1, <1>2, <1>4 DEF ModeInv, KeyInv
<1>7. QED
  BY <1>5, <1>6

LEMMA SaveDeviceStep == ASSUME DaemonInv, NEW p \in Procs, SaveDevice(p) PROVE DaemonInv'
<1> DEFINE row == Encoded(p)
<1>1. /\ rows' = [rows EXCEPT !.device = row]
      /\ UNCHANGED <<encrypt, keychain, proc, dblock, socket, saved, keyTrouble, optedOut>>
  BY DEF SaveDevice
<1>2. row \in SomeProc \cup {"plain"} /\ (row = "plain" => optedOut)
  BY EncodedIsReadable DEF SaveDevice
<1> HIDE DEF row
<1> USE DEF DaemonInv
<1>3. rows \in [session : SomeProc \cup {"plain"}, device : SomeProc \cup {"plain"}]
  BY DEF StartupTyped
<1>4. /\ rows' \in [session : SomeProc \cup {"plain"}, device : SomeProc \cup {"plain"}]
      /\ rows'.device = row /\ rows'.session = rows.session
  BY <1>1, <1>2, <1>3
<1>5. StartupTyped' /\ LockInv'
  BY <1>1, <1>4 DEF StartupTyped, LockInv
<1>6. ModeInv' /\ KeyInv'
  BY <1>1, <1>2, <1>4 DEF ModeInv, KeyInv
<1>7. QED
  BY <1>5, <1>6

LEMMA DaemonStepStep == ASSUME DaemonInv, NEW p \in Procs, DaemonStep(p) PROVE DaemonInv'
<1>1. CASE LoadConfig(p) \/ GetKey(p) \/ SetKey(p)
  BY <1>1, LoadConfigStep, GetKeyStep, SetKeyStep
<1>2. CASE OpenSessions(p)
  BY <1>2, OpenDatabaseStep DEF OpenSessions
<1>3. CASE OpenDevices(p)
  BY <1>3, OpenDatabaseStep DEF OpenDevices
<1>4. CASE PruneAndLoad(p) \/ UnlinkSocket(p) \/ BindSocket(p)
  BY <1>4, PruneAndLoadStep, UnlinkSocketStep, BindSocketStep
<1>5. QED
  BY <1>1, <1>2, <1>3, <1>4 DEF DaemonStep

-----------------------------------------------------------------------------
(* The commands, and the service manager.                                  *)

\* Commands that go on, with no word of failure from an installer, and a
\* service that is not installed by them.
LEMMA InstallKept ==
  ASSUME InstallInv, NEW c \in Callers,
         NEW pc \in {"start", "wait", "ok", "failed", "health", "restarted", "unhealthy"},
         NEW child \in SomeProc, NEW installed \in BOOLEAN, NEW runs \in SomeProc,
         caller' = [caller EXCEPT ![c] = [pc |-> pc, child |-> child]],
         service' = [installed |-> installed, runs |-> runs],
         c \in Installers => pc # "wait",
         installed => \/ c \in Installers /\ pc \notin {"start", "failed"}
                      \/ /\ service.installed
                         /\ caller[c].pc \in {"start", "failed"} \/ pc \notin {"start", "failed"} \/ c \notin Installers
  PROVE  InstallInv'
<1>1. /\ caller \in [Callers -> [pc : {"start", "wait", "ok", "failed", "health", "restarted",
                                      "unhealthy"}, child : SomeProc]]
      /\ service \in [installed : BOOLEAN, runs : SomeProc]
  BY DEF InstallInv
<1>2. /\ caller' \in [Callers -> [pc : {"start", "wait", "ok", "failed", "health", "restarted",
                                       "unhealthy"}, child : SomeProc]]
      /\ service' \in [installed : BOOLEAN, runs : SomeProc] /\ service'.installed = installed
      /\ caller'[c].pc = pc /\ \A k \in Callers \ {c} : caller'[k] = caller[k]
  BY <1>1
<1>3. \A k \in Installers : caller'[k].pc # "wait"
  BY <1>2, StartupAssumption DEF InstallInv
<1>4. ASSUME installed, \A k \in Installers : caller'[k].pc \in {"start", "failed"} PROVE FALSE
  <2>1. ~(c \in Installers /\ pc \notin {"start", "failed"})
    BY <1>2, <1>4
  <2>2. service.installed /\ (caller[c].pc \in {"start", "failed"} \/ c \notin Installers)
    BY <1>2, <1>4, <2>1
  <2>3. \A k \in Installers : caller[k].pc \in {"start", "failed"}
    BY <1>2, <1>4, <2>2, StartupAssumption
  <2>4. QED
    BY <2>2, <2>3 DEF InstallInv, FailedInstallLeavesNothing
<1>5. QED
  BY <1>2, <1>3, <1>4 DEF InstallInv, FailedInstallLeavesNothing

LEMMA CallerChild ==
  ASSUME InstallInv, NEW c \in Callers, NEW pc, CallerGoes(c, pc)
  PROVE  /\ caller[c].child \in SomeProc
         /\ caller' = [caller EXCEPT ![c] = [pc |-> pc, child |-> caller[c].child]]
<1>1. caller \in [Callers -> [pc : {"start", "wait", "ok", "failed", "health", "restarted",
                                    "unhealthy"}, child : SomeProc]]
  BY DEF InstallInv
<1>2. caller' = [caller EXCEPT ![c].pc = pc]
  BY DEF CallerGoes
<1>3. [caller[c] EXCEPT !.pc = pc] = [pc |-> pc, child |-> caller[c].child]
  BY <1>1
<1>4. QED
  BY <1>1, <1>2, <1>3

LEMMA ServiceFields ==
  ASSUME InstallInv
  PROVE  /\ service.installed \in BOOLEAN /\ service.runs \in SomeProc
         /\ service = [installed |-> service.installed, runs |-> service.runs]
         /\ \A p : [service EXCEPT !.runs = p] = [installed |-> service.installed, runs |-> p]
         /\ [service EXCEPT !.installed = FALSE] = [installed |-> FALSE, runs |-> service.runs]
<1>1. service \in [installed : BOOLEAN, runs : SomeProc]
  BY DEF InstallInv
<1>2. service.installed \in BOOLEAN /\ service.runs \in SomeProc
  BY <1>1
<1>3. service = [installed |-> service.installed, runs |-> service.runs]
  BY <1>1
<1>4. \A p : [service EXCEPT !.runs = p] = [installed |-> service.installed, runs |-> p]
  BY <1>1
<1>5. [service EXCEPT !.installed = FALSE] = [installed |-> FALSE, runs |-> service.runs]
  <2>1. \A x : [service EXCEPT !.installed = x] = [installed |-> x, runs |-> service.runs]
    BY <1>1
  <2>2. QED
    BY <2>1
<1>6. QED
  BY <1>2, <1>3, <1>4, <1>5

LEMMA SpareAreProcs == \A p \in Spare : p \in SomeProc
<1> SUFFICES ASSUME NEW p \in Spare PROVE p \in Procs
  BY DEF SomeProc
<1> DEFINE unused == {q \in Procs : proc[q].pc = "off"}
<1>1. unused # {} /\ p = CHOOSE q \in unused : TRUE
  BY DEF Spare
<1>2. p \in unused
  BY <1>1
<1>3. QED
  BY <1>2

LEMMA connect_localStep ==
  ASSUME StartupIInv, NEW c \in Callers, connect_local(c)
  PROVE  StartupIInv'
<1> USE DEF StartupIInv, DaemonInv
<1>1. c \notin Installers /\ UNCHANGED service
  BY DEF connect_local
<1>2. CASE CallerGoes(c, "ok") /\ UNCHANGED proc
  <2>1. UNCHANGED procVars
    BY <1>2 DEF connect_local, procVars
  <2>2. DaemonInv'
    BY <2>1, QuietComesAndGoes, ComesAndGoesStep
  <2>3. InstallInv'
    BY <1>1, <1>2, CallerChild, ServiceFields, InstallKept
  <2>4. QED
    BY <2>2, <2>3
<1>3. CASE \E p \in Spare : /\ proc' = Spawned(p)
                            /\ caller' = [caller EXCEPT ![c] = [pc |-> "wait", child |-> p]]
  <2>1. PICK p \in Spare : /\ proc' = Spawned(p)
                           /\ caller' = [caller EXCEPT ![c] = [pc |-> "wait", child |-> p]]
    BY <1>3
  <2>2. ComesAndGoes
    BY <2>1, SpawnComesAndGoes DEF connect_local
  <2>3. InstallInv'
    BY <1>1, <2>1, SpareAreProcs, ServiceFields, InstallKept
  <2>4. QED
    BY <2>2, <2>3, ComesAndGoesStep
<1>4. QED
  BY <1>2, <1>3 DEF connect_local

LEMMA wait_for_daemonStep ==
  ASSUME StartupIInv, NEW c \in Callers, wait_for_daemon(c)
  PROVE  StartupIInv'
<1> USE DEF StartupIInv, DaemonInv
<1>1. c \notin Installers /\ service' = service /\ UNCHANGED procVars
  BY DEF wait_for_daemon, InstallInv
<1>2. PICK pc \in {"ok", "failed"} : CallerGoes(c, pc)
  BY DEF wait_for_daemon
<1>3. InstallInv'
  BY <1>1, <1>2, CallerChild, ServiceFields, InstallKept
<1>4. QED
  BY <1>1, <1>3, QuietComesAndGoes, ComesAndGoesStep

LEMMA installStep == ASSUME StartupIInv, NEW c \in Callers, install(c) PROVE StartupIInv'
<1> USE DEF StartupIInv, DaemonInv
<1>1. c \in Installers /\ CallerGoes(c, "health")
  BY DEF install
<1>2. PICK p \in Spare : proc' = Spawned(p) /\ service' = [installed |-> TRUE, runs |-> p]
  BY DEF install
<1>3. ComesAndGoes
  BY <1>2, SpawnComesAndGoes DEF install
<1>4. InstallInv'
  BY <1>1, <1>2, CallerChild, SpareAreProcs, InstallKept
<1>5. QED
  BY <1>3, <1>4, ComesAndGoesStep

LEMMA ensure_service_launch_allowedStep ==
  ASSUME StartupIInv, NEW c \in Callers, ensure_service_launch_allowed(c)
  PROVE  StartupIInv'
<1> USE DEF StartupIInv, DaemonInv
<1>1. UNCHANGED procVars /\ CallerGoes(c, "failed")
      /\ service' = [service EXCEPT !.installed = FALSE]
  BY DEF ensure_service_launch_allowed
<1>2. service' = [installed |-> FALSE, runs |-> service.runs] /\ service.runs \in SomeProc
  BY <1>1, ServiceFields
<1>3. InstallInv'
  BY <1>1, <1>2, CallerChild, InstallKept
<1>4. QED
  BY <1>1, <1>3, QuietComesAndGoes, ComesAndGoesStep

LEMMA wait_for_existing_daemonStep ==
  ASSUME StartupIInv, NEW c \in Callers, wait_for_existing_daemon(c)
  PROVE  StartupIInv'
<1> USE DEF StartupIInv, DaemonInv
<1>1. UNCHANGED <<encrypt, keychain, rows, socket, saved, keyTrouble, optedOut>>
  BY DEF wait_for_existing_daemon
<1>2. CASE UNCHANGED <<proc, dblock, service>> /\ (CallerGoes(c, "ok") \/ CallerGoes(c, "unhealthy"))
  <2>1. UNCHANGED procVars
    BY <1>1, <1>2 DEF procVars
  <2>2. PICK pc \in {"ok", "unhealthy"} : CallerGoes(c, pc)
    BY <1>2
  <2>3. InstallInv'
    BY <1>2, <2>2, CallerChild, ServiceFields, InstallKept
  <2>4. QED
    BY <2>1, <2>3, QuietComesAndGoes, ComesAndGoesStep
<1>3. CASE /\ CallerGoes(c, "failed") /\ service' = Uninstalled
           /\ IF Up(service.runs) THEN Exit(service.runs) ELSE UNCHANGED <<proc, dblock>>
  <2>1. service' = [installed |-> FALSE, runs |-> service.runs] /\ service.runs \in SomeProc
    BY <1>3, ServiceFields DEF Uninstalled
  <2>2. InstallInv'
    <3>1. CallerGoes(c, "failed")
      BY <1>3
    <3>2. QED
      BY <2>1, <3>1, CallerChild, InstallKept
  <2>3. CASE Exit(service.runs)
    <3>1. ComesAndGoes
      BY <1>1, <2>1, <2>3, ExitComesAndGoes DEF StartupTyped
    <3>2. QED
      BY <2>2, <3>1, ComesAndGoesStep
  <2>4. CASE UNCHANGED <<proc, dblock>>
    <3>1. UNCHANGED procVars
      BY <1>1, <2>4 DEF procVars
    <3>2. QED
      BY <2>2, <3>1, QuietComesAndGoes, ComesAndGoesStep
  <2>5. QED
    BY <1>3, <2>3, <2>4
<1>4. QED
  BY <1>2, <1>3 DEF wait_for_existing_daemon

\* A service that goes on, or is not there.
LEMMA ServiceKept ==
  ASSUME InstallInv, caller' = caller,
         NEW runs \in SomeProc, service' = [installed |-> service.installed, runs |-> runs]
  PROVE  InstallInv'
<1>1. service'.installed = service.installed /\ service.installed \in BOOLEAN
  BY DEF InstallInv
<1>2. service' \in [installed : BOOLEAN, runs : SomeProc]
  BY <1>1
<1>3. QED
  BY <1>1, <1>2 DEF InstallInv, FailedInstallLeavesNothing

LEMMA ServiceRestartsStep == ASSUME StartupIInv, ServiceRestarts PROVE StartupIInv'
<1> USE DEF StartupIInv, DaemonInv
<1>1. PICK p \in Spare : proc' = Spawned(p) /\ service' = [service EXCEPT !.runs = p]
  BY DEF ServiceRestarts
<1>2. ComesAndGoes
  BY <1>1, SpawnComesAndGoes DEF ServiceRestarts
<1>3. InstallInv'
  BY <1>1, SpareAreProcs, ServiceFields, ServiceKept DEF ServiceRestarts
<1>4. QED
  BY <1>2, <1>3, ComesAndGoesStep

LEMMA RestartServiceStep ==
  ASSUME StartupIInv, NEW c \in Callers, RestartService(c)
  PROVE  StartupIInv'
<1> USE DEF StartupIInv, DaemonInv
<1> DEFINE old == service.runs
<1>1. /\ c \in Installers /\ CallerGoes(c, "restarted") /\ service.installed
      /\ dblock' = Released(old)
      /\ UNCHANGED <<encrypt, keychain, rows, socket, saved, keyTrouble, optedOut>>
  BY DEF RestartService
<1>2. PICK p \in Spare : /\ proc' = [Spawned(p) EXCEPT ![old].pc = "exited"]
                         /\ service' = [service EXCEPT !.runs = p]
  BY DEF RestartService
<1> HIDE DEF old
<1>3. /\ p \in Procs /\ proc[p].pc = "off"
      /\ Spawned(p) \in [Procs -> [pc : {"off", "config", "exited"} \cup Working,
                                   mode : {Nobody, "encrypted", "plaintext"}, key : SomeProc]]
      /\ \A q \in Procs : IF q = p THEN Spawned(p)[q].pc = "config" /\ Spawned(p)[q].key = proc[q].key
                          ELSE Spawned(p)[q] = proc[q]
  BY SpawnedComes
<1>4. /\ proc' \in [Procs -> [pc : {"off", "config", "exited"} \cup Working,
                              mode : {Nobody, "encrypted", "plaintext"}, key : SomeProc]]
      /\ \A q \in Procs : IF q = old THEN proc'[q].pc = "exited" ELSE proc'[q] = Spawned(p)[q]
  <2> DEFINE spawned == Spawned(p)
  <2>1. proc' = [spawned EXCEPT ![old].pc = "exited"]
    BY <1>2
  <2>2. spawned \in [Procs -> [pc : {"off", "config", "exited"} \cup Working,
                               mode : {Nobody, "encrypted", "plaintext"}, key : SomeProc]]
    BY <1>3
  <2> HIDE DEF spawned
  <2>3. /\ proc' \in [Procs -> [pc : {"off", "config", "exited"} \cup Working,
                                mode : {Nobody, "encrypted", "plaintext"}, key : SomeProc]]
        /\ \A q \in Procs : IF q = old THEN proc'[q].pc = "exited" ELSE proc'[q] = spawned[q]
    BY <2>1, <2>2
  <2>4. QED
    BY <2>3 DEF spawned
<1>5. /\ dblock' \in [sessions : SomeProc, devices : SomeProc]
      /\ \A q \in Procs : q # old /\ dblock.sessions = q => dblock'.sessions = q
      /\ \A q \in Procs : q # old /\ dblock.devices = q => dblock'.devices = q
  BY <1>1, ReleasedKeeps
<1>6. ComesAndGoes
  <2>1. \A q \in Procs : \/ proc'[q] = proc[q]
                         \/ proc'[q].pc = "exited"
                         \/ proc'[q].pc = "config" /\ proc[q].pc = "off" /\ proc'[q].key = proc[q].key
    BY <1>3, <1>4
  <2>2. \A q \in Procs : proc'[q].pc # "exited" => q # old
    BY <1>4
  <2>3. QED
    BY <1>1, <1>4, <1>5, <2>1, <2>2 DEF ComesAndGoes, StartupTyped
<1>7. InstallInv'
  <2>1. service' = [installed |-> service.installed, runs |-> p] /\ p \in SomeProc
        /\ service.installed \in BOOLEAN
    BY <1>2, SpareAreProcs, ServiceFields
  <2>2. QED
    BY <1>1, <2>1, CallerChild, InstallKept
<1>8. QED
  BY <1>6, <1>7, ComesAndGoesStep

-----------------------------------------------------------------------------
(* All of it.                                                              *)

LEMMA StartupInitIInv == StartupInit => StartupIInv
<1> SUFFICES ASSUME StartupInit PROVE StartupIInv
  OBVIOUS
<1>1. /\ encrypt = TRUE /\ keychain = Nobody /\ socket = Nobody
      /\ rows = [session |-> Nobody, device |-> Nobody] /\ proc = [p \in Procs |-> Off]
      /\ dblock = [sessions |-> Nobody, devices |-> Nobody]
      /\ saved = FALSE /\ keyTrouble = FALSE /\ optedOut = FALSE
  BY DEF StartupInit
<1>2. /\ caller = [c \in Callers |-> [pc |-> "start", child |-> Nobody]]
      /\ service = [installed |-> FALSE, runs |-> Nobody]
  BY DEF StartupInit
<1>3. \A p \in Procs : proc[p].pc = "off" /\ proc[p].key = Nobody
  BY <1>1 DEF Off
<1>4. StartupTyped
  BY <1>1 DEF StartupTyped, SomeProc, Off
<1>5. LockInv
  BY <1>3 DEF LockInv, Holding
<1>6. ModeInv
  BY <1>1, <1>3, StartupAssumption DEF ModeInv, Working, Keyed
<1>7. KeyInv
  BY <1>1, <1>3 DEF KeyInv, Keyed
<1>8. InstallInv
  BY <1>2, StartupAssumption DEF InstallInv, FailedInstallLeavesNothing, SomeProc
<1>9. QED
  BY <1>4, <1>5, <1>6, <1>7, <1>8 DEF StartupIInv

\* The commands and the service do not change with a daemon.
LEMMA InstallUntouched == ASSUME InstallInv, UNCHANGED <<caller, service>> PROVE InstallInv'
BY DEF InstallInv, FailedInstallLeavesNothing

LEMMA StartupStep == StartupIInv /\ [StartupNext]_startupVars => StartupIInv'
<1> SUFFICES ASSUME StartupIInv, [StartupNext]_startupVars PROVE StartupIInv'
  OBVIOUS
<1>0. DaemonInv /\ InstallInv /\ StartupTyped
  BY DEF StartupIInv, DaemonInv
<1>1. ASSUME DaemonInv', UNCHANGED <<caller, service>> PROVE StartupIInv'
  BY <1>0, <1>1, InstallUntouched DEF StartupIInv, DaemonInv
<1>2. CASE UNCHANGED startupVars
  <2>1. UNCHANGED procVars /\ UNCHANGED <<caller, service>>
    BY <1>2 DEF startupVars
  <2>2. QED
    BY <1>0, <1>1, <2>1, QuietComesAndGoes, ComesAndGoesStep
<1>3. ASSUME NEW p \in Procs, ProcNext(p) PROVE StartupIInv'
  BY <1>0, <1>1, <1>3, DaemonStepStep DEF ProcNext
<1>4. ASSUME NEW p \in Procs, Saves(p) PROVE StartupIInv'
  BY <1>0, <1>1, <1>4, SaveSessionStep, SaveDeviceStep DEF Saves
<1>5. ASSUME NEW p \in Procs, Crash(p) PROVE StartupIInv'
  <2>1. /\ Exit(p) /\ UNCHANGED <<caller, service>> /\ p \in SomeProc /\ keyTrouble \in BOOLEAN
        /\ UNCHANGED <<encrypt, keychain, rows, socket, saved, optedOut, keyTrouble>>
    BY <1>0, <1>5 DEF Crash, SomeProc, StartupTyped
  <2>2. ComesAndGoes
    BY <1>0, <2>1, ExitComesAndGoes
  <2>3. QED
    BY <1>0, <1>1, <2>1, <2>2, ComesAndGoesStep
<1>6. ASSUME NEW c \in Callers, CallerNext(c) PROVE StartupIInv'
  BY <1>6, connect_localStep, wait_for_daemonStep, installStep,
     ensure_service_launch_allowedStep, wait_for_existing_daemonStep DEF CallerNext
<1>7. ASSUME NEW c \in Callers, RestartService(c) PROVE StartupIInv'
  BY <1>7, RestartServiceStep
<1>8. CASE ServiceRestarts
  BY <1>8, ServiceRestartsStep
<1>9. CASE Toggle
  <2>1. /\ encrypt' = ~encrypt /\ optedOut' = (optedOut \/ encrypt)
        /\ UNCHANGED <<keychain, rows, proc, dblock, socket, caller, service, saved, keyTrouble>>
    BY <1>9 DEF Toggle
  <2>2. ComesAndGoes
    BY <1>0, <2>1 DEF ComesAndGoes, StartupTyped
  <2>3. QED
    BY <1>0, <1>1, <2>1, <2>2, ComesAndGoesStep
<1>10. QED
  BY <1>2, <1>3, <1>4, <1>5, <1>6, <1>7, <1>8, <1>9 DEF StartupNext

LEMMA StartupIInvImplies == StartupIInv => StartupInv
<1> SUFFICES ASSUME StartupIInv PROVE StartupInv
  OBVIOUS
<1> USE DEF StartupIInv
<1>1. StartupTypeOK
  <2>1. DOMAIN rows = {"session", "device"}
        /\ rows.session \in SomeProc \cup {"plain"} /\ rows.device \in SomeProc \cup {"plain"}
    BY TypedFields
  <2>2. rows.session = "plain" \/ rows.device = "plain" => optedOut
    BY DEF ModeInv
  <2>3. keychain \in SomeProc /\ socket \in SomeProc
    BY DEF StartupTyped
  <2>4. QED
    BY <2>1, <2>2, <2>3 DEF StartupTypeOK, SomeProc
<1>2. OneServer
  BY DEF OneServer, LockInv, Holding
<1>3. RowsSurviveIfKeyKept
  <2> SUFFICES ASSUME saved, ~keyTrouble
               PROVE  /\ rows.session # Nobody
                      /\ \A p \in Procs : proc[p].pc = "serving" => Decodes(p, rows.session)
    BY DEF RowsSurviveIfKeyKept
  <2>1. rows.session # Nobody /\ rows.session \in {"plain", keychain}
    BY DEF KeyInv
  <2>2. \A p \in Procs : proc[p].pc = "serving" => proc[p].key = keychain
    BY DEF KeyInv, Keyed
  <2>3. QED
    BY <2>1, <2>2 DEF Decodes
<1>4. FailedInstallLeavesNothing
  BY DEF InstallInv
<1>5. QED
  BY <1>1, <1>2, <1>3, <1>4 DEF StartupInv

\* main.rs, persistence.rs, service.rs: of the daemons that are started at once
\* one serves, over rows it can read, and what fails to install is not left.
THEOREM OneDaemonServes == StartupSpec => []StartupInv
<1>1. StartupInit => StartupIInv
  BY StartupInitIInv
<1>2. StartupIInv /\ [StartupNext]_startupVars => StartupIInv'
  BY StartupStep
<1>3. StartupIInv => StartupInv
  BY StartupIInvImplies
<1>4. QED
  BY <1>1, <1>2, <1>3, PTL DEF StartupSpec
=============================================================================
