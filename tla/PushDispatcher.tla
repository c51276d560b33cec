--------------------------- MODULE PushDispatcher --------------------------
(***************************************************************************)
(* The daemon's side of push notifications (crates/daemon/src/push.rs): an *)
(* unbounded queue of commands and one worker that carries them out in     *)
(* order against the relay, each with retries inside a time budget.        *)
(*                                                                         *)
(* The relay is external here: it knows the daemon or not, it holds the    *)
(* bindings of tokens, and it delivers pushes.  A request may not reach    *)
(* it, may be turned down for a while or for good, or may be carried out   *)
(* without its answer arriving in time.  Time is counted in ticks.         *)
(***************************************************************************)
EXTENDS Naturals, Sequences, FiniteSets

CONSTANTS
  Devices,
  TokensOf,    \* per device: the push tokens its phone may hold, in turn
  MinDelay, MaxDelay, Budget, \* RelayRetry, in ticks
  MaxCommands, \* bound: commands sent
  MaxCrashes,  \* bound: stops of the daemon
  MayForget,   \* whether the relay may forget the daemon
  None

Tokens == UNION {TokensOf[d] : d \in Devices}

ASSUME PushAssumption ==
  /\ {MinDelay, MaxDelay, Budget, MaxCommands, MaxCrashes} \subseteq Nat
  /\ MinDelay \in 1 .. MaxDelay /\ Budget > 0
  /\ \A d, e \in Devices : d # e => TokensOf[d] \cap TokensOf[e] = {}
  /\ None \notin Tokens \cup BOOLEAN

VARIABLES
  devices,     \* the token of each device, from AppState::devices
  queue,       \* the commands in the channel
  announced,   \* the calls of set_iroh_endpoint since the daemon started
  worker,      \* PushWorker: what it is doing
  node,        \* its daemon_node_id is known
  registered,  \* its daemon_registered
  sent,        \* commands sent so far
  crashes,
  \* the relay
  known,       \* the relay knows the daemon's key
  bound,       \* the tokens bound to the daemon
  \* history
  since,       \* per event: the tokens of devices from its sending until now
  offered,     \* per event: the tokens some device held since its sending
  tried,       \* per event: the tokens a push was tried for
  got,         \* per event and token: the pushes delivered
  unanswered,  \* events for which an answer of the relay was lost
  last,        \* per token: whether its last change binds it, once that
               \* change has succeeded
  done         \* events whose dispatch is over

history == <<since, offered, tried, got, unanswered, last, done>>
pushVars == <<devices, queue, announced, worker, node, registered, sent, crashes, known, bound,
          history>>

-----------------------------------------------------------------------------
Events == 1 .. MaxCommands

Command(kind, item) == [kind |-> kind, item |-> item]

Idle == [pc |-> "idle"]

\* retry_relay_operation starts, for a command or one of its recipients.
Operation(cmd, pc, todo) ==
  [pc |-> pc, cmd |-> cmd, todo |-> todo, elapsed |-> 0, backoff |-> MinDelay]

\* A daemon that starts: nothing was sent yet.
PushInit ==
  /\ devices = [d \in Devices |-> None]
  /\ queue = <<>> /\ announced = 0 /\ worker = Idle
  /\ node = FALSE /\ registered = FALSE /\ sent = 0 /\ crashes = 0
  /\ known = FALSE /\ bound = {}
  /\ since = [e \in Events |-> {}] /\ offered = since /\ tried = [e \in Events |-> {}]
  /\ got = [e \in Events |-> [t \in Tokens |-> 0]] /\ unanswered = {}
  /\ last = [t \in Tokens |-> None] /\ done = {}

-----------------------------------------------------------------------------
(* The senders of commands.                                                *)

\* Fault: the newest command comes first.
SendInFront(c) == queue' = <<c>> \o queue

\* PushDispatcher::send.
Send(c) == queue' = Append(queue, c)

Sending(c) == sent < MaxCommands /\ sent' = sent + 1 /\ Send(c)

\* set_iroh_endpoint: when the transport is bound, and once more before it accepts
\* connections.  The control socket serves meanwhile, and sessions run.
SetNodeId ==
  /\ announced < 2 /\ announced' = announced + 1
  /\ Send(Command("node", None))
  /\ UNCHANGED <<devices, worker, node, registered, sent, crashes, known, bound, history>>

\* update_device_push, of a phone that has connected: the token replaces the one
\* there was.
RegisterToken(d, t) ==
  /\ announced = 2
  /\ t \in TokensOf[d] /\ devices' = [devices EXCEPT ![d] = t]
  /\ Sending(Command("register", t))
  /\ last' = [last EXCEPT ![t] = None]
  /\ since' = [e \in Events |-> since[e] \ {devices[d]}]
  /\ offered' = [e \in Events |-> IF e <= sent THEN offered[e] \cup {t} ELSE {}]
  /\ UNCHANGED <<announced, worker, node, registered, crashes, known, bound, tried, got,
                 unanswered, done>>

\* clear_device_push, and the removal of a device that has a token.
UnregisterToken(d) ==
  /\ devices[d] # None /\ devices' = [devices EXCEPT ![d] = None]
  /\ Sending(Command("unregister", devices[d]))
  /\ last' = [last EXCEPT ![devices[d]] = None]
  /\ since' = [e \in Events |-> since[e] \ {devices[d]}]
  /\ UNCHANGED <<announced, worker, node, registered, crashes, known, bound, offered,
                 tried, got, unanswered, done>>

Held == {devices[d] : d \in Devices} \ {None}

\* awaiting_input, session_crashed, build_finished.
SessionEvent ==
  /\ Sending(Command("event", sent + 1))
  /\ since' = [since EXCEPT ![sent + 1] = Held]
  /\ offered' = [offered EXCEPT ![sent + 1] = Held]
  /\ UNCHANGED <<devices, announced, worker, node, registered, crashes, known, bound,
                 tried, got, unanswered, last, done>>

\* publish_pairing_rendezvous, of a ticket that has the endpoint.
PublishRendezvous ==
  /\ announced > 0 /\ Sending(Command("publish", None))
  /\ UNCHANGED <<devices, announced, worker, node, registered, crashes, known, bound, history>>

-----------------------------------------------------------------------------
(* PushWorker::run.                                                        *)

rest == <<devices, announced, sent, crashes>>

\* Fault: a dispatch uses every token it has seen.
RecipientsRemembered == {t \in Tokens : t \in bound} \cup Held

\* The tokens of dispatch_session_event, read from the devices.
Recipients == Held

\* The command itself, once the daemon is registered.
Start(cmd) ==
  CASE cmd.kind = "node" -> Idle
    [] cmd.kind = "event" ->
         IF Recipients = {} THEN Idle ELSE Operation(cmd, "request", Recipients)
    [] OTHER -> Operation(cmd, "request", {})

\* A command that is done, having found no recipient, or failed.
Done(cmd) == IF cmd.kind = "event" THEN done \cup {cmd.item} ELSE done

\* Fault: the daemon counts as registered once its id is known.
ReadyWhenNamed(cmd) == node

\* Whether ensure_daemon_registered has nothing to do.
Ready(cmd) == registered /\ cmd.kind # "node"

\* recv: ensure_daemon_registered comes first; without the node id the
\* command is dropped.
Receive ==
  /\ worker = Idle /\ queue # <<>>
  /\ LET cmd == Head(queue)
         named == node \/ cmd.kind = "node"
         next == IF ~named THEN Idle
                 ELSE IF Ready(cmd) THEN Start(cmd) ELSE Operation(cmd, "pair", {})
     IN /\ queue' = Tail(queue) /\ node' = named /\ registered' = (registered /\ Ready(cmd))
        /\ worker' = next
        /\ done' = IF next = Idle THEN Done(cmd) ELSE done
  /\ UNCHANGED <<rest, known, bound, since, offered, tried, got, unanswered, last>>

\* Faults: the first failure ends the dispatch; the push is tried again.
AfterFailureStop(todo, t) == {}
AfterFailureAgain(todo, t) == todo

\* The tokens left after t failed.
AfterFailure(todo, t) == todo \ {t}

\* Tokens are taken in a fixed order.
First(S) == CHOOSE t \in S : TRUE

\* An operation ends, successfully or not.
Finish(ok) ==
  LET cmd == worker.cmd
      left == IF cmd.kind # "event" \/ worker.pc = "pair" THEN {}
              ELSE IF ok THEN worker.todo \ {First(worker.todo)}
              ELSE AfterFailure(worker.todo, First(worker.todo))
      next == IF worker.pc = "pair" /\ ok THEN Start(cmd)
              ELSE IF left # {} THEN Operation(cmd, "request", left) ELSE Idle
  IN /\ worker' = next
     /\ registered' = (registered \/ (worker.pc = "pair" /\ ok))
     /\ done' = IF next = Idle THEN Done(cmd) ELSE done
     /\ last' = IF ok /\ worker.pc = "request" /\ cmd.kind \in {"register", "unregister"}
                     /\ ~\E i \in 1 .. Len(queue) :
                           /\ queue[i].kind \in {"register", "unregister"}
                           /\ queue[i].item = cmd.item
                THEN [last EXCEPT ![cmd.item] = (cmd.kind = "register")]
                ELSE last

\* What a request changes at the relay.
CarriedOut ==
  LET cmd == worker.cmd
  IN CASE worker.pc = "pair" ->
            known' = TRUE /\ UNCHANGED <<bound, got>>
       [] worker.pc = "request" /\ cmd.kind = "register" ->
            bound' = bound \cup {cmd.item} /\ UNCHANGED <<known, got>>
       [] worker.pc = "request" /\ cmd.kind = "unregister" ->
            bound' = bound \ {cmd.item} /\ UNCHANGED <<known, got>>
       [] worker.pc = "request" /\ cmd.kind = "event" ->
            /\ got' = [got EXCEPT ![cmd.item][First(worker.todo)] = @ + 1]
            /\ UNCHANGED <<known, bound>>
       [] OTHER -> UNCHANGED <<known, bound, got>>

\* The relay turns down a daemon it does not know, and a push to a token that
\* is not bound.
Acceptable ==
  worker.pc = "request" =>
    known /\ (worker.cmd.kind = "event" => First(worker.todo) \in bound)

Busy == worker.pc \in {"pair", "request"}

Trying ==
  tried' = IF worker.pc = "request" /\ worker.cmd.kind = "event"
           THEN [tried EXCEPT ![worker.cmd.item] = @ \cup {First(worker.todo)}]
           ELSE tried

\* Fault: a success whose body cannot be read is retried.
EnsureReadable ==
  IF worker.backoff # MinDelay THEN Finish(TRUE)
  ELSE worker' = [worker EXCEPT !.backoff = MaxDelay] /\ UNCHANGED <<registered, last, done>>

\* A success is one whatever its body says.
ensure_success == Finish(TRUE)

\* The request is answered: done, or refused for good.
Answered ==
  /\ Busy /\ worker.elapsed <= Budget /\ Trying
  /\ \/ Acceptable /\ CarriedOut /\ ensure_success
     \/ Finish(FALSE) /\ UNCHANGED <<known, bound, got>>
  /\ UNCHANGED <<rest, queue, node, since, offered, unanswered>>

\* The delay that the backoff proposes does not fit.
OutOfBudget(delay, remaining) == delay >= remaining

Least(a, b) == IF a < b THEN a ELSE b

\* RelayRetry::backoff: the next delay is twice this one, up to the largest.
NextDelay(delay) == Least(2 * delay, MaxDelay)

\* is_retryable_relay_error: no answer after `took`, or a temporary refusal.
\* Then the worker sleeps, with jitter, if there is time.  The time that was
\* left is read before the request.
NoAnswer ==
  /\ Busy /\ worker.elapsed <= Budget /\ Trying
  /\ \/ UNCHANGED <<known, bound, got, unanswered>>
     \/ /\ Acceptable /\ CarriedOut
        /\ unanswered' = IF worker.cmd.kind = "event"
                         THEN unanswered \cup {worker.cmd.item} ELSE unanswered
  /\ \E took \in 0 .. Budget - worker.elapsed, jitter \in 0 .. MinDelay :
       LET remaining == Budget - worker.elapsed
           delay == worker.backoff + jitter
       IN IF took = remaining \/ OutOfBudget(delay, remaining)
          THEN Finish(FALSE)
          ELSE /\ worker' = [worker EXCEPT !.backoff = NextDelay(@),
                                           !.elapsed = @ + took + delay]
               /\ UNCHANGED <<registered, last, done>>
  /\ UNCHANGED <<rest, queue, node, since, offered>>

\* The time ran out during the sleep.
Expire ==
  /\ Busy /\ worker.elapsed > Budget /\ Finish(FALSE)
  /\ UNCHANGED <<rest, queue, node, known, bound, since, offered, tried, got,
                 unanswered>>

-----------------------------------------------------------------------------
(* The relay forgets, the daemon stops.                                    *)

\* An idle daemon is pruned from the relay, with its bindings.
RelayForgets ==
  /\ MayForget /\ known /\ known' = FALSE /\ bound' = {}
  /\ last' = [t \in Tokens |-> None]
  /\ UNCHANGED <<rest, queue, worker, node, registered, since, offered, tried,
                 got, unanswered, done>>

\* A binding lapses, or the push service has told the relay that its token is
\* no longer valid.
RelayDropsToken(t) ==
  /\ MayForget /\ t \in bound /\ bound' = bound \ {t}
  /\ last' = [last EXCEPT ![t] = None]
  /\ UNCHANGED <<rest, queue, worker, node, registered, known, since, offered,
                 tried, got, unanswered, done>>

\* The queue is lost; the devices are on disk.
Restart ==
  /\ crashes < MaxCrashes /\ crashes' = crashes + 1
  /\ queue' = <<>> /\ announced' = 0 /\ worker' = Idle
  /\ node' = FALSE /\ registered' = FALSE
  /\ last' = [t \in Tokens |-> IF worker # Idle /\ worker.cmd.item = t
                               THEN None ELSE last[t]]
  /\ UNCHANGED <<devices, sent, known, bound, since, offered, tried, got, unanswered,
                 done>>

Work == Receive \/ Answered \/ NoAnswer \/ Expire

PushNext ==
  \/ \E d \in Devices : (\E t \in TokensOf[d] : RegisterToken(d, t)) \/ UnregisterToken(d)
  \/ SetNodeId \/ SessionEvent \/ PublishRendezvous \/ Work \/ RelayForgets \/ Restart
  \/ \E t \in Tokens : RelayDropsToken(t)

\* The worker is a task of the runtime: it goes on as long as it can.
PushSpec == PushInit /\ [][PushNext]_pushVars /\ WF_pushVars(Work)

-----------------------------------------------------------------------------
(* Properties.                                                             *)

\* Types: while it works on a request the worker knows its node id, and for
\* anything but a registration it has registered.
TypeOK ==
  /\ queue \in Seq([kind : {"node", "register", "unregister", "event", "publish"},
                    item : Tokens \cup Events \cup {None}])
  /\ devices \in [Devices -> Tokens \cup {None}] /\ bound \subseteq Tokens
  /\ Busy => /\ node /\ worker.elapsed \in 0 .. Budget + MaxDelay + MinDelay
             /\ (worker.pc = "request" => registered)
             /\ (worker.cmd.kind = "event" /\ worker.pc = "request" => worker.todo # {})

\* push.rs: once the changes of a token have been carried out and the last one
\* was acknowledged, the relay has the token bound just if that one was a
\* registration, and it was one if a device holds the token, whatever was
\* retried, duplicated or failed before.
LastChangeWins ==
  \A t \in Tokens : last[t] # None => (t \in bound <=> last[t]) /\ (t \in Held => last[t])

\* dispatch_session_event: an event that was dispatched has been tried for
\* each token that a device held all along, though others fail.  (A process
\* that stops or has no node id yet, and a registration that fails, drop the event.)
EveryTokenIsTried ==
  [][\A e \in done' \ done : worker # Idle /\ worker.pc = "request" =>
       since[e] \subseteq tried'[e]]_pushVars

\* push.rs: an event is pushed only to tokens that some device has held since
\* it was sent: not to one given up before, though the relay was never told.
OnlyOffered == \A e \in Events : tried[e] \subseteq offered[e]

\* push.rs: a device is notified twice of one event only after an answer of
\* the relay was lost.
NotifiedOnce ==
  \A e \in Events \ unanswered : \A t \in Tokens : got[e][t] <= 1

\* retry_relay_operation: the budget keeps the worker from waiting for a
\* relay that never answers: whatever is sent is taken up in the end.
QueueDrains == <>[](queue = <<>> /\ worker = Idle)

\* The worker leaves the relay with the last change of each token, and an event
\* reaches the phones that were there for it, once.
PushInv ==
    /\ TypeOK
    /\ LastChangeWins
    /\ OnlyOffered
    /\ NotifiedOnce
=============================================================================
