--------------------------- MODULE SessionControl --------------------------
(***************************************************************************)
(* What clients and agents do to a live session, apart from its output     *)
(* (crates/daemon/src/session.rs): the size of the PTY, which is the       *)
(* minimum of the attached viewports; the state shown for its agent; the   *)
(* queue of input; and its end.                                            *)
(*                                                                         *)
(* The threads are the PTY I/O thread, the idle thread, the resize thread  *)
(* and the connections.  Each critical section of one of the session's     *)
(* mutexes is a step, and so is each system call.                          *)
(*                                                                         *)
(* Time is kept as two ages: since the last output, and since the session  *)
(* began to work, in ticks, up to the value the code compares them with.   *)
(***************************************************************************)
EXTENDS Naturals, Sequences, FiniteSets

CONSTANTS
  Clients,
  Sizes,       \* viewports: records of cols and rows
  SpawnSize,   \* the size a session is created with
  Scenarios,   \* environments, see Scenario
  IdleAfter,   \* IDLE_AFTER_MS
  BuildMin,    \* BUILD_FINISHED_MIN_WORKING_MS
  QueueCapacity, \* PTY_WRITE_QUEUE_CAPACITY
  MaxReads,    \* reads of drain_pty_output in one turn
  None

VARIABLES
  scenario, acts,
  \* viewports
  sizes,       \* attached_sizes
  pty,         \* the size of the PTY and of the emulator
  pinged,      \* resize_tx holds messages
  applier,     \* per client, and for the resize thread: its resize under way
  \* agent state
  state, silence, worked,
  idle,        \* the idle thread
  setter,      \* per client: its set_state under way
  pushes,      \* notifications sent
  \* input and I/O
  queue, pending, readable, room, io,
  \* the end
  child,       \* "alive", or what ended it
  killed, shutdown, killer, exit, saved,
  \* history
  accepted, written, crossed, raced

viewports == <<sizes, pty, pinged, applier, crossed>>
agent == <<state, silence, worked, idle, setter, pushes>>
input == <<queue, pending, readable, room, io, accepted, written>>
ending == <<child, killed, shutdown, killer, exit, saved, raced>>
vars == <<scenario, acts, viewports, agent, input, ending>>

-----------------------------------------------------------------------------
AgentState == {"Idle", "Working", "AwaitingInput", "Crashed"}

\* An environment: what happens to the session, a bound on how often, and
\* whether the child never stops printing.
Scenario == [does : SUBSET {"resize", "fail", "input", "print", "event", "time",
                            "exit", "kill"},
             acts : Nat, chatty : BOOLEAN]

ASSUME ControlAssumption ==
  /\ IdleAfter \in Nat \ {0} /\ BuildMin \in Nat \ {0}
  /\ QueueCapacity \in Nat \ {0} /\ MaxReads \in Nat \ {0}
  /\ SpawnSize \in Sizes
  /\ Sizes \subseteq [cols : Nat, rows : Nat]
  /\ Scenarios \subseteq Scenario
  /\ "resizer" \notin Clients
  /\ None \notin Nat /\ None \notin [cols : Nat, rows : Nat]
  /\ None \notin AgentState

Resizer == "resizer"
NoApply == [pc |-> "none"]

Init ==
  /\ scenario \in Scenarios /\ acts = 0
  /\ sizes = [c \in Clients |-> None] /\ pty = SpawnSize /\ pinged = FALSE
  /\ applier = [a \in Clients \cup {Resizer} |-> NoApply]
  /\ state = "Idle" /\ silence = 0 /\ worked = None
  /\ idle = [pc |-> "sleep"] /\ setter = [c \in Clients |-> None] /\ pushes = {}
  /\ queue = <<>> /\ pending = <<>> /\ readable = FALSE /\ room = TRUE
  /\ io = [pc |-> "top"]
  /\ child = "alive" /\ killed = FALSE /\ shutdown = FALSE /\ killer = "none"
  /\ exit = None /\ saved = None
  /\ accepted = <<>> /\ written = <<>> /\ crossed = FALSE /\ raced = FALSE

May(what) == what \in scenario.does

\* One of the bounded number of things that happen.
Acting == acts < scenario.acts /\ acts' = acts + 1 /\ UNCHANGED scenario

-----------------------------------------------------------------------------
(* The viewport.                                                           *)

Smaller(a, b) == IF a < b THEN a ELSE b

\* min_client_size: the least columns and the least rows, not one client's.
Least(S) == CHOOSE n \in S : \A m \in S : n <= m
min_client_size(S) ==
  IF S = {} THEN None
  ELSE [cols |-> Least({s.cols : s \in S}), rows |-> Least({s.rows : s \in S})]

Attached == {sizes[c] : c \in Clients} \ {None}

\* attach_client: the size is entered, then applied.
AttachClient(c, size) ==
  /\ May("resize") /\ Acting
  /\ sizes[c] = None /\ applier[c] = NoApply
  /\ sizes' = [sizes EXCEPT ![c] = size]
  /\ applier' = [applier EXCEPT ![c] = [pc |-> "read"]]
  /\ UNCHANGED <<pty, pinged, crossed, agent, input, ending>>

\* update_client_size: entered if the client is attached, and left to the
\* resize thread.
UpdateClientSize(c, size) ==
  /\ May("resize") /\ Acting
  /\ applier[c] = NoApply
  /\ sizes' = [sizes EXCEPT ![c] = IF @ = None THEN None ELSE size]
  /\ pinged' = TRUE
  /\ UNCHANGED <<pty, applier, crossed, agent, input, ending>>

\* detach_client, when the guard of the connection is dropped.
DetachClient(c) ==
  /\ May("resize") /\ sizes[c] # None /\ applier[c] = NoApply
  /\ sizes' = [sizes EXCEPT ![c] = None] /\ pinged' = TRUE
  /\ UNCHANGED <<scenario, acts, pty, applier, crossed, agent, input, ending>>

\* The resize thread wakes up; the messages that arrive while it waits for
\* the storm to end are one.  It stops when the session has exited.
WakeResizer ==
  /\ pinged /\ applier[Resizer] = NoApply
  /\ pinged' = FALSE
  /\ applier' = [applier EXCEPT ![Resizer] =
                   IF exit = None THEN [pc |-> "read"] ELSE [pc |-> "ended"]]
  /\ UNCHANGED <<scenario, acts, sizes, pty, crossed, agent, input, ending>>

\* Fault: the size of one client decides.
MinimumOfOne(S) == IF S = {} THEN None ELSE CHOOSE s \in S : TRUE

Minimum(S) == min_client_size(S)

\* apply_min_attached_resize: the minimum is read under the lock...
ReadMinimum(a) ==
  /\ applier[a].pc = "read"
  /\ LET size == Minimum(Attached)
     IN applier' = [applier EXCEPT ![a] =
          IF size = None THEN NoApply ELSE [pc |-> "apply", size |-> size]]
  /\ crossed' = (crossed \/ \E b \in DOMAIN applier \ {a} : applier[b].pc = "apply")
  /\ UNCHANGED <<scenario, acts, sizes, pty, pinged, agent, input, ending>>

\* ... and applied after it is released.  The system call may fail, and then
\* so does the attach, whose size stays in the map.
Resize(a) ==
  /\ applier[a].pc = "apply"
  /\ applier' = [applier EXCEPT ![a] = NoApply]
  /\ \/ pty' = applier[a].size /\ UNCHANGED crossed
     \/ May("fail") /\ UNCHANGED pty /\ crossed' = TRUE
  /\ UNCHANGED <<scenario, acts, sizes, pinged, agent, input, ending>>

-----------------------------------------------------------------------------
(* The agent's state.                                                      *)

\* set_state, under the lock of the state.
SetState(new) ==
  IF new = state THEN UNCHANGED <<state, worked, pushes>>
  ELSE /\ state' = new
       /\ worked' = IF new = "Working" THEN 0 ELSE None
       /\ pushes' = pushes \cup
            (IF new = "AwaitingInput" THEN {"awaiting"}
             ELSE IF state = "Working" /\ new = "Idle" /\ worked = BuildMin
             THEN {"build"} ELSE {})

\* Fault: input is taken for work even after the end.
StillRunningAssumed == TRUE

\* exit_code().is_none(): checked before the state is set, under another lock.
StillRunning == exit = None

Tick ==
  /\ May("time")
  /\ \/ silence < IdleAfter
     \/ worked # None /\ worked < BuildMin
  /\ silence' = Smaller(silence + 1, IdleAfter)
  /\ worked' = IF worked = None THEN None ELSE Smaller(worked + 1, BuildMin)
  /\ UNCHANGED <<scenario, acts, viewports, state, idle, setter, pushes, input, ending>>

\* A hook reports a state: refused for an exited session, and if its source
\* does not match the command.
AgentStateEvent(c, new) ==
  /\ May("event") /\ Acting /\ setter[c] = None /\ StillRunning
  /\ setter' = [setter EXCEPT ![c] = new]
  /\ UNCHANGED <<viewports, state, silence, worked, idle, pushes, input, ending>>

\* The second half of apply_agent_state_event and of write_input.
FinishSetState(c) ==
  /\ setter[c] # None /\ SetState(setter[c])
  /\ setter' = [setter EXCEPT ![c] = None]
  /\ UNCHANGED <<scenario, acts, viewports, silence, idle, input, ending>>

\* start_idle_loop: each value is read under its own lock.
IdleReads ==
  /\ idle.pc = "sleep"
  /\ idle' = IF exit # None THEN [pc |-> "ended"]
             ELSE [pc |-> "judge", for |-> silence]
  /\ UNCHANGED <<scenario, acts, viewports, state, silence, worked, setter, pushes,
                 input, ending>>

\* Fault: a crash that a hook reported is never over.
KeepsStateCrashed(current) == current \in {"Idle", "AwaitingInput", "Crashed"}

KeepsState(current) == current \in {"Idle", "AwaitingInput"}

IdleJudges ==
  /\ idle.pc = "judge"
  /\ idle' = [pc |-> IF idle.for >= IdleAfter /\ ~KeepsState(state)
                     THEN "set" ELSE "sleep"]
  /\ UNCHANGED <<scenario, acts, viewports, state, silence, worked, setter, pushes,
                 input, ending>>

IdleSets ==
  /\ idle.pc = "set" /\ SetState("Idle") /\ idle' = [pc |-> "sleep"]
  /\ UNCHANGED <<scenario, acts, viewports, silence, setter, input, ending>>

-----------------------------------------------------------------------------
(* Input.                                                                  *)

\* Fault: the limit is noticed one chunk late.
QueueHasRoomLate == Len(queue) <= QueueCapacity

QueueHasRoom == Len(queue) < QueueCapacity

\* Bytes that were never sent before.
NextBytes == <<2 * acts + 1, 2 * acts + 2>>

\* write_input: a full queue, and one whose receiver is gone, refuse it.
\* Input makes a running session Working.
WriteInput(c, bytes) ==
  /\ May("input") /\ Acting /\ setter[c] = None
  /\ IF io.pc # "gone" /\ QueueHasRoom
     THEN /\ queue' = Append(queue, bytes) /\ accepted' = accepted \o bytes
          /\ setter' = [setter EXCEPT ![c] = IF StillRunning THEN "Working" ELSE None]
     ELSE UNCHANGED <<queue, accepted, setter>>
  /\ UNCHANGED <<viewports, state, silence, worked, idle, pushes, pending, readable,
                 room, io, written, ending>>

\* The child prints, or reads what was written.
ChildPrints ==
  /\ May("print") /\ child = "alive" /\ ~readable /\ readable' = TRUE
  /\ IF scenario.chatty THEN UNCHANGED <<scenario, acts>> ELSE Acting
  /\ UNCHANGED <<viewports, agent, queue, pending, room, io, accepted, written, ending>>

ChildReads ==
  /\ child = "alive" /\ ~room /\ room' = TRUE
  /\ UNCHANGED <<scenario, acts, viewports, agent, queue, pending, readable, io,
                 accepted, written, ending>>

ChildExits ==
  /\ May("exit") /\ child = "alive"
  /\ child' \in {"success", "failure"}
  /\ UNCHANGED <<scenario, acts, viewports, agent, input, killed, shutdown, killer,
                 exit, saved, raced>>

-----------------------------------------------------------------------------
(* run_pty_io.                                                             *)

Silent == UNCHANGED <<scenario, acts, viewports>>

\* The top of the loop: told to stop, or one chunk of input is taken, and the
\* child looked at.
IoTop ==
  /\ io.pc = "top"
  /\ IF shutdown THEN io' = [pc |-> "exit"] /\ UNCHANGED <<queue, pending>>
     ELSE /\ IF pending = <<>> /\ queue # <<>>
             THEN pending' = Head(queue) /\ queue' = Tail(queue)
             ELSE UNCHANGED <<queue, pending>>
          /\ io' = IF child # "alive" THEN [pc |-> "read", n |-> 0, w |-> FALSE, last |-> TRUE]
                   ELSE [pc |-> "poll"]
  /\ Silent /\ UNCHANGED <<agent, readable, room, accepted, written, ending>>

Poll ==
  /\ io.pc = "poll"
  /\ LET w == pending # <<>> /\ room
     IN io' = IF readable \/ child # "alive"
              THEN [pc |-> "read", n |-> 0, w |-> w, last |-> FALSE]
              ELSE [pc |-> IF w THEN "write" ELSE "top"]
  /\ Silent /\ UNCHANGED <<agent, queue, pending, readable, room, accepted, written, ending>>

\* Fault: everything there is to read is read.
TurnOverNever(n) == FALSE

TurnOver(n) == n = MaxReads

\* drain_pty_output, one read.  A PTY without writers is closed.
AfterReads == IF io.last THEN [pc |-> "exit"] ELSE [pc |-> IF io.w THEN "write" ELSE "top"]

Read ==
  /\ io.pc = "read"
  /\ IF TurnOver(io.n) THEN io' = AfterReads /\ UNCHANGED <<readable, silence>>
     ELSE IF readable
     THEN /\ readable' = FALSE /\ silence' = 0
          /\ io' = [io EXCEPT !.pc = "infer", !.n = Smaller(io.n + 1, MaxReads)]
     ELSE /\ UNCHANGED <<readable, silence>>
          /\ io' = IF child # "alive" THEN [pc |-> "exit"] ELSE AfterReads
  /\ Silent /\ UNCHANGED <<state, worked, idle, setter, pushes, queue, pending, room,
                           accepted, written, ending>>

\* record_output: what the last line says, or Working.  Codex may report any
\* state, and Idle is left to the idle thread.
Infer ==
  /\ io.pc = "infer" /\ io' = [io EXCEPT !.pc = "read"]
  /\ \E inferred \in AgentState : IF inferred = "Idle" THEN UNCHANGED <<state, worked, pushes>>
                                  ELSE SetState(inferred)
  /\ Silent /\ UNCHANGED <<silence, idle, setter, queue, pending, readable, room,
                           accepted, written, ending>>

\* Fault: what was written before is written again.
RemainingAll(bytes, n) == IF n = Len(bytes) THEN <<>> ELSE bytes

\* The offset into the pending chunk.
Remaining(bytes, n) == SubSeq(bytes, n + 1, Len(bytes))

\* The PTY takes some of the bytes, or the write fails.
Write ==
  /\ io.pc = "write"
  /\ \/ \E n \in 1 .. Len(pending) :
          /\ written' = written \o SubSeq(pending, 1, n)
          /\ pending' = Remaining(pending, n)
          /\ room' \in BOOLEAN /\ io' = [pc |-> "top"]
     \/ child # "alive" /\ io' = [pc |-> "exit"] /\ UNCHANGED <<written, pending, room>>
  /\ Silent /\ UNCHANGED <<agent, queue, readable, accepted, ending>>

-----------------------------------------------------------------------------
(* The end.                                                                *)

\* Fault: the child is killed first.
KillStepsChildFirst == <<"child", "flag", "shutdown">>

KillSteps == <<"flag", "child", "shutdown">>

\* Session::kill, step by step.
Kill ==
  /\ May("kill") /\ killer # "done"
  /\ LET i == IF killer = "none" THEN 1
              ELSE 1 + CHOOSE j \in 1 .. 3 : KillSteps[j] = killer
         step == IF i > 3 THEN "done" ELSE KillSteps[i]
     IN /\ killer' = step
        /\ killed' = (killed \/ step = "flag")
        /\ child' = IF step = "child" /\ child = "alive" THEN "kill" ELSE child
        /\ shutdown' = (shutdown \/ step = "shutdown")
  /\ UNCHANGED <<scenario, acts, viewports, agent, input, exit, saved, raced>>

\* reap_exit_code, or the code the child was seen to exit with.
ExitCode == CASE child = "success" -> 0 [] child = "alive" -> 0 [] OTHER -> 1

FinalState(code) == IF code = 0 THEN "Idle" ELSE "Crashed"

\* mark_exited: the code, then the state, then the push, then the snapshot.
MarkExited ==
  /\ io.pc = "exit" /\ exit' = ExitCode /\ io' = [pc |-> "final"]
  /\ raced' = (\/ \E c \in Clients : setter[c] # None
               \/ idle.pc \in {"judge", "set"})
  /\ Silent /\ UNCHANGED <<agent, queue, pending, readable, room, accepted, written,
                           child, killed, shutdown, killer, saved>>

SetFinalState ==
  /\ io.pc = "final" /\ state' = FinalState(exit) /\ io' = [pc |-> "announce"]
  /\ Silent /\ UNCHANGED <<silence, worked, idle, setter, pushes, queue, pending,
                           readable, room, accepted, written, ending>>

Announce ==
  /\ io.pc = "announce" /\ io' = [pc |-> "gone"]
  /\ pushes' = IF exit # 0 /\ ~killed THEN pushes \cup {"crashed"} ELSE pushes
  /\ saved' = IF killed THEN None ELSE state
  /\ Silent /\ UNCHANGED <<state, silence, worked, idle, setter, queue, pending,
                           readable, room, accepted, written, child, killed,
                           shutdown, killer, exit, raced>>

-----------------------------------------------------------------------------
Io == \/ IoTop \/ Poll \/ Read \/ Infer \/ Write
      \/ MarkExited \/ SetFinalState \/ Announce
IdleThread == IdleReads \/ IdleJudges \/ IdleSets

Next ==
  \/ \E c \in Clients :
       \/ \E size \in Sizes : AttachClient(c, size) \/ UpdateClientSize(c, size)
       \/ DetachClient(c)
       \/ \E new \in AgentState : AgentStateEvent(c, new)
       \/ WriteInput(c, NextBytes)
       \/ FinishSetState(c)
  \/ WakeResizer
  \/ \E a \in Clients \cup {Resizer} : ReadMinimum(a) \/ Resize(a)
  \/ Io \/ IdleThread \/ Tick
  \/ ChildPrints \/ ChildReads \/ ChildExits \/ Kill

\* The threads are scheduled, time passes, and the child reads its input.
Spec ==
  /\ Init /\ [][Next]_vars
  /\ WF_vars(Io) /\ WF_vars(IdleThread) /\ WF_vars(Tick) /\ WF_vars(ChildReads)
  /\ \A c \in Clients : WF_vars(FinishSetState(c))

-----------------------------------------------------------------------------
(* Properties.                                                             *)

\* Types; and what is written is never more than was accepted, within the
\* bounds of the queue.
TypeOK ==
  /\ sizes \in [Clients -> Sizes \cup {None}]
  /\ state \in AgentState /\ Len(queue) <= QueueCapacity
  /\ silence \in 0 .. IdleAfter /\ worked \in {None} \cup 0 .. BuildMin
  /\ exit \in {None, 0, 1} /\ (exit = None <=> io.pc \notin {"final", "announce", "gone"})
  /\ pushes \subseteq {"awaiting", "build", "crashed"}

\* run_pty_io: the bytes that were accepted reach the child in order, each
\* once, however the PTY splits them: what was accepted can be cut into what was
\* written and is pending, and the chunks of the queue.
InputInOrder ==
  \E cut \in [0 .. Len(queue) -> 0 .. Len(accepted)] :
    /\ written \o pending = SubSeq(accepted, 1, cut[0])
    /\ \A k \in 1 .. Len(queue) :
         /\ cut[k - 1] <= cut[k]
         /\ queue[k] = SubSeq(accepted, cut[k - 1] + 1, cut[k])
    /\ cut[Len(queue)] = Len(accepted)

\* The comment of drain_pty_output: a child that never stops printing does not
\* starve the queued input; nor do partial writes.
InputReachesChild == <>[](written = accepted \/ exit # None)

\* When nothing is under way the PTY has the minimum of the attached sizes, if
\* no two resizes ever crossed and none failed.
Settled == ~pinged /\ \A a \in DOMAIN applier : applier[a].pc \in {"none", "ended"}
ViewportIfUncrossed ==
  Settled /\ ~crossed /\ exit = None /\ Attached # {} => pty = min_client_size(Attached)

\* mark_exited: an exited session shows, and has stored, the state its exit
\* code says, unless a thread had checked that it was running and not yet set
\* its state.
FinalStateIfUnraced ==
  io.pc = "gone" /\ ~raced => /\ state = FinalState(exit)
                              /\ saved \in {None, FinalState(exit)}

\* mark_exited: an explicit kill must not masquerade as a crash.
KillIsNoCrash == "crashed" \in pushes => child # "kill"

\* start_idle_loop: a session that falls silent is shown as idle, unless it
\* waits for input.
SilenceBecomesIdle ==
  ~scenario.chatty => <>[](state \in {"Idle", "AwaitingInput"} \/ exit # None)

\* session.rs: what reaches the child is what was accepted, and the end of the
\* session is shown, stored and pushed as what it was.
SessionControlInv ==
  /\ TypeOK
  /\ InputInOrder
  /\ FinalStateIfUnraced
  /\ KillIsNoCrash
=============================================================================
