--------------------------- MODULE MobileStreams ---------------------------
(***************************************************************************)
(* The phone's two long-lived streams (mobile-core/src/lib.rs).             *)
(*   subscribe_sessions: a ping task writes every PingInterval ticks, the   *)
(*   reader gives up after ReadTimeout ticks without a message.             *)
(*   AttachedSession: initial bytes, then the messages of the receive half, *)
(*   for whichever subscribe() call holds it; input, resize and detach on   *)
(*   the send half.                                                         *)
(* Time is counted in ticks; a timer that is due fires before time goes on. *)
(***************************************************************************)
EXTENDS Naturals, Sequences

CONSTANTS PingInterval, ReadTimeout,   \* SUBSCRIBE_PING_INTERVAL, SUBSCRIBE_READ_TIMEOUT
          MaxDelay,        \* a living daemon's answers arrive within so many ticks
          MaxLists,        \* bound on the session lists the daemon pushes
          Readers,         \* concurrent subscribe() calls on one AttachedSession
          FirstSeq, MaxSeq,\* the offset of the attach reply, bound on the offsets
          MaxWrites,       \* bound on the writes of the app
          NoReader

ASSUME StreamsAssumption ==
    /\ PingInterval \in Nat \ {0} /\ ReadTimeout \in Nat \ {0} /\ MaxDelay \in Nat
    /\ PingInterval + MaxDelay < ReadTimeout
    /\ Readers \cap {NoReader, "here", "lost"} = {} /\ FirstSeq \in Nat /\ MaxSeq \in Nat

VARIABLES
    sub,        \* subscribe_sessions: "running", "timeout", "error", "dropped"
    pinging,    \* the ping task runs
    toPing,     \* ticks to the ticker's next tick
    silent,     \* ticks since the reader last got a message
    answers,    \* ages of the messages on their way to the phone, oldest first
    alive,      \* the daemon process and the path to it
    lists       \* session lists pushed so far

subVars == <<sub, pinging, toPing, silent, answers, alive, lists>>

VARIABLES
    initial,       \* AttachedSession.initial_bytes is still Some
    giving,        \* the reader inside on_initial_bytes, which holds that lock
    recv,          \* who owns the receive half: "here", a reader, or "lost"
    reader,        \* where each subscribe() call stands
    last_seen_seq, shown,  \* the stored offset; the offset the sinks have drawn to
    early,         \* history: a sink got output before the initial bytes
    send,          \* the send half: "open", "finished", "closed"
    wire           \* what the app wrote, as the daemon reads it

attVars == <<initial, giving, recv, reader, last_seen_seq, shown, early, send, wire>>
streamsVars == <<subVars, attVars>>

SubInit ==
    /\ sub = "running" /\ pinging = TRUE /\ toPing = PingInterval
    /\ silent = 0 /\ answers = <<0>> /\ alive = TRUE /\ lists = 0

AttInit ==
    /\ initial = TRUE /\ giving = NoReader /\ recv = "here"
    /\ reader = [r \in Readers |-> "idle"]
    /\ last_seen_seq = FirstSeq /\ shown = 0 /\ early = FALSE
    /\ send = "open" /\ wire = <<>>

StreamsInit == SubInit /\ AttInit

-----------------------------------------------------------------------------
(***************************************************************************)
(* subscribe_sessions.                                                      *)
(***************************************************************************)
\* Fault: the ticker is restarted from the answer, not from its last tick.
NextPingDoubled == 2 * PingInterval

NextPing == PingInterval

Ping ==
    /\ pinging /\ toPing = 0
    /\ toPing' = NextPing
    /\ answers' = IF alive THEN Append(answers, 0) ELSE answers
    /\ UNCHANGED <<sub, pinging, silent, alive, lists, attVars>>

\* The daemon pushes a session list whenever its sessions change.
PushList ==
    /\ sub = "running" /\ alive /\ lists < MaxLists
    /\ lists' = lists + 1 /\ answers' = Append(answers, 0)
    /\ UNCHANGED <<sub, pinging, toPing, silent, alive, attVars>>

Receive ==
    /\ sub = "running" /\ answers # <<>>
    /\ answers' = Tail(answers) /\ silent' = 0
    /\ UNCHANGED <<sub, pinging, toPing, alive, lists, attVars>>

DaemonDies ==
    /\ alive /\ alive' = FALSE
    /\ UNCHANGED <<sub, pinging, toPing, silent, answers, lists, attVars>>

\* What was on its way is lost with the path.
AnswersLost ==
    /\ ~alive /\ answers # <<>> /\ answers' = <<>>
    /\ UNCHANGED <<sub, pinging, toPing, silent, alive, lists, attVars>>

\* Fault: the ping task outlives the subscription.
PingAfterEndLeft == pinging

\* AbortOnDrop aborts the task when subscribe_sessions returns or is dropped.
PingAfterEnd == FALSE

EndSubscription(how) ==
    /\ sub = "running" /\ sub' = how /\ pinging' = PingAfterEnd
    /\ UNCHANGED <<toPing, silent, answers, alive, lists, attVars>>

\* Fault: the deadline is never looked at while pings can be written.
TimedOutNever == ~pinging /\ silent >= ReadTimeout

TimedOut == silent >= ReadTimeout

ReadTimesOut == TimedOut /\ EndSubscription("timeout")
ReadFails == ~alive /\ EndSubscription("error")
AppDropsSubscription == EndSubscription("dropped")

Urgent == (pinging /\ toPing = 0) \/ (sub = "running" /\ TimedOut)

Tick ==
    /\ sub = "running" /\ ~Urgent
    /\ alive => \A i \in 1..Len(answers) : answers[i] < MaxDelay
    /\ toPing' = IF pinging THEN toPing - 1 ELSE toPing
    /\ silent' = IF silent < ReadTimeout THEN silent + 1 ELSE silent
    /\ answers' = [i \in 1..Len(answers) |->
                     IF answers[i] < MaxDelay THEN answers[i] + 1 ELSE answers[i]]
    /\ UNCHANGED <<sub, pinging, alive, lists, attVars>>

SubStep ==
    \/ Ping \/ PushList \/ Receive \/ DaemonDies \/ AnswersLost
    \/ ReadTimesOut \/ ReadFails \/ AppDropsSubscription \/ Tick

-----------------------------------------------------------------------------
(***************************************************************************)
(* AttachedSession.                                                         *)
(***************************************************************************)
\* Fault: the lock on the initial bytes is dropped before the callback.
MayPassUnlocked(r) == giving # r

\* The lock is held while on_initial_bytes runs: another subscribe() waits.
MayPass(r) == giving = NoReader

Subscribe(r) ==
    /\ reader[r] = "idle" /\ MayPass(r)
    /\ initial' = FALSE
    /\ \/ /\ initial
          /\ giving' = r /\ reader' = [reader EXCEPT ![r] = "giving"]
       \/ /\ ~initial
          /\ reader' = [reader EXCEPT ![r] = "take"] /\ UNCHANGED giving
    /\ UNCHANGED <<subVars, recv, last_seen_seq, shown, early, send, wire>>

on_initial_bytes(r) ==
    /\ reader[r] = "giving"
    /\ shown' = FirstSeq /\ giving' = NoReader
    /\ reader' = [reader EXCEPT ![r] = "take"]
    /\ UNCHANGED <<subVars, initial, recv, last_seen_seq, early, send, wire>>

take_recv(r) ==
    /\ reader[r] = "take"
    /\ \/ recv = "here" /\ recv' = r /\ reader' = [reader EXCEPT ![r] = "reading"]
       \/ recv # "here" /\ reader' = [reader EXCEPT ![r] = "idle"] /\ UNCHANGED recv
    /\ UNCHANGED <<subVars, initial, giving, last_seen_seq, shown, early, send, wire>>

\* Fault: the stored offset counts output that the sink never drew.
DrawnSkipping(seq) == shown

Drawn(seq) == seq

\* An Output message is dispatched: its offset is stored, for last_seen_seq()
\* on any other thread to load, and only then is the sink given the bytes.
StoreLastSeen(r) ==
    /\ reader[r] = "reading" /\ last_seen_seq < MaxSeq
    /\ last_seen_seq' = last_seen_seq + 1
    /\ reader' = [reader EXCEPT ![r] = "drawing"]
    /\ UNCHANGED <<subVars, initial, giving, recv, shown, early, send, wire>>

on_output(r) ==
    /\ reader[r] = "drawing"
    /\ shown' = Drawn(last_seen_seq)
    /\ early' = (early \/ shown < FirstSeq)
    /\ reader' = [reader EXCEPT ![r] = "reading"]
    /\ UNCHANGED <<subVars, initial, giving, recv, last_seen_seq, send, wire>>

\* Lag, SessionExited or an Error message: the receive half is put back.
Stop(r) ==
    /\ reader[r] = "reading"
    /\ recv' = "here" /\ reader' = [reader EXCEPT ![r] = "idle"]
    /\ UNCHANGED <<subVars, initial, giving, last_seen_seq, shown, early, send, wire>>

\* The read fails or the app drops the future: the half is lost with it.
Lose(r) ==
    /\ reader[r] = "reading"
    /\ recv' = "lost" /\ reader' = [reader EXCEPT ![r] = "idle"]
    /\ UNCHANGED <<subVars, initial, giving, last_seen_seq, shown, early, send, wire>>

\* send_input and resize (write_to_send_stream); a finished stream refuses the
\* write, and a refused write closes the half for good.
Write ==
    /\ Len(wire) < MaxWrites
    /\ \/ send = "open" /\ wire' = Append(wire, "input") /\ UNCHANGED send
       \/ send # "closed" /\ send' = "closed" /\ UNCHANGED wire
    /\ UNCHANGED <<subVars, initial, giving, recv, reader, last_seen_seq, shown, early>>

\* Fault: detach() does not finish the stream.
AfterDetachOpen == "open"

AfterDetach == "finished"

detach ==
    /\ Len(wire) < MaxWrites
    /\ \/ send = "open" /\ wire' = Append(wire, "detach") /\ send' = AfterDetach
       \/ send # "closed" /\ send' = "closed" /\ UNCHANGED wire
    /\ UNCHANGED <<subVars, initial, giving, recv, reader, last_seen_seq, shown, early>>

AttStep ==
    \/ \E r \in Readers : \/ Subscribe(r) \/ on_initial_bytes(r) \/ take_recv(r)
                          \/ StoreLastSeen(r) \/ on_output(r) \/ Stop(r) \/ Lose(r)
    \/ Write \/ detach

\* Fairness: the timers fire and time goes on; nothing is asked of the app,
\* the daemon or the network.
SubFairness == WF_subVars(Tick \/ Ping \/ ReadTimesOut)

StreamsNext == SubStep \/ AttStep

StreamsSpec == StreamsInit /\ [][StreamsNext]_streamsVars /\ SubFairness

-----------------------------------------------------------------------------
\* The types, and: a subscription that ended, or that the app dropped, leaves
\* no ping task writing to the daemon behind (AbortOnDrop).
StreamsTypeOK ==
    /\ sub \in {"running", "timeout", "error", "dropped"}
    /\ pinging => sub = "running"
    /\ toPing \in 0..(2 * PingInterval) /\ silent \in 0..ReadTimeout
    /\ recv \in {"here", "lost"} \cup Readers
    /\ send \in {"open", "finished", "closed"}

\* "daemon stopped responding to heartbeat" is never said of a daemon that
\* lives and whose answers take at most MaxDelay ticks.
NoFalseAlarm == sub = "timeout" => ~alive

\* A subscription to a daemon that died ends, whatever was still in flight,
\* without waiting for the transport to notice.
DeadDaemonIsNoticed == <>[](alive \/ sub # "running")

\* With several subscribe() calls on one attachment, no sink is given output
\* before some sink was given the initial bytes that come before it.
InitialBytesFirst == ~early

\* The stored offset, which last_seen_seq() hands to any thread, against what
\* the sinks have drawn, once the initial bytes were given: it is never behind,
\* and it is ahead by the one output that is stored and not yet drawn
\* (lib.rs:1017, 1018).  Outside that window a re-attach from it neither repeats
\* nor skips output, whichever calls subscribed and stopped before; an app that
\* reads it inside the window and attaches again skips that output.
Drawing == \E r \in Readers : reader[r] = "drawing"

ResumePointIsShown ==
    giving = NoReader /\ ~initial =>
        last_seen_seq = IF Drawing THEN shown + 1 ELSE shown

\* The daemon reads nothing from this client after its DetachSession.
NothingAfterDetach ==
    \A i \in 1..Len(wire) : wire[i] = "detach" => i = Len(wire)

\* What the app may rely on in its two streams, with several calls at work on
\* each: no false alarm of the heartbeat, output in order and resumed where the
\* screen ends, nothing sent after a detach.
StreamsInv ==
    /\ StreamsTypeOK
    /\ NoFalseAlarm
    /\ InitialBytesFirst
    /\ ResumePointIsShown
    /\ NothingAfterDetach
=============================================================================
