---------------------------- MODULE CliTerminal ----------------------------
(***************************************************************************)
(* The two commands that take over the user's terminal (cli/src/main.rs,    *)
(* terminal.rs, attach_ui.rs, attach_loop.rs).                              *)
(*   `shelly pair` shows the code on the alternate screen, waits for an     *)
(*   approval request, and reads the answer key in raw mode.                *)
(*   `shelly attach` runs in raw mode on the alternate screen, and splits   *)
(*   the detach prefix out of what the user types, chunk by chunk.          *)
(* Two process-wide flags say what has to be undone; guards, the panic hook *)
(* and the signal path all undo it through them.                            *)
(***************************************************************************)
EXTENDS Naturals, Sequences, SequencesExt

CONSTANTS MaxTyped      \* bound on what the user types while attached

ASSUME TerminalAssumption == MaxTyped \in Nat

VARIABLES
    cmd,          \* "pair" or "attach"
    pc,           \* where the command stands
    raw, alt,     \* the terminal itself
    RAW_MODE_ACTIVE, ALT_SCREEN_ACTIVE,   \* the flags
    hook,         \* the panic hook of another thread: what it is about to undo
    signal,       \* signals waiting to be received: "term" (SIGTERM, SIGHUP), "int" (SIGINT)
    polled,       \* ctrl_c() was polled, which is what registers SIGINT
    ended,        \* how the process ended, "no" while it runs; "killed" by SIGINT's default action
    key,          \* the key that answers the prompt, "none" until there is one
    ahead,        \* history: that key was typed before the prompt was shown
    request       \* the daemon: "none", "asked", "approved", "denied"

termVars == <<cmd, pc, raw, alt, RAW_MODE_ACTIVE, ALT_SCREEN_ACTIVE, hook, signal, polled,
              ended, key, ahead, request>>

VARIABLES
    typed,        \* all that the user typed: "p" the prefix, "d", "x" anything else
    read,         \* how much of it the stdin thread has delivered
    prefix_held,  \* DetachState
    forwarded,    \* what went to the session
    detached      \* the detach sequence was recognised

inputVars == <<typed, read, prefix_held, forwarded, detached>>
terminalVars == <<termVars, inputVars>>

TermInit ==
    /\ cmd \in {"pair", "attach"} /\ pc = "start"
    /\ raw = FALSE /\ alt = FALSE
    /\ RAW_MODE_ACTIVE = FALSE /\ ALT_SCREEN_ACTIVE = FALSE
    /\ hook = "idle" /\ signal = {} /\ polled = FALSE /\ ended = "no"
    /\ key = "none" /\ ahead = FALSE /\ request = "none"

InputInit ==
    /\ typed \in SeqOf({"p", "d", "x"}, MaxTyped)
    /\ read = 0 /\ prefix_held = FALSE /\ forwarded = <<>> /\ detached = FALSE

TerminalInit == TermInit /\ InputInit

At(c, where) == cmd = c /\ pc = where /\ ended = "no"

-----------------------------------------------------------------------------
(***************************************************************************)
(* Guards.  Entering changes the terminal and then sets the flag; undoing   *)
(* swaps the flag and then changes the terminal, if the flag was set.       *)
(***************************************************************************)
EnterRaw(to) ==
    /\ raw' = TRUE /\ pc' = to
    /\ UNCHANGED <<alt, RAW_MODE_ACTIVE, ALT_SCREEN_ACTIVE>>

EnterAlt(to) ==
    /\ alt' = TRUE /\ pc' = to
    /\ UNCHANGED <<raw, RAW_MODE_ACTIVE, ALT_SCREEN_ACTIVE>>

\* Fault: only the raw mode is undone.
RestoreRawOnly ==
    /\ raw' = (raw /\ ~RAW_MODE_ACTIVE) /\ RAW_MODE_ACTIVE' = FALSE
    /\ UNCHANGED <<alt, ALT_SCREEN_ACTIVE>>

\* restore_for_exit, and the drop of both guards on every return.
RestoreAll ==
    /\ raw' = (raw /\ ~RAW_MODE_ACTIVE) /\ RAW_MODE_ACTIVE' = FALSE
    /\ alt' = (alt /\ ~ALT_SCREEN_ACTIVE) /\ ALT_SCREEN_ACTIVE' = FALSE

EndCommand(how) ==
    /\ ended' = how /\ RestoreAll
    /\ UNCHANGED <<cmd, pc, hook, signal, polled, key, ahead>>

-----------------------------------------------------------------------------
(***************************************************************************)
(* shelly pair.                                                             *)
(***************************************************************************)
\* The ticket is shown: on the alternate screen if the terminal has one, once
\* SIGTERM and SIGHUP (not SIGINT) are registered.  An expired one ends the command.
ShowTicket ==
    /\ At("pair", "start")
    /\ \/ EnterAlt("screen") /\ UNCHANGED <<ended, hook, signal, polled, key, ahead, cmd>>
       \/ pc' = "waiting" /\ UNCHANGED <<raw, alt, RAW_MODE_ACTIVE, ALT_SCREEN_ACTIVE,
                                         ended, hook, signal, polled, key, ahead, cmd>>
       \/ EndCommand("error")
    /\ UNCHANGED <<request, inputVars>>

ScreenMarked ==
    /\ At("pair", "screen")
    /\ ALT_SCREEN_ACTIVE' = TRUE /\ pc' = "waiting"
    /\ UNCHANGED <<cmd, raw, alt, RAW_MODE_ACTIVE, hook, signal, polled, ended, key, ahead,
                   request, inputVars>>

\* The countdown runs out, or the daemon's Error.
PairingEnds ==
    /\ At("pair", "waiting") /\ \E how \in {"exit", "error"} : EndCommand(how)
    /\ UNCHANGED <<request, inputVars>>

\* PairingApprovalRequested: the alternate screen is left before the prompt.
ApprovalRequested ==
    /\ At("pair", "waiting")
    /\ request' = "asked" /\ pc' = "prompt"
    /\ alt' = (alt /\ ~ALT_SCREEN_ACTIVE) /\ ALT_SCREEN_ACTIVE' = FALSE
    /\ UNCHANGED <<cmd, raw, RAW_MODE_ACTIVE, hook, signal, polled, ended, key, ahead, inputVars>>

\* confirm_pairing_sas: raw mode, if stdin is a terminal and allows it.
PromptRaw ==
    /\ At("pair", "prompt")
    /\ \/ EnterRaw("markprompt") /\ UNCHANGED <<cmd, hook, signal, polled, ended, key, ahead>>
       \/ pc' = "key" /\ UNCHANGED <<raw, alt, RAW_MODE_ACTIVE, ALT_SCREEN_ACTIVE, cmd,
                                     hook, signal, polled, ended, key, ahead>>
       \/ EndCommand("error")
    /\ UNCHANGED <<request, inputVars>>

PromptMarked ==
    /\ At("pair", "markprompt")
    /\ RAW_MODE_ACTIVE' = TRUE /\ pc' = "key"
    /\ UNCHANGED <<cmd, raw, alt, ALT_SCREEN_ACTIVE, hook, signal, polled, ended, key, ahead,
                   request, inputVars>>

\* A key pressed while the code is still shown stays in the terminal's buffer.
TypeKey(k) ==
    /\ ended = "no" /\ cmd = "pair" /\ key = "none" /\ pc \in {"waiting", "key"}
    /\ key' = k /\ ahead' = (pc = "waiting")
    /\ UNCHANGED <<cmd, pc, raw, alt, RAW_MODE_ACTIVE, ALT_SCREEN_ACTIVE, hook, signal, polled,
                   ended, request, inputVars>>

\* Fault: the end of the input counts as consent.
ApprovesUnlessDenied(k) == k # "other"

Approves(k) == k = "y"

\* The key is read, raw mode ends, ApprovePairing is written; its answer is
\* not waited for.
AnswerPrompt ==
    /\ At("pair", "key") /\ key # "none"
    /\ request' = IF Approves(key) THEN "approved" ELSE "denied"
    /\ EndCommand(IF Approves(key) THEN "ok" ELSE "error")
    /\ UNCHANGED inputVars

-----------------------------------------------------------------------------
(***************************************************************************)
(* shelly attach.                                                           *)
(***************************************************************************)
AttachRaw ==
    /\ At("attach", "start")
    /\ \/ EnterRaw("markraw") /\ UNCHANGED <<cmd, hook, signal, polled, ended, key, ahead>>
       \/ EndCommand("error")
    /\ UNCHANGED <<request, inputVars>>

\* The status bar, and with it the alternate screen, needs a second row.
RawMarked ==
    /\ At("attach", "markraw")
    /\ RAW_MODE_ACTIVE' = TRUE
    /\ \/ alt' = TRUE /\ pc' = "markscreen"
       \/ pc' = "attached" /\ UNCHANGED alt
    /\ UNCHANGED <<cmd, raw, ALT_SCREEN_ACTIVE, hook, signal, polled, ended, key, ahead, request,
                   inputVars>>

AttachScreenMarked ==
    /\ At("attach", "markscreen")
    /\ ALT_SCREEN_ACTIVE' = TRUE /\ pc' = "attached"
    /\ UNCHANGED <<cmd, raw, alt, RAW_MODE_ACTIVE, hook, signal, polled, ended, key, ahead,
                   request, inputVars>>

\* Detached, session exited (std::process::exit after the guards), errors.
AttachEnds ==
    /\ At("attach", "attached") /\ \E how \in {"ok", "exit", "error"} : EndCommand(how)
    /\ UNCHANGED <<request, inputVars>>

-----------------------------------------------------------------------------
(***************************************************************************)
(* Signals and panics.                                                      *)
(***************************************************************************)
\* SIGTERM and SIGHUP are registered before the terminal is touched; SIGINT only
\* by `pair`, and only at the first poll of ctrl_c().
Registered(k) == IF k = "term" THEN pc # "start" ELSE polled

\* select! polls its branches in any order: another may be ready and taken first.
PollCtrlC ==
    /\ At("pair", "waiting") /\ ~polled
    /\ polled' = TRUE
    /\ UNCHANGED <<cmd, pc, raw, alt, RAW_MODE_ACTIVE, ALT_SCREEN_ACTIVE, hook, signal,
                   ended, key, ahead, request, inputVars>>

\* A signal that is not registered takes its default action: the process is gone
\* at once, and nothing is undone.
SignalArrives(k) ==
    /\ ended = "no" /\ k \notin signal
    /\ \/ Registered(k) /\ signal' = signal \cup {k} /\ UNCHANGED ended
       \/ /\ ~Registered(k) /\ UNCHANGED signal
          /\ ended' = IF k = "term" THEN "signal" ELSE "killed"
    /\ UNCHANGED <<cmd, pc, raw, alt, RAW_MODE_ACTIVE, ALT_SCREEN_ACTIVE, hook, polled, key,
                   ahead, request, inputVars>>

\* Fault: signals are only looked at by an attached terminal.
PollsSignalsAttached == pc = "attached"

\* The select! loops poll the signals; the prompt does not.
PollsSignals == pc \in {"waiting", "attached"}

\* restore_and_reraise; Ctrl+C exits with 130.
SignalReceived ==
    /\ ended = "no" /\ PollsSignals
    /\ \/ "term" \in signal /\ EndCommand("signal")
       \/ "int" \in signal /\ EndCommand("exit")
    /\ UNCHANGED <<request, inputVars>>

\* The panic hook runs on the thread that panicked: flag first, terminal next.
HookRaw ==
    /\ ended = "no" /\ hook = "idle" /\ pc # "start"
    /\ hook' = IF RAW_MODE_ACTIVE THEN "raw" ELSE "alt"
    /\ RAW_MODE_ACTIVE' = FALSE
    /\ UNCHANGED <<cmd, pc, raw, alt, ALT_SCREEN_ACTIVE, signal, polled, ended, key, ahead, request,
                   inputVars>>

HookStep ==
    /\ hook \in {"raw", "alt", "screen"}
    /\ \/ hook = "raw" /\ raw' = FALSE /\ hook' = "alt" /\ UNCHANGED <<alt, ALT_SCREEN_ACTIVE>>
       \/ /\ hook = "alt" /\ hook' = IF ALT_SCREEN_ACTIVE THEN "screen" ELSE "done"
          /\ ALT_SCREEN_ACTIVE' = FALSE /\ UNCHANGED <<raw, alt>>
       \/ hook = "screen" /\ alt' = FALSE /\ hook' = "done" /\ UNCHANGED <<raw, ALT_SCREEN_ACTIVE>>
    /\ UNCHANGED <<cmd, pc, RAW_MODE_ACTIVE, signal, polled, ended, key, ahead, request, inputVars>>

CommandStep ==
    \/ ShowTicket \/ ScreenMarked \/ PollCtrlC \/ PromptRaw
    \/ PromptMarked \/ AnswerPrompt \/ AttachRaw \/ RawMarked \/ AttachScreenMarked
    \/ SignalReceived

TermStep ==
    \/ CommandStep \/ ApprovalRequested \/ PairingEnds \/ AttachEnds \/ HookRaw \/ HookStep
    \/ \E k \in {"term", "int"} : SignalArrives(k)
    \/ \E k \in {"y", "other", "eof"} : TypeKey(k)

TermFairness == WF_termVars(CommandStep)

-----------------------------------------------------------------------------
(***************************************************************************)
(* DetachState::consume over the chunks of the stdin thread.                *)
(***************************************************************************)
\* One byte: after a held prefix, d detaches and anything else is sent with
\* the prefix in front of it.
ConsumeByte(a, byte) ==
    IF a.detach THEN a
    ELSE IF a.held
         THEN IF byte = "d" THEN [a EXCEPT !.held = FALSE, !.detach = TRUE]
              ELSE [a EXCEPT !.held = FALSE, !.bytes = @ \o <<"p", byte>>]
         ELSE IF byte = "p" THEN [a EXCEPT !.held = TRUE]
              ELSE [a EXCEPT !.bytes = Append(@, byte)]

\* Fault: the held prefix does not outlive the chunk it came in.
ConsumedAlone(chunk) ==
    FoldLeft(ConsumeByte, [held |-> FALSE, bytes |-> <<>>, detach |-> FALSE], chunk)

\* DetachState::consume
Consumed(chunk) ==
    FoldLeft(ConsumeByte, [held |-> prefix_held, bytes |-> <<>>, detach |-> FALSE], chunk)

\* The stdin thread's next chunk; what it would forward is sent at once.
Consume ==
    /\ ~detached
    /\ \E upTo \in (read + 1)..Len(typed) :
          LET action == Consumed(SubSeq(typed, read + 1, upTo)) IN
          /\ read' = upTo
          /\ prefix_held' = action.held /\ detached' = action.detach
          /\ forwarded' = forwarded \o action.bytes
    /\ UNCHANGED <<termVars, typed>>

TerminalNext == TermStep \/ Consume

TerminalSpec == TerminalInit /\ [][TerminalNext]_terminalVars /\ TermFairness

-----------------------------------------------------------------------------
(***************************************************************************)
(* Properties.                                                              *)
(***************************************************************************)
\* The types, and: once the daemon is told "approved", a key was pressed that
\* says so; neither the end of the input nor any other key approves a phone.
CliTypeOK ==
    /\ ended \in {"no", "ok", "error", "exit", "signal", "killed"}
    /\ request \in {"none", "asked", "approved", "denied"}
    /\ hook \in {"idle", "raw", "alt", "screen", "done"}
    /\ request = "approved" => key = "y"

\* However the command ends (return, error, process exit, Ctrl+C, SIGTERM or SIGHUP
\* at any point, whichever thread panicked before), it leaves the terminal in
\* cooked mode on its primary screen, unless another thread's panic hook was cut
\* off midway.  The exception is SIGINT's default action, "killed", which undoes
\* nothing: it strikes `pair` between its alternate screen (main.rs:495) and the
\* first poll (:533) of ctrl_c() (:523), and `attach` when sent from outside.
TerminalRestored ==
    ended \notin {"no", "killed"} /\ hook \in {"idle", "done"} => ~raw /\ ~alt

\* A signal ends the command, or finds it at the approval prompt, where it waits
\* for the key.
SignalEndsCommand == <>[](signal # {} => ended # "no" \/ pc = "key")

\* What the detach sequence means, without chunks: a "d" after an odd run of
\* prefixes (each pair of prefixes stands for one prefix and itself).
OddRunBefore(i) ==
    \E k \in 1..(i - 1) :
        /\ k % 2 = 1
        /\ \A j \in (i - k)..(i - 1) : typed[j] = "p"
        /\ i - k > 1 => typed[i - k - 1] # "p"

DetachAt == {i \in 1..Len(typed) : typed[i] = "d" /\ OddRunBefore(i)}

\* However the input is cut into chunks, the session gets exactly what the
\* user typed before the first detach sequence (a doubled prefix included),
\* at most one prefix is held back, and that sequence detaches.
InputIsFaithful ==
    /\ detached <=> \E i \in DetachAt : i <= read
    /\ LET end == IF detached THEN Min(DetachAt) - 2
                  ELSE IF prefix_held THEN read - 1 ELSE read
       IN  forwarded = SubSeq(typed, 1, end)

\* A command that takes over the terminal gives it back, approves only what the
\* user approved, and hands the session what the user typed.
TerminalInv ==
    /\ CliTypeOK
    /\ TerminalRestored
    /\ InputIsFaithful
=============================================================================
