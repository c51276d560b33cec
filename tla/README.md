# TLA+ models of shelly

Shelly runs PTY sessions in a daemon (`shellyd`, `crates/daemon`) and lets
several clients attach to the same live session: the desktop CLI over a local
socket (`crates/cli`), and the phone over iroh (`crates/mobile-core`, with the
Android and iOS apps on top). The daemon keeps a bounded history of each
session, survives restarts through an encrypted database, pairs phones, and asks
a relay (`crates/relay`) to push notifications.

This directory holds TLA+ models of the daemon, its clients and the relay, the
TLC runs that check them on small instances, and TLAPS proofs of all their
safety properties for every instance. `PROJECT.json` maps each
definition to the lines it models and lists the runs, the fault variants that
each property rejects, the disagreements found, the hazards the properties are
aimed at, and the theorems.

To check a run: `tlc -workers 2 -config MCStream.cfg MCSessionStream`.
To check a proof: `tlapm --threads 4 RelayProofs.tla`; the longest, that one,
takes about a quarter of an hour, `ClientProofs` about ten minutes.

## 1. The system

| Part | State | Operations | Interacts with |
|---|---|---|---|
| PTY ring (`daemon/src/ring.rs`) | the last bytes and their 64-bit offsets | push, replay_from, snapshot | written by the I/O thread, read by attaching clients and savers |
| Session (`session.rs`) | child, ring, terminal projection, exit code, agent state, sizes, broadcast channel | read and record output, exit, attach, resize, input, kill, persist | one I/O, one resize, one state and one persistence thread; handlers of all connections |
| Terminal projection (`terminal_model.rs`) | the screen of the session, or nothing after a panic or an eviction | ingest, resize, render, rebuild from the ring | locked together with the ring |
| Forwarders (`forward.rs`, `ipc.rs`, `transport_iroh.rs`) | a broadcast receiver, the offset captured at the attach | forward, skip what was replayed, report Lag | one task per attachment, writes to the connection |
| Attach clients (`cli/src/attach_loop.rs`, `mobile-core`) | last offset seen | cold and warm attach, re-attach after Lag | the protocol |
| Registry (`ipc.rs`: `AppState`) | live and restored sessions, reserved names, the published list | create, kill, evict, list, subscribe | handlers, list forwarders, I/O threads |
| Persistence (`persistence.rs`) | rows of sessions and devices | save, remove, load, prune | the registry, savers, restart |
| Pairing (`pairing.rs`) | the open offer and its approval | begin, claim, approve, cancel, expire | desktop command, iroh transport, relay rendezvous |
| Devices and revocation (`ipc.rs`) | paired devices, revocation watchers | save, remove, unpair, mark seen, push token | iroh connections, pushes, persistence |
| Transport and authorisation (`transport_iroh.rs`, `authz.rs`) | authentication of a connection, limit on unauthenticated ones | Hello, pair, unpair, every session request | devices, pairing, sessions |
| Push worker (`push.rs`) | queue, registration with the relay | enqueue, dispatch, retry, register | agent states, devices, the relay |
| Relay (`relay/src/lib.rs`, `fcm.rs`, `apns.rs`) | daemons and their keys, tokens, nonces, codes, in memory and in SQLite; push credentials | register, bind, push, publish, resolve, prune | daemons, phones, FCM and APNs |
| Start (`daemon/src/main.rs`, `persistence.rs`, `paths.rs`, `cli/src/ipc.rs`, `service.rs`) | processes, database locks, keychain key, control socket, service | start, wait, install, restart, stop | every command, the stored rows |
| Commands (`cli/src/main.rs`, `terminal.rs`) | raw mode, alternate screen, a conversation with the daemon | pair, attach, kill, kill-all, open, hook | the daemon, the user's terminal |
| Mobile core (`mobile-core/src/lib.rs`) | remembered daemon, endpoint, labels, pending pairing, streams | pair, confirm, cancel, unpair, subscribe, attach, detach | apps, daemon |
| Framing (`protocol/src/framing.rs`) | partly read frame | read, write | every connection |
| Agent state (`state_infer/`, `session.rs`) | Idle, Working, AwaitingInput, ... | infer from output, hook events, idle timer, exit | session list, pushes |
| Apps (`apps/`) | terminal and connection controllers | attach, recover, render | mobile-core |

What is hard: the I/O thread of a session, its resize and persistence threads,
the handlers of every connection, a forwarder per attachment and a list
forwarder per session share the session under several separate locks, atomics
and channels; a client may be arbitrarily slow; connections break and are
resumed from a byte offset; kill, exit, eviction, the cap and saves meet in the
registry, which spreads one session over two maps, a set of names, a published
list and a database; the daemon may stop at any point.

What makes each part correct:

- ring: it holds exactly the last bytes of the stream, a replay is exactly the
  stretch asked for, offsets never move back;
- output: a client sees every byte once and in order from the offset it was
  attached at, through replay, snapshot, live output, Lag and reconnection, and
  learns of the exit after the last byte;
- registry: a session can be found until it is killed or capped, names are
  unique and are not leaked, a killed session is gone for good, an exited one is
  evicted, the list subscribers see is the list of the sessions;
- pairing and devices: a code pairs one device, before it expires, after few
  wrong guesses and with both sides' confirmation; a removed device is cut off
  and does not come back;
- a session's control: input reaches the child whole and in order, the PTY has
  the smallest of the attached sizes, the exit decides the last state, and a
  kill is not reported as a crash;
- push: a change of a token ends at the relay as the daemon meant it, an event
  is pushed once to every device that is still there;
- relay: a signed request counts once, what was acknowledged survives a restart,
  a key is replaced only by its owner, a resolved code is used up;
- clients: the terminal is given back as it was found, commands act on what the
  user named, the phone keeps its pairing and resumes where its screen ends,
  frames arrive whole;
- start: one daemon serves, over rows it can read, and a command that waits for
  it comes to an end.

## 2. Modules

| Module | Models | Run |
|---|---|---|
| `PtyRing` | the ring, its replay and the 64-bit counter (`MaxSeq`) | `stream_panic`; extended by `SessionStream` |
| `SessionStream` | output of one session to its clients | `stream`, `stream_panic` |
| `ByteStream` | what a session promises: every screen is a growing prefix of the stream | refined by `SessionStream` in `stream` |
| `SessionRegistry` | registry, persistence, restart | `registry`, `registry_live`, `registry_kill`, `registry_names` |
| `SessionControl` | viewport, agent state, input and end of one session | `control` |
| `Access` | pairing, devices, revocation, phone connections | `access`, `access_removed` |
| `PushDispatcher` | the daemon's push queue and worker | `services` |
| `PushProviders` | the relay's credentials for FCM and APNs | `services` |
| `DaemonStartup` | starting daemons, keys, locks, rows, socket, service | `services` |
| `Relay` | the relay's state in memory and in SQLite | `relay` |
| `MobileCore` | the phone's client, requests and pairing attempts | `clients` |
| `MobileStreams` | the phone's subscription and attached session | `clients` |
| `CliTerminal` | commands that take over the terminal, the detach prefix | `clients` |
| `CliCommands` | one-shot commands as conversations | `clients` |
| `Wire` | frames in pieces | `clients` |
| `PtyRingProofs`, `SessionStreamProofs`, `SessionRegistryProofs`, `SessionControlProofs`, `AccessProofs`, `RelayProofs` | theorems about the module of that name (section 4) | |
| `ServiceProofs` | theorems about `PushDispatcher`, `PushProviders`, `DaemonStartup` | |
| `ClientProofs` | theorems about `MobileCore`, `MobileStreams`, `CliTerminal`, `CliCommands`, `Wire` | |
| `MC*` | constants, scenarios, symmetry and views for TLC | |

A definition named as a fault ("Fault: ...", "Fault variant of ...") is not part
of a model: it is what a plausible mistake would make of the definition after
it. Each checked property is known to reject one, and an invariant of several
named parts one for each of its parts.

**PtyRing.** A byte is its position in the stream, so "the right bytes" is a
statement about positions. `PushRing` follows `push`: the chunk larger than the
ring, the overflow that drops from the front, the counter that cannot advance
(`Exhausted`: the window is poisoned at `MaxSeq`). `HasReplay`/`ReplayFrom`
follow `replay_from`.

**SessionStream.** One session and a set of clients. Each handler is split
where another thread can run: at a lock it releases or an await.

- The I/O thread: `ReadChunk` (ring and projection under their locks),
  `IoGrab`/`IoRebuild` (a projection lost to a panic is rebuilt outside the
  locks), `Publish` (the broadcast comes after the locks are released),
  `MarkExited` (after draining the PTY) and `AnnounceExit`.
- The registry, as seen from here: `reg` is live, restored or gone; `Evict` and
  `KillSession` move it.
- The handler of AttachSession, in the order of `ipc.rs:706-824`: `Lookup*`,
  `StopForwarder`, `AttachClient` (with a resize that may rebuild the
  projection), `Subscribe`, `Capture*` (replay, snapshot, raw scrollback, or a
  dead projection followed by `Revive` and `Resnap`), `CheckExited` or
  `CheckRunning`. The iroh transport has the same steps.
- The forwarder: `ForwardLag`, `ForwardSkip` (`output_was_replayed`) and
  `ForwardEvent`. The receiver of a tokio broadcast channel is an index into
  the events sent; it lags when it is more than `QueueCapacity` behind. A write
  waits while `WireCapacity` frames are unread.
- The client: `AttachCold`, `AttachWarm`, `AttachAfterLag`, `Receive*`,
  `Disconnect`. Besides `seen`, the offset it caches, it has two history
  variables: `shown`, the last position on its screen, and `whole`, which
  becomes false when a position is skipped or repeated.

**SessionRegistry.** Sessions, names and connections as sets. Each access to a
concurrent map and each database transaction is a step of its own; the steps of
`create_session_for`, `kill_session_for`, `mark_exited`, `flush_dirty_persistence`
and `evict_naturally_exited_session` are the program counters `hPc`, `ioPc`,
`savePc` and `evPc`. A row is none, partial or final; the published list is the
set of ids it shows; which restored session is the least recently active one is
any. `freed` is history: the sessions whose name was freed while they had it. `Stop` is a crash, or the end of a graceful shutdown when `Shutdown` and
the flushes it starts have run before; `Start` prunes and loads the database.
`Init` is a daemon that was not started yet, with any sessions of earlier runs
in its database.

**SessionControl.** The threads of one session apart from its output: the
connections, the resize thread, the idle thread and the I/O thread. Each
critical section of a mutex and each system call is a step. `attach_client`
enters a size, reads the minimum and resizes in three steps; `set_state` is
split between the check that the session runs and the change; the I/O thread
takes turns between draining the PTY and writing what is queued, a part of an
entry at a time; `kill` sets its flag, signals, and asks the I/O thread to stop.
Time is two ages, since the last output and since the session began to work.

**Access.** `PairingManager`, the devices map with its rows, the revocation
counters and the phone connections. A connection is accepted while permits
last, says Hello, is recognised as paired or pairs with a code, waits for the
operator, is saved row first and map second, and then receives requests, each of
which rechecks the device. A removal is four actions, `EraseRow`, `ForgetDevice`,
`RevokeConnections` and `UnregisterToken`, and everything else may run between two
of them. Push tokens are values: a device may send another one, which takes the
place of the first, and may ask to clear one that it does not have. `taken` is
the token of the entry that a removal took out; `leaked` is history, the tokens
that may stay registered although the daemon no longer knows of them. Errors of the database and a crash may come at any step.
The SAS transcript is abstracted to whether both sides have the same code.

**PushDispatcher.** The queue and the worker, one request at a time with retries
inside `Budget`; the relay is modelled by what its answers mean to the worker: it
may not get the request, turn it down for a while or for good, or carry it out
without its answer arriving. It may forget the daemon. The daemon's node id comes
as a command of its own, twice (`SetNodeId`: when the endpoint is bound, and before
it accepts connections, `transport_iroh.rs:58` and `:72`); a session event or a
removal may come before it, and is dropped then (`push.rs:293-297`).

**Relay.** A request is a sequence of critical sections of the mutex and of
awaited database operations. A handler may be dropped at an await by the
request timeout: the blocking operation it started still runs, and nothing
after it does. Registration reads the old key, verifies, and inserts if the key
is still the one it read; a failed save rolls back. Nonces, tokens, codes and
daemons lapse and are pruned from memory and database at different moments.
History variables say what the properties are about: `acked`, what was last
acknowledged of each daemon and token by a request that no other one overlapped
(`alone`); `former`, the keys of a daemon that gave way to another or were
pruned; `spent`, the publications that a resolve used up.

**PushProviders.** Deliveries share one OAuth token behind a lock that is held
through its exchange (served in order), and one JWT under a plain lock; both
take the time before they take the lock. `Outcome` is the classification of the
provider's answers.

**DaemonStartup.** Processes load their settings and their key, take the two
database locks, prune and load, unlink and bind the socket, and serve; commands
start one when they cannot connect and wait for it; an installer has the service
manager run one and undoes the installation if it does not answer. The lock of
a process that ends is released, its socket file is not.

**MobileCore.** Every exported method is a future the app may run next to others
and drop at any await. Calls read the remembered daemon, get the endpoint
(bound under its lock), dial, and write the two labels under two locks. A
pending pairing is confirmed, answered and stored, or cancelled.

**MobileStreams.** The subscription has a ping task and a read timeout, counted
in ticks; the attached session hands its receive half to whichever subscribe()
call takes it, after the initial bytes. An output is two steps, the offset stored
(`StoreLastSeen`) and the bytes drawn (`on_output`), since `last_seen_seq()` may
read the offset in between.

**CliTerminal.** The terminal itself (`raw`, `alt`) next to the two process-wide
flags that say what has to be undone; guards, the panic hook of any thread and
the signal path all undo it through the flags. SIGTERM and SIGHUP are registered
before the terminal is touched, SIGINT only by `pair` and only when it first polls
`ctrl_c()` (`PollCtrlC`), with the alternate screen on; until then it ends the
process as `killed`, which undoes nothing. `Consume` splits the detach prefix out
of the chunks of what the user types.

**CliCommands.** Each command is a list followed by requests about what it saw,
while other commands create, kill and take names. The list that a command saw is
a function from session ids to names; ids are numbered in creation order, which
is the order of every list, so that what a command has still to work through is
a set (`left`) of which it takes the least (`First`), as the loop over the list
does. The events of an agent hook are likewise the positions of the payload's
lines that give a state. A session that is gone counts as killed, as in
`kill_session_for`; the daemon's Error comes only when a child cannot be signalled
or a row cannot be erased, in the behaviours with `faults`. Opening and attaching
list twice, once to find the name and once more in `attach_session` (`ListAgain`).

**Wire.** Bytes named by message and position; two writers under one lock, one
of which may be aborted in the middle of a frame; a reader that collects a
length and a payload while other events of its loop keep coming.

## 3. Runs

| Run | Instance | Shows |
|---|---|---|
| `stream` | 1 client, ring, queue and wire of 1, chunks up to 2, 3 bytes, 2 attachments, 1 note | no byte lost or repeated, the answer first, Lag last, one exit, after all output; refinement of `ByteStream`; the client catches up and learns of the exit |
| `stream_panic` | ring of 2, chunks up to 3, 4 bytes, counter of 3; the emulator may panic at any chunk or resize | the window, replays and offsets of the ring are exact, also when the counter runs out, and raw offsets stay contiguous |
| `registry` | 2 sessions, 2 names, 1 connection, cap 1, 1 kill, failures | no session lost, no name leaked, none given twice unless it was freed in between, the cap respected |
| `registry_live` | 1 session, stored or new, a kill, a stop at any point, failures | the same across a restart; an exited session is evicted; the last list is current unless two crossed |
| `control` | 2 clients with 3 sizes; agent events, time, exit and kill; a chatty child with a queue of 1 | viewport, final state, kill, order and progress of input, idleness |
| `access` | 2 connections of 1 or 2 phones, 1 code, 2 guesses, 2 push tokens, up to 2 removals, failures, a crash | only approved devices, one per code, kept when saved; cut off when removed, and their tokens unregistered unless lost track of |
| `relay` | 2 requests at a time in 12 scenarios of up to 4 ticks; window, timeout and lifetimes of 1 or 2 ticks, retention of 3; failures, a restart | no replay, caps, acknowledged keys and tokens kept, codes used up, keys handed over by their owner unless an older one had returned |
| `clients` | 2 calls, 2 daemons, 1 attempt; 2 subscribers; 5 typed keys in any chunks; 2 commands over 3 sessions, with and without faults; 2 messages of each writer, of length 0, the maximum, and one too many | the client properties of section 1 |
| `services` | 3 commands to the worker, 2 phones, 3 tokens; 2 deliveries, 6 ticks; 3 daemons, 2 commands, a crash, a change of the encryption setting | the push and start properties of section 1 |

The invariants and progress properties that are conjunctions of named parts,
each part stated with its own comment in its module:

| Property | Parts |
|---|---|
| `ExitComesOnceAndLast` (`SessionStream`) | `ExitAnnouncedOnce`, `ForwardedExitAfterAllOutput` |
| `RegistryInv` (`SessionRegistry`) | types, `NoLostSession`, `NoNameLeak`, `RestoredIsCapped` |
| `SessionControlInv` (`SessionControl`) | types, `InputInOrder`, `FinalStateIfUnraced`, `KillIsNoCrash` |
| `AccessInv` (`Access`) | types, `OnlyApproved`, `CodePairsOne`, `GuessesAreLimited`, `PairingIsKept` |
| `WithinBounds`, `AckedIsKept` (`Relay`) | types, `DaemonsCapped`; `AckedKeyIsKept`, `AckedTokenIsKept` |
| `MobileInv` (`MobileCore`) | types, `OneEndpoint`, `BothConfirmed`, `PairingSurvivesIfUncrossed`, `LabelsAgreeIfUnmixed` |
| `StreamsInv` (`MobileStreams`) | types, `NoFalseAlarm`, `InitialBytesFirst`, `ResumePointIsShown`, `NothingAfterDetach` |
| `TerminalInv` (`CliTerminal`) | types, `TerminalRestored`, `InputIsFaithful` |
| `CommandsInv` (`CliCommands`) | types, `KillIsByReference`, `KillAllIsExact`, `KillIsIdempotent`, `OpenFailsOnlyIfCrossed`, `HookInOrder` |
| `WireInv` (`Wire`) | types, `FramesIntact`, `BreaksOnlyIfCut` |
| `PushInv` (`PushDispatcher`) | types, `LastChangeWins`, `OnlyOffered`, `NotifiedOnce` |
| `ProvidersInv` (`PushProviders`) | types, `SingleFlight`, `CredentialIsLive`, `JwtRenewedSeldom`, `DeviceTokenIsSpared` |
| `StartupInv` (`DaemonStartup`) | types, `OneServer`, `RowsSurviveIfKeyKept`, `FailedInstallLeavesNothing` |
| `CommandsFinish` (`MCClients`) | `SignalEndsCommand`, `EveryCommandEnds` |
| `DeliveriesEnd` (`MCServices`) | `EveryTokenIsTried`, `QueueDrains`, `SendsEnd` |

The type invariants of the ring and of the stream and `OffsetsAdvance` are
proved (section 4) and not repeated in a run. `registry_kill`, `registry_names`
and `access_removed` end in a violation, see below.

Runs of several scenarios or parts explore them side by side: an initial state
chooses one, so that their state spaces add up. `clients` and `services` put
modules that share no state next to each other in one run; the part that does
not run keeps a fixed initial state.

The bounds make the interesting cases happen: the ring and the queue are smaller
than the stream, so replays miss, receivers lag and chunks exceed the ring; two
attachments give one reconnection; what only more of everything would show (a
`Lag` after the exit needs two notes) is covered by the proofs; a cap of 1 with
two sessions makes every second eviction drop a session, possibly one that is
itself being evicted. One client is enough for the stream because clients meet
only through the projection, which another thread (the resizer) also rebuilds in
the model; the proofs cover any number. Two requests, connections, calls or
commands give every race of a check with a later use; in the relay, a window and
an interval of one tick let a repeat fall before, into and after each prune, and
a timeout of one tick drops a handler at each of its awaits. Three daemon
processes let one crash while two more race for its locks.

`registry`, `relay` and `access` use symmetry of interchangeable connections,
names, sessions or request slots (their properties are invariants or action
properties). `registry` also uses the view `WithoutDatabase`: no action reads
the published list or the answers sent, and only `Start`, which this run takes
once, at the beginning, reads the database; its properties read none of them
either.

`CHECK_DEADLOCK FALSE`: every bounded behaviour ends when its requests are used
up, and the system itself may rest with nothing to do.

Fairness. Weak fairness of the I/O, resize and idle threads, the connection
handlers, the forwarders, the list forwarders, the push worker, the relay's
handlers, a started daemon and a waiting command: they are operating system
threads, tokio tasks and processes, and their steps wait only for what the model
shows (a full wire, a message, a lock, a timer). The stream also assumes that a
connected client reads and re-attaches after Lag, which is what its loop does;
it may disconnect instead at any time. Liveness of the stream is checked for an
emulator that does not panic: with one that panics at every resize the resize
thread may take the resize lock again and again while an attach waits for it,
which needs an endless series of resizes and an unfair mutex, and is not held
against the code. `InputReachesChild` assumes that the child reads its input now
and then, and `SilenceBecomesIdle` that time passes; `DeadDaemonIsNoticed` uses
the phone's own timers only. `SignalEndsCommand` does not assume that the user
presses a key. Nothing is assumed of the network, the users, the persistence
thread or the restart of a daemon.

### Disagreements found

Three are kept as runs expected to end in a violation; `PROJECT.json` quotes the
statement and the lines.

| Run | Statement that fails |
|---|---|
| `registry_kill` | SessionKilled means that the persisted state is gone: a save under way writes it back |
| `access_removed` | removing a device removes its stored record: a connection of the device that saves it between the two halves of the removal brings it back, and it is paired again after a restart |
| `registry_names` | duplicate names are rejected (INSTALL.md:45): an eviction frees the name it read at its start, which a kill has freed and another session taken by then; two running sessions share it |

Others were met while modelling. Where a weaker statement holds, it is checked,
and its condition names the race:

| Where | Departure | What is checked |
|---|---|---|
| `session.rs:263` | a snapshot does not match the offset it is sent with when the projection was lost to a panic and is rebuilt outside the lock window (ARCHITECTURE.md:14) | only that the raw offsets stay contiguous (`OffsetsContiguous` in `stream_panic`); nothing about what such a snapshot shows |
| `ipc.rs:1289` | an eviction that passed the killed check restores a killed session beside a new one with its name | `UniqueNamesUnlessFreed` |
| `ipc.rs:1255` | a child that ends during CreateSession is evicted before its final row is saved (comment at session.rs:738) | `ExitedIsEvicted` |
| `ipc.rs:208` | the immediate list of SubscribeSessions is empty after a restart | |
| `ipc.rs:258` | of two publications that cross, the older list may be the last one sent | `LastListIsCurrentIfUncrossed` |
| `session.rs:832` | two clients that attach at once may leave the PTY with the larger size (ARCHITECTURE.md: the minimum is applied) | `ViewportIfUncrossed` |
| `session.rs:317` | a state set by a thread that had seen the session running overwrites the exit's | `FinalStateIfUnraced` |
| `ipc.rs:461` | a removed device's token is unregistered (PROTOCOL.md:40, PRIVACY.md:25): a token that another replaced stays registered at the relay, and so does one whose device paired again, whose record could not be saved, or whose removal the daemon's end cut short | `TokenGoesWithDevice` |
| relay `lib.rs:1479` | a registration that cannot be saved puts back the key it replaced, also over a later one | `KeyHandoverIfNotReturned` |
| relay `lib.rs:1471` | re-keying must be authorised by the currently registered key (comment at `lib.rs:1432`): the key compared at the commit is the one that was looked up, the one that signed was read in between; a key handed over and handed back meanwhile goes unnoticed | `KeyHandoverIfNotReturned` |
| relay `lib.rs:1843` | two resolves that overlap are both answered with a code that is to be used once | `SpentCodesAreGone` |
| relay `lib.rs:1992` | two registrations at the cap evict the same token, and one too many is kept | |
| `persistence.rs:262` | a start with the wrong key, or without one, deletes the stored sessions as if expired | `RowsSurviveIfKeyKept` |
| mobile `lib.rs:720` | unpairing from one daemon forgets another that was confirmed meanwhile | `PairingSurvivesIfUncrossed` |
| mobile `lib.rs:803` | two handshakes may mix the version of one daemon with the host name of another | `LabelsAgreeIfUnmixed` |
| mobile `lib.rs:1017` | the resume offset is stored before its bytes are drawn: an app that reads it in between and attaches again from it skips them | `ResumePointIsShown` |
| `main.rs:533` (cli) | `pair` enters the alternate screen (495) before SIGINT is registered by the first poll of `ctrl_c()` (523): Ctrl+C in between leaves the terminal there | `TerminalRestored` |
| `main.rs:633` (cli) | a termination signal is not seen at the approval prompt until a key is pressed | `SignalEndsCommand` |

Two sentences of docs/ARCHITECTURE.md:31 describe an earlier version: `shelly
pair` does not approve the first valid request by itself but asks for a key
(`confirm_pairing_sas`). The models follow the code.

## 4. Proofs

`PtyRingProofs` proves, for every capacity, chunk size, stream length and counter
width, that the ring is type correct (`RingTypeCorrect`), holds the last bytes of
the stream (`RingHoldsSuffix`), replays exactly (`RingReplaysExactly`) and never
moves an offset back (`RingOffsetsAdvance`). The inductive invariant `RingInv`
says that the ring is the window of the stream that ends at its counter
(`IsWindow`), or the poisoned ring; the lemmas say what cutting and joining
stretches of consecutive positions gives.

`SessionStreamProofs` proves for every set of clients and all capacities:

- `StreamTypeCorrect`: the type invariant.
- `AttachReplyComesFirst` and `LagEndsAttachment`, from the invariant
  `ControlInv`: at any time a connection is written to by its handler or by its
  forwarder, never by both; a client that waits for its answer has nothing else
  in flight; nothing follows Lag or Error. It needs only the types.
- `ReplayJoinsLiveOutput`: replayed and live output join without a gap or an
  overlap, also when the emulator may panic. `OffsetsContiguous` only speaks of
  frames on the wire; the inductive invariant `StreamInv` adds that the broadcast
  channel carries the stream without a hole, up to the chunk the I/O thread has
  still to publish (`BroadcastInv`); that the offset captured at an attach lies
  between two chunks, never inside one (`OnBoundary`), because the ring is
  written a whole chunk at a time under its lock; and that the receiver, taken
  before the capture, has consumed no event beyond that offset, so that what the
  filter lets through continues exactly where the wire ends (`DeliveryInv`).

- `ExitIsOnceAndLast`: the exit is announced once and after all output. The
  invariant (`Exits`) follows the exit through the channel, the wire and the
  receiver. It shows what may still follow: a change of state, sent by a thread
  that saw the session running, and a `Lag`, when so many of those follow that the
  receiver falls behind again.
- `ScreensAreExact`: every screen shows the stream without a gap or a repetition.
  The theorem covers a panicking emulator too, of which `ScreenExact` says
  nothing; otherwise the projection is never lost (`NoPanicInv`), every frame on
  the wire shows the bytes its offset counts (`Exact`), and the client's cached
  offset is the end of its screen.
- `SessionImplementsByteStream`: each step of the session and its clients is a
  step of `ByteStream` or leaves the screens alone. It assumes that the emulator
  does not panic and that the 64-bit counter is not used up
  (`MaxBytes <= MaxSeq`): without either the code does not promise it
  (`stream_panic`).

`SessionRegistryProofs` proves for any sessions, names, connections, cap, stops
and failures `RegistryBooksAgree` (`RegistryInv`), `ReservedNamesAreUnique` and
`PublishedListIsCurrent`. None is inductive alone. That no session is lost needs
what each handler and eviction is about to do with it (`KeptInv`: a session is
in the restored map before it leaves the live one). That no name leaks needs
`LeakInv`: every reserved name belongs to a session of the maps or to one that
somebody is creating, killing, evicting or dropping (`Accounted`), and `KillInv`,
which name a kill has read. The cap holds with one session too many for each
eviction inside the loop. The list needs `ListInv`: whoever changed the maps has
still to draw a list (`Stale`), and at most one list is being sent.
The uniqueness of names was stated at first for sessions that are not killed, and
is not true of them: a name may be freed a second time, under its next owner
(`registry_names`). It holds unless a name was freed while its session had it.

`SessionControlProofs` proves for any connections, sizes and queue
`EndAndInputAreRight` (`SessionControlInv`) and `ViewportIsMinimum`. `FinalInv` says
that after an exit nobody raced, nobody is left who would set the state;
`KillInv` that the flag comes before the signal and the signal before the end;
`ViewInv` that the PTY has the minimum, or somebody is about to give it, or has
still to read it. `InputInOrder` says that what was accepted can be cut into
what was written, what is pending and the entries of the queue; the cut is
stated rather than computed, so that no fold over the queue is needed.

`AccessProofs` proves for any connections, devices, codes and limits
`PairedDevicesWereApproved` (`AccessInv`), `RemovalReachesForwarders` and
`TokensGoWithDevices`. The parts of the invariant: who is about to be saved asked
and was approved (`AskedInv`); no two requests came from one code (`CodeInv`); a
device whose pairing has settled is stored and nobody is removing it (`KeptInv`);
a removal that fell between the check of a request and the start of its
forwarder raised a counter beyond the value the forwarder watches from, or is at
the step that raises it (`ToldInv`, `SeenInv`); a token that the dispatcher knows
and the daemon did not lose track of belongs to an entry, or was taken out of it by
a removal that has still to unregister it (`TokenInv`).

`RelayProofs` proves for any number of requests at a time, daemons, tokens and
codes, and any environment:

- `RegistryIsWithinBounds`: types and MAX_DAEMONS (`WithinBounds`).
- `ResolvedCodesStayGone` (`SpentCodesAreGone`). `CodeInv` says that a publication
  is under one code, whichever of memory, database, publishing and resolving
  requests know of it, so that deleting that code deletes it everywhere.
- `KeysAreHandedOver` (`KeyHandoverIfNotReturned`, of every step). `KeyInv`: the
  key a request looked up is registered or has given way; once its signature was
  checked it is the key that signed, the key asked for, or one that has given
  way. The last case is the hand-back of section 3.
- `RequestsAreNotReplayed` (`NoReplay`). `NonceInv`: the row of a nonce outlives
  the window of its request, not pruned for its age, nor with its daemon; and
  inside the window there is at most one request with that nonce that has been
  recorded and not yet counted.
- `AcknowledgedKeysAreKept`, `AcknowledgementsAreKept` (`AckedIsKept`). `ClaimInv`
  is about overlaps: two requests of which one is alone do not change the same
  daemon or token, and nobody in progress changes one that was acknowledged;
  `AckKeyInv` and `AckTokenInv` date the entries: a rollback, and an activity of a
  request that was in progress before, may put back an entry that is older, by
  less than a request timeout. That is why the properties allow for `Timeout`.

An action of `Relay` changes several maps, and each part of the invariant
depends on little of that. So each action is first reduced to what it does to
each map and request (the `...Turn` definitions, `NextTurns`), and each part of the
invariant is proved once per turn.

`RequestsAreNotReplayed` and `AcknowledgementsAreKept` have the hypothesis
`LongRetention`: the time for which idle daemons are kept is at least the window
of a signed request (twice the clock skew allowed) plus a request timeout, and at
least two request timeouts. Otherwise the prune may take a daemon, its nonces and its bindings
while requests about them are in progress. The default is 365 days against
minutes; the code does not check what SHELLY_RELAY_DAEMON_RETENTION_MS sets,
which is why it is a hypothesis and not an assumption of the module.

`ServiceProofs` proves about the push worker, the relay's credentials and the
start of a daemon, which share no state:

- `LastChangeCounts` (`PushInv`), for any phones, tokens, delays and crashes. That
  the relay is left with the last change needs to know what the queue still
  holds: a change that counts as the last has no other behind it (`LastInv`), and
  the removal of a token that a phone holds is followed by its registration
  (`HeldInv`). An event waits or is under way once, and of an event whose answers
  all came nothing was pushed to the tokens that are still to do (`GotInv`).
- `EveryPhoneIsTried` (`EveryTokenIsTried`, a step property that the run checks as
  a part of `DeliveriesEnd`). `SinceInv`: a phone that was there all along has
  been tried or is still to do.
- `CredentialsLast` (`ProvidersInv`). `QueueInv`: the handlers that wait for the
  lock read the clock in the order in which they wait, and the one that exchanges
  saw that the cached token is too old for it. `FreshInv` bounds the age of a clock
  reading at its use: a handler that finds the token good has read the clock
  just now, or the token has just been bought. Without the order of the queue
  this is false: a handler could take the lock late with an early reading.
- `OneDaemonServes` (`StartupInv`). `LockInv`: whoever is past a database lock
  holds it, and who serves has the socket. `KeyInv`: unless two daemons made a key
  at once, there is one key, the keychain's, with which rows are written and which
  every daemon has that looked for it. `FailedInstallLeavesNothing` says that as
  long as every installer reported a failure, or did not begin, no service is
  installed.

`ClientProofs` proves about the clients:

- `PhoneRemembersOnePairing` (`MobileInv`), for any daemons, calls and pairing
  attempts. Who may bind the endpoint holds its lock (`EndpointInv`); one call
  dials for an attempt, and only what the desktop approved is about to be stored
  (`AttemptsInv`); an unpair that nothing crossed is about the daemon that is
  remembered (`RememberedInv`); unless handshakes mixed or one was dropped
  halfway, the calls between their two labels have welcomes of one daemon (`LabelInv`).
- `StreamsKeepTheirPlace` (`StreamsInv`). `Heartbeat` weighs the time of a ping, the
  answer on its way and the silence against the read timeout; `AttInv` says that
  one subscriber gives the initial bytes and nobody is past them before, and that
  only who holds the receive half is between storing an offset and drawing.
- `FramesAreReadAsWritten` (`WireInv`). `IntactInv`: unless a frame was cut, the
  lock goes with the last frame begun, consecutive bytes under way continue each
  other (`StreamInv`), and the next one is the byte that the reader needs
  (`ReaderInv`).
- `TerminalGivenBack` (`TerminalInv`). `FlagsInv`: what is still set on the terminal
  is marked, about to be marked, or being undone, unless SIGINT took its default
  action. For the detach prefix,
  `InputInv` says what is known once a number of bytes went through (`Scanned`):
  what was let through, and whether the run of prefixes that ends there is odd.
  A chunk is consumed with a fold; that the fold goes byte by byte
  (`FoldGoesByteByByte`) is an induction over its length.
- `CommandsActOnWhatWasNamed` (`CommandsInv`). `KillInv` and `KillAllInv` account
  for every session of a list as gone or still to do, in the order of the list;
  without faults a command that has begun to kill goes on to the end;
  `RoomInv` counts the commands that may yet create a session, and `OpenInv` says
  that a name nobody crossed is free until its session is created and belongs
  to that session from then on.

Two of these proofs use an induction over the naturals without the library's
induction rule, which takes an operator: of the numbers that fail there is a
least one, since `<` is well-founded on the naturals (`WFMin`), and the one before
it gives the contradiction.

The assumptions are those of the modules (`RingAssumption`, `StreamAssumption`,
`RegistryAssumption`, and so on, one in each module):
capacities and limits are naturals, or positive where the code's constants are;
sets that are counted are finite; a name for "nothing" is not a value, and two
kinds of threads do not share names. A few say more, and the code's constants
satisfy them: the refresh margins of the credentials outlast an exchange and a
notification, each of a tick at most (`ProvidersAssumption`: they are five
minutes for FCM and ten for APNs); a ping interval and the delay of an answer
stay below the read timeout (`StreamsAssumption`); two devices have different
tokens (`PushAssumption`); a session is not named like an id
(`CommandsAssumption`). The environments (`Scenarios`) may be any
of their type; of the relay's, a message has the fields of its kind, the
registered daemons are within the cap, and a nonce is of one message, which is
what signing fresh random nonces gives. The bounds on ticks, stops and requests
may be any numbers. TLC evaluates the assumptions in every run.

Only model-checked is what needs fairness, which the prover does not handle, nor
ENABLED: `ExitIsLearned` and `CatchesUp` (`stream`), `ExitedIsEvicted`
(`registry_live`), `InputReachesChild` and `SilenceBecomesIdle` (`control`),
`DeadDaemonIsNoticed`, `CommandsFinish` and `FramesArrive` (`clients`), and
`DeliveriesEnd` and `CommandsEnd` (`services`), of which `EveryTokenIsTried` is
proved. Every other property of the runs that pass is stated by a theorem.

The modules that are proved about contain no recursive operator, and the proofs
cite no result about what one computes.

## 5. Not modelled, and why

- Rendering of the terminal: a third-party emulator; a snapshot is abstracted to
  the stretch of the stream it shows.
- The Android and iOS apps: user interfaces over the mobile core. The recovery
  of the Android `TerminalController` is the part that would repay a module.
- Contents: serialisation, encryption of rows and connections, signatures and
  the SAS (who made them and whether they match is modelled), text patterns of
  the agent inference (which state they report is a choice), drawing.
- Rate limiters of the relay: a choice between going on and being turned down.
- Relay selection and the binding of endpoints: external.
- The debounced publication of the list on state changes, and `summaries()`
  walking two maps: one step here (an eviction inserts before it removes, so a
  walk may show a session twice but does not miss it).
- Logging, privacy tracing, diagnostics, update notices: write-only.
- Between modules: `SessionStream`, `SessionControl` and `SessionRegistry` share
  the session and split its state by the locks that guard it; each models what
  the others do to its part (the exit, the eviction, the kill) as actions of its
  own. `PushDispatcher` and `Relay` see each other as external.

## 6. Plan

Done: the daemon (output, registry, control, access, push, start), the relay, the
command line, the mobile core and the wire; every safety property of the runs is
proved. What would extend it:

1. `TerminalController` of the Android app, over mobile-core's AttachedSession.
2. The composition of `PushDispatcher` with `Relay`, and of `MobileCore` with
   `Access`, in place of the external views they have of each other: abstract
   specifications of the relay and of the daemon, which the detailed ones
   implement and their clients are proved against.
3. The parts that are modelled by their effect only: endpoint binding, the
   debounced publications of the list.
